--------------------------- MODULE TextGeneration ---------------------------
(***************************************************************************)
(* What GPT2.generate_with_metadata promises its callers, with or without  *)
(* a KV cache: each new token is drawn from the logits that the reference  *)
(* forward pass gives to the whole text so far, generation stops at the    *)
(* end-of-sequence token or when the budget is used up, and it fails only  *)
(* on a text or a budget that it cannot start from.                        *)
(***************************************************************************)
EXTENDS CausalNetwork

CONSTANTS
  Eos,        \* tokenizer.eos_token_id
  Prompts,    \* the token sequences a prompt may be encoded to
  MaxNew,     \* the values of max_new_tokens
  NoLogits    \* nothing has been drawn yet in this call

VARIABLES status, prompt, text, limit, drawnFrom

vars == <<status, prompt, text, limit, drawnFrom>>

Smaller(a, b) == IF a <= b THEN a ELSE b

Init ==
  /\ status = "idle"
  /\ prompt = <<>>
  /\ text = <<>>
  /\ limit = 0
  /\ drawnFrom = NoLogits

\* A call; one whose budget is negative may be refused.
Accept(p, maxNew) ==
  /\ status # "running"
  /\ prompt' = p
  /\ text' = p
  /\ limit' = Smaller(NPositions, Len(p) + maxNew)
  /\ drawnFrom' = NoLogits
  /\ \/ status' = "running"
     \/ limit' < 0 /\ status' = "raised"

\* One token more, drawn from the distribution of the text so far.
Emit(t) ==
  /\ status = "running"
  /\ text # <<>>
  /\ Len(text) < limit
  /\ drawnFrom' = ReferenceLogits(text)
  /\ text' = Append(text, t)
  /\ status' = IF t = Eos THEN "done" ELSE "running"
  /\ UNCHANGED <<prompt, limit>>

\* An empty text has no last token to continue from.
Refuse ==
  /\ status = "running"
  /\ text = <<>>
  /\ Len(text) < limit
  /\ status' = "raised"
  /\ UNCHANGED <<prompt, text, limit, drawnFrom>>

Finish ==
  /\ status = "running"
  /\ Len(text) >= limit
  /\ status' = "done"
  /\ UNCHANGED <<prompt, text, limit, drawnFrom>>

Next ==
  \/ \E p \in Prompts, m \in MaxNew : Accept(p, m)
  \/ \E t \in Token : Emit(t)
  \/ Refuse
  \/ Finish

Spec == Init /\ [][Next]_vars

=============================================================================
