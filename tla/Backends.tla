------------------------------- MODULE Backends -------------------------------
(***************************************************************************)
(* One request body sent to server.py, which generates with GPT2, and then *)
(* to hf_server.py, which generates with transformers: what is refused,    *)
(* how many generations there are, how long each may get, and what the     *)
(* answer reports of them.                                                 *)
(*                                                                         *)
(* A text is a sequence of words, one token each; a blank word makes no    *)
(* token. The models are loaded; ModelServer has the loading and the       *)
(* threads. External: transformers' generate.                              *)
(***************************************************************************)
EXTENDS Integers, SequencesExt

CONSTANTS
  Requests,       \* the request bodies
  NPositions,     \* GPT2.n_positions
  DefaultBudget,  \* 64
  BuildPrompt(_), \* build_prompt: the words of a response's prompt, none if refused
  Retokenized(_)  \* how many tokens the text is that some token ids are decoded to

ASSUME BackendsAssumption ==
  NPositions \in Nat \ {0} /\ DefaultBudget \in Nat \ {0}

All(kind, items) == \A i \in DOMAIN items : items[i][1] = kind

\* An item of a prompt as the tokenizer sees it.
IsItem(item) ==
  /\ item[1] = "text" => item[2] \in Nat
  /\ item[1] = "list" =>
       item[2] \in Seq(Range(item[2])) /\ (All("int", item[2]) => Retokenized(item[2]) \in Nat)

\* What the schemas let through (server.py:23-57): a budget, if there is one, and n
\* are at least 1.
ASSUME RequestsAssumption ==
  \A r \in Requests :
    /\ r.budget \in Nat /\ r.n \in Nat \ {0}
    /\ \/ r.route = "responses" /\ r.stream \in BOOLEAN /\ BuildPrompt(r) \in Seq(STRING)
       \/ /\ r.route = "completions" /\ IsItem(r.prompt)
          /\ r.prompt[1] = "list" => \A i \in DOMAIN r.prompt[2] : IsItem(r.prompt[2][i])

Backend == {"server", "hf_server"}

VARIABLES
  request,  \* the request body
  phase,    \* where each server is with it
  prompts,  \* the prompts' lengths in tokens
  choices,  \* the generations done: prompt and output tokens
  out,      \* the tokens generated so far for the choice under way
  ended,    \* the last of them was the end of the text
  usage,    \* the totals: prompt tokens, output tokens
  status    \* of the answer, 0 before it is decided

progress == <<choices, out, ended, usage>>
vars == <<request, phase, prompts, progress, status>>

Null == 0

\* payload.max_output_tokens or 64
Budget == IF request.budget = Null THEN DefaultBudget ELSE request.budget

-----------------------------------------------------------------------------
(* Prompts. One of a completion is <<"text", tokens>>, <<"int", id>>,       *)
(* <<"list", items>> or <<"other">>.                                        *)

\* normalize_completion_prompts: a text, texts, token ids, or lists of token ids.
Supported(p) ==
  \/ p[1] = "text"
  \/ /\ p[1] = "list"
     /\ \/ All("text", p[2])
        \/ All("int", p[2])
        \/ All("list", p[2]) /\ \A i \in DOMAIN p[2] : All("int", p[2][i][2])

\* The prompts it makes of them, each as long as generate_with_metadata finds it:
\* token ids are decoded to a text first, which is tokenized anew and need not have
\* as many tokens. No texts are no prompts.
Lengths(p) ==
  LET Tokens(item) == IF item[1] = "text" THEN item[2] ELSE Retokenized(item[2])
  IN  IF p[1] = "text" \/ (p[2] # <<>> /\ All("int", p[2]))
        THEN <<Tokens(p)>> ELSE [i \in DOMAIN p[2] |-> Tokens(p[2][i])]

-----------------------------------------------------------------------------
Init ==
  /\ request \in Requests
  /\ phase = [b \in Backend |-> "asked"]
  /\ prompts = [b \in Backend |-> <<>>]
  /\ choices = [b \in Backend |-> <<>>]
  /\ out = [b \in Backend |-> 0]
  /\ ended = [b \in Backend |-> FALSE]
  /\ usage = [b \in Backend |-> [prompt |-> 0, output |-> 0]]
  /\ status = [b \in Backend |-> 0]

Answer(b, code) ==
  /\ phase' = [phase EXCEPT ![b] = "answered"]
  /\ status' = [status EXCEPT ![b] = code]

Generate(b, lengths) ==
  /\ phase' = [phase EXCEPT ![b] = "generating"]
  /\ prompts' = [prompts EXCEPT ![b] = lengths]
  /\ UNCHANGED status

\* The client asks hf_server.py when it has the answer of server.py.
Asked(b) ==
  phase[b] = "asked" /\ (b = "hf_server" => phase["server"] = "answered")

\* Mutated form of Respond: one server leaves the check for streaming out.
RespondCarelessly(b) ==
  /\ Asked(b) /\ request.route = "responses"
  /\ CASE request.stream /\ b = "server" -> Answer(b, 501) /\ UNCHANGED prompts
       [] BuildPrompt(request) = <<>> -> Answer(b, 422) /\ UNCHANGED prompts
       [] OTHER -> Generate(b, <<Len(BuildPrompt(request))>>)
  /\ UNCHANGED <<request, progress>>

\* run_openai_compatible_generation, up to the model
Respond(b) ==
  /\ Asked(b) /\ request.route = "responses"
  /\ CASE request.stream -> Answer(b, 501) /\ UNCHANGED prompts
       [] ~request.stream /\ BuildPrompt(request) = <<>> -> Answer(b, 422) /\ UNCHANGED prompts
       [] OTHER -> Generate(b, <<Len(BuildPrompt(request))>>)
  /\ UNCHANGED <<request, progress>>

\* generate_completion_choices, up to the loop
Complete(b) ==
  /\ Asked(b) /\ request.route = "completions"
  /\ IF Supported(request.prompt)
       THEN Generate(b, Lengths(request.prompt))
       ELSE Answer(b, 422) /\ UNCHANGED prompts
  /\ UNCHANGED <<request, progress>>

-----------------------------------------------------------------------------
\* for prompt in prompts: for _ in range(request.n)
MoreToDo(b) == Len(choices[b]) < Len(prompts[b]) * request.n

Length(b) == prompts[b][Len(choices[b]) \div request.n + 1]

\* Mutated form of Choose: a prompt is counted once for all its choices.
ChooseOnce(b, tokens) ==
  /\ choices' = [choices EXCEPT ![b] = Append(@,
       [prompt |-> Length(b), output |-> tokens])]
  /\ usage' = [usage EXCEPT ![b] =
       [prompt |-> @.prompt + (IF Len(choices[b]) % request.n = 0 THEN Length(b) ELSE 0),
        output |-> @.output + tokens]]
  /\ out' = [out EXCEPT ![b] = 0]
  /\ ended' = [ended EXCEPT ![b] = FALSE]

\* A generation returns, and its choice is added with its tokens.
Choose(b, tokens) ==
  /\ choices' = [choices EXCEPT ![b] = Append(@,
       [prompt |-> Length(b), output |-> tokens])]
  /\ usage' = [usage EXCEPT ![b] =
       [prompt |-> @.prompt + Length(b), output |-> @.output + tokens]]
  /\ out' = [out EXCEPT ![b] = 0]
  /\ ended' = [ended EXCEPT ![b] = FALSE]

\* Mutated form of Limit: the window is not looked at.
LimitByBudget(length) == length + Budget

\* max_total_tokens
Limit(length) == IF length + Budget < NPositions THEN length + Budget ELSE NPositions

\* One round of GPT2.generate_with_metadata; there is nothing to sample from when
\* the prompt has no token.
GPT2Token ==
  LET b == "server"
  IN  /\ phase[b] = "generating" /\ MoreToDo(b)
      /\ ~ended[b] /\ Length(b) + out[b] < Limit(Length(b))
      /\ IF Length(b) = 0
           THEN Answer(b, 500) /\ UNCHANGED progress
           ELSE /\ out' = [out EXCEPT ![b] = @ + 1]
                /\ \E eos \in BOOLEAN : ended' = [ended EXCEPT ![b] = eos]
                /\ UNCHANGED <<phase, status, choices, usage>>
      /\ UNCHANGED <<request, prompts>>

GPT2Return ==
  LET b == "server"
  IN  /\ phase[b] = "generating" /\ MoreToDo(b)
      /\ ended[b] \/ Length(b) + out[b] >= Limit(Length(b))
      /\ Choose(b, out[b])
      /\ UNCHANGED <<request, phase, prompts, status>>

\* The last token generated is not fed back, so one may stand behind the window;
\* a token past it has no position to be embedded at.
HFCanGenerate(length, tokens) == length > 0 /\ length + tokens <= NPositions + 1

\* HFTransformer.generate_with_metadata: transformers knows no window of its own.
HFGenerate ==
  LET b == "hf_server"
  IN  /\ phase[b] = "generating" /\ MoreToDo(b)
      /\ \E tokens \in 1 .. Budget :
           IF HFCanGenerate(Length(b), tokens)
             THEN /\ Choose(b, tokens)
                  /\ UNCHANGED <<phase, status>>
             ELSE Answer(b, 500) /\ UNCHANGED progress
      /\ UNCHANGED <<request, prompts>>

Return(b) ==
  /\ phase[b] = "generating" /\ ~MoreToDo(b)
  /\ Answer(b, 200)
  /\ UNCHANGED <<request, prompts, progress>>

Next ==
  \/ GPT2Token \/ GPT2Return \/ HFGenerate
  \/ \E b \in Backend : Respond(b) \/ Complete(b) \/ Return(b)

Spec == Init /\ [][Next]_vars

-----------------------------------------------------------------------------
Ok(b) == status[b] = 200

\* The sums of the first numbers of a sequence, and of all of them.
Sums(s) ==
  LET sum[i \in 0 .. Len(s)] == IF i = 0 THEN 0 ELSE sum[i - 1] + s[i]
  IN  sum

Total(s) == Sums(s)[Len(s)]

Outputs(b) == [i \in DOMAIN choices[b] |-> choices[b][i].output]

\* The totals reported are those of the choices reported, `n` of them to each
\* prompt and in the order of the prompts (server.py:277-295, hf_server.py:179-197).
UsageAddsUp ==
  \A b \in Backend : Ok(b) =>
    LET n == request.n
    IN  /\ Len(choices[b]) = n * Len(prompts[b])
        /\ \A i \in DOMAIN choices[b] : choices[b][i].prompt = prompts[b][(i + n - 1) \div n]
        /\ usage[b].prompt = n * Total(prompts[b])
        /\ usage[b].output = Total(Outputs(b))

\* A client gets no more tokens than it asked for, and server.py never more than
\* the window has room for; it answers with none at all exactly when the prompt
\* leaves no room, which is no error there (model.py:108, 124).
BudgetKept ==
  \A b \in Backend : \A i \in DOMAIN choices[b] :
    LET c == choices[b][i]
    IN  /\ c.output <= Budget
        /\ b = "server" =>
             /\ c.output > 0 => c.prompt + c.output <= NPositions
             /\ c.output = 0 <=> c.prompt >= NPositions

\* README.md, "Both servers expose the same endpoints": one body gets one verdict
\* from both, except that hf_server.py fails where server.py stops at the window.
SameVerdict ==
  (\A b \in Backend : phase[b] = "answered") =>
    \/ status["server"] = status["hf_server"]
    \/ /\ status["server"] = 200 /\ status["hf_server"] = 500
       /\ \E i \in DOMAIN prompts["server"] : prompts["server"][i] + Budget > NPositions + 1
===============================================================================
