---------------------------- MODULE KVGeneration ----------------------------
(***************************************************************************)
(* GPT2.generate_with_metadata of KV_Cache/model.py, with its prefill and  *)
(* decode passes block by block and the key/value cache they share. One    *)
(* object serves one call after another; everything but the weights and    *)
(* use_kv_cache belongs to the call.                                       *)
(***************************************************************************)
EXTENDS CausalNetwork

CONSTANTS
  Eos,        \* tokenizer.eos_token_id
  Prompts,    \* the token sequences a prompt may be encoded to
  MaxNew,     \* the values of max_new_tokens
  NoLogits,   \* nothing has been drawn yet in this call
  Uninit,     \* whatever torch.empty left in a row
  NoCache     \* kv_cache is None

ASSUME GenerationAssumption ==
  /\ Prompts \subseteq Seq(Token)
  /\ MaxNew \subseteq Int

VARIABLES
  pc,              \* "idle", "loop", "prefill", "decode", "done" or "raised"
  useKvCache,      \* self.use_kv_cache
  inputTokens,
  allTokens,
  maxTotalTokens,
  kvCache,         \* layer -> rows; row r holds the token at position r - 1
  hs,              \* activations entering block `layer`, one per token
  layer,           \* the next block of the pass under way
  logits,          \* the distribution the newest token was drawn from
  prefillCalls,    \* timings.prefill_calls
  decodeCalls      \* timings.decode_calls

call == <<useKvCache, inputTokens, maxTotalTokens>>
timings == <<prefillCalls, decodeCalls>>
vars == <<pc, call, allTokens, kvCache, hs, layer, logits, timings>>

Smaller(a, b) == IF a <= b THEN a ELSE b

Busy == pc \in {"loop", "prefill", "decode"}

\* min(self.n_positions, input_tokens.shape[0] + max_new_tokens)
TotalFor(prompt, maxNew) == Smaller(NPositions, Len(prompt) + maxNew)

\* torch.empty: the rows are allocated, not cleared.
FreshCache(total) == [l \in Layer |-> [r \in 1 .. total |-> Uninit]]

\* Mutated form of StorePrompt: the slice stops a row short.
StorePromptButLast(cache, l, rows, n) ==
  [cache EXCEPT ![l] =
     [r \in DOMAIN cache[l] |-> IF r < n THEN rows[r] ELSE cache[l][r]]]

\* kv_cache[: n, l, :] = kv
StorePrompt(cache, l, rows, n) ==
  [cache EXCEPT ![l] =
     [r \in DOMAIN cache[l] |-> IF r <= n THEN rows[r] ELSE cache[l][r]]]

\* Mutated form of StoreToken: a position too low.
StoreTokenBefore(cache, l, position, row) == [cache EXCEPT ![l][position] = row]

\* kv_cache[position : position + 1, l, :] = kv
StoreToken(cache, l, position, row) == [cache EXCEPT ![l][position + 1] = row]

\* Mutated form of CachedRows: the token does not attend to itself.
CachedRowsBefore(cache, l, position) == [r \in 1 .. position |-> cache[l][r]]

\* kv_cache[: position + 1, l, :]
CachedRows(cache, l, position) == [r \in 1 .. position + 1 |-> cache[l][r]]

-----------------------------------------------------------------------------
Init ==
  /\ pc = "idle"
  /\ useKvCache \in BOOLEAN
  /\ inputTokens = <<>>
  /\ allTokens = <<>>
  /\ maxTotalTokens = 0
  /\ kvCache = NoCache
  /\ hs = <<>>
  /\ layer = 0
  /\ logits = NoLogits
  /\ prefillCalls = 0
  /\ decodeCalls = 0

\* Entry of a call, up to the loop. torch.empty refuses a negative size.
Generate(prompt, maxNew) ==
  LET total == TotalFor(prompt, maxNew)
      refused == useKvCache /\ total < 0
  IN  /\ ~Busy
      /\ inputTokens' = prompt
      /\ allTokens' = prompt
      /\ maxTotalTokens' = total
      /\ kvCache' = IF useKvCache /\ ~refused THEN FreshCache(total) ELSE NoCache
      /\ pc' = IF refused THEN "raised" ELSE "loop"
      /\ hs' = <<>>
      /\ layer' = 0
      /\ logits' = NoLogits
      /\ prefillCalls' = 0
      /\ decodeCalls' = 0
      /\ UNCHANGED useKvCache

\* The loop's condition: while all_tokens.shape[0] < max_total_tokens
HasRoom == Len(allTokens) < maxTotalTokens

\* Mutated forms of TakesPrefill: the mode forgotten; the first decode awaited.
TakesFirstPrefillOnly == Len(allTokens) = Len(inputTokens)
TakesPrefillUntilDecode == ~useKvCache \/ decodeCalls = 0

\* Without the cache every pass is a prefill of the whole text; with it only
\* the pass that no generated token precedes.
TakesPrefill == ~useKvCache \/ Len(allTokens) = Len(inputTokens)

\* An empty prompt is encoded to no token: there is nothing to embed, and no row
\* of logits to take the last of.
RaiseOnEmptyText ==
  /\ pc = "loop"
  /\ HasRoom
  /\ allTokens = <<>>
  /\ pc' = "raised"
  /\ UNCHANGED <<call, allTokens, kvCache, hs, layer, logits, timings>>

\* wte[input_tokens] + wpe[: n]
BeginPrefill ==
  /\ pc = "loop"
  /\ HasRoom
  /\ allTokens # <<>>
  /\ TakesPrefill
  /\ hs' = [i \in 1 .. Len(allTokens) |-> Embed(allTokens[i], i - 1)]
  /\ layer' = 0
  /\ pc' = "prefill"
  /\ UNCHANGED <<call, allTokens, kvCache, logits, timings>>

\* Transformer.prefill: the mask hides from token i every row after i.
PrefillBlock ==
  LET rows == [i \in 1 .. Len(hs) |-> KeyValue(layer, hs[i])]
  IN  /\ pc = "prefill"
      /\ layer \in Layer
      /\ kvCache' = IF useKvCache
                      THEN StorePrompt(kvCache, layer, rows, Len(hs))
                      ELSE kvCache
      /\ hs' = [i \in 1 .. Len(hs) |-> Block(layer, hs[i], Prefix(rows, i))]
      /\ layer' = layer + 1
      /\ UNCHANGED <<pc, call, allTokens, logits, timings>>

\* self.decode(all_tokens[-1:], all_tokens.shape[0] - 1, kv_cache)
BeginDecode ==
  /\ pc = "loop"
  /\ HasRoom
  /\ allTokens # <<>>
  /\ ~TakesPrefill
  /\ hs' = <<Embed(allTokens[Len(allTokens)], Len(allTokens) - 1)>>
  /\ layer' = 0
  /\ pc' = "decode"
  /\ UNCHANGED <<call, allTokens, kvCache, logits, timings>>

\* Transformer.decode: the token's own row is stored first, then read back
\* with the rows of the tokens before it.
DecodeBlock ==
  LET position == Len(allTokens) - 1
  IN  /\ pc = "decode"
      /\ layer \in Layer
      /\ kvCache' = StoreToken(kvCache, layer, position, KeyValue(layer, hs[1]))
      /\ hs' = <<Block(layer, hs[1], CachedRows(kvCache', layer, position))>>
      /\ layer' = layer + 1
      /\ UNCHANGED <<pc, call, allTokens, logits, timings>>

\* Mutated form of EndsText: looked for in the decode path only.
EndsTextInDecode(t) == t = Eos /\ pc = "decode"

\* next_token.item() == self.tokenizer.eos_token_id
EndsText(t) == t = Eos

\* The end of a pass: count it, draw a token from the last row of logits and
\* append it; the end-of-sequence token breaks out of the loop.
SampleToken(t) ==
  /\ pc \in {"prefill", "decode"}
  /\ layer = NumLayers
  /\ logits' = LMHead(hs[Len(hs)])
  /\ prefillCalls' = prefillCalls + (IF pc = "prefill" THEN 1 ELSE 0)
  /\ decodeCalls' = decodeCalls + (IF pc = "decode" THEN 1 ELSE 0)
  /\ allTokens' = Append(allTokens, t)
  /\ pc' = IF EndsText(t) THEN "done" ELSE "loop"
  /\ UNCHANGED <<call, kvCache, hs, layer>>

\* Mutated form of Return: an exact fit is waited for.
ReturnOnExactFit ==
  /\ pc = "loop"
  /\ Len(allTokens) = maxTotalTokens
  /\ pc' = "done"
  /\ UNCHANGED <<call, allTokens, kvCache, hs, layer, logits, timings>>

\* Leaving the loop by its condition, and returning the GenerationResult.
Return ==
  /\ pc = "loop"
  /\ ~HasRoom
  /\ pc' = "done"
  /\ UNCHANGED <<call, allTokens, kvCache, hs, layer, logits, timings>>

\* What the call under way does on its own.
Step ==
  \/ RaiseOnEmptyText
  \/ BeginPrefill
  \/ PrefillBlock
  \/ BeginDecode
  \/ DecodeBlock
  \/ \E t \in Token : SampleToken(t)
  \/ Return

Next ==
  \/ \E prompt \in Prompts, maxNew \in MaxNew : Generate(prompt, maxNew)
  \/ Step

\* A call that was entered is executed by its thread; nothing says when the
\* next one comes.
Fairness == WF_vars(Step)

Spec == Init /\ [][Next]_vars

FairSpec == Spec /\ Fairness

-----------------------------------------------------------------------------
\* How many rows of block l the passes of this call have stored: the pass
\* under way adds its own once it is through the block.
Written(l) ==
  LET n == Len(allTokens)
  IN  CASE ~useKvCache -> 0
        [] useKvCache /\ pc \in {"prefill", "decode"} /\ l < layer -> n
        [] OTHER -> IF n = Len(inputTokens) THEN 0 ELSE n - 1

\* A cache of n rows for every block.
Shaped(cache, n) == cache = [l \in Layer |-> [r \in 1 .. n |-> cache[l][r]]]

(***************************************************************************)
(* Types. The rows and activations are left open: they are whatever the    *)
(* network's functions return. What is fixed is the shape of the cache:    *)
(* max_total_tokens rows for every block (model.py:117-123).               *)
(***************************************************************************)
TypeOK ==
  /\ pc \in {"idle", "loop", "prefill", "decode", "done", "raised"}
  /\ useKvCache \in BOOLEAN
  /\ inputTokens \in Seq(Token)
  /\ allTokens \in Seq(Token)
  /\ maxTotalTokens \in Int
  /\ useKvCache /\ pc \notin {"idle", "raised"} =>
       /\ maxTotalTokens >= 0
       /\ Shaped(kvCache, maxTotalTokens)
  /\ ~useKvCache => kvCache = NoCache
  /\ pc = "prefill" => hs = [i \in 1 .. Len(allTokens) |-> hs[i]]
  /\ pc = "decode" => useKvCache /\ hs = <<hs[1]>>
  /\ layer \in 0 .. NumLayers
  /\ prefillCalls \in Nat
  /\ decodeCalls \in Nat

\* Every row a pass may read back is the row the reference forward pass would
\* compute for that token from the text before it: never one that torch.empty
\* left, nor one of another position, block or text. Stored rows fit the
\* cache (Transformer.prefill and decode, model.py:193-238).
KVCoherent ==
  \A l \in Layer :
    /\ useKvCache /\ pc \notin {"idle", "raised"} => Written(l) <= maxTotalTokens
    /\ \A r \in 1 .. Written(l) :
         kvCache[l][r] = KeyValue(l, Activation(l, Prefix(allTokens, r)))

\* The activations entering a block are the reference ones for the text so far,
\* whether a pass computes all of them or the newest only, reading the others'
\* rows from the cache (model.py:61-97).
ActivationsAgree ==
  /\ pc = "prefill" =>
       hs = [i \in 1 .. Len(allTokens) |-> Activation(layer, Prefix(allTokens, i))]
  /\ pc = "decode" => hs = <<Activation(layer, allTokens)>>

\* The timings count one forward pass per generated token, and with the cache
\* all but the first of them are decodes (model.py:125-142).
CallAccounting ==
  LET generated == Len(allTokens) - Len(inputTokens)
  IN  /\ prefillCalls + decodeCalls = generated
      /\ useKvCache => prefillCalls = Smaller(1, generated)
      /\ ~useKvCache => decodeCalls = 0

\* The loop stops where it must: the prompt is kept, the text outgrows neither
\* n_positions nor the budget, nothing follows a generated Eos, and a call
\* that returns early does so because of one (model.py:124-152).
StopsInTime ==
  LET n == Len(inputTokens)
      generated == {i \in 1 .. Len(allTokens) : i > n}
      newestIsEos == generated # {} /\ allTokens[Len(allTokens)] = Eos
  IN  /\ Prefix(allTokens, n) = inputTokens
      /\ generated # {} => Len(allTokens) <= maxTotalTokens
      /\ \A i \in generated : allTokens[i] = Eos => i = Len(allTokens)
      /\ Busy => ~newestIsEos
      /\ pc = "done" => newestIsEos \/ ~HasRoom

\* Within a call a stored row is final: no later pass writes it again, so the
\* rows a decode reads are the ones the prefill and the earlier decodes left
\* (model.py:197-199 and 233-235).
StoredRowsFinal ==
  [][Busy => \A l \in Layer : \A r \in 1 .. Written(l) :
                kvCache'[l][r] = kvCache[l][r]]_vars

\* Every call that is entered returns or raises, for prompts longer than
\* n_positions too (model.py:124).
CallReturns == Busy ~> ~Busy

\* With the cache and without it, the call implements the abstract one: the
\* caller sees tokens drawn from the logits of the whole text so far.
Abstract ==
  INSTANCE TextGeneration WITH
    status <- IF Busy THEN "running" ELSE pc,
    prompt <- inputTokens,
    text <- allTokens,
    limit <- maxTotalTokens,
    drawnFrom <- logits

ImplementsTextGeneration == Abstract!Spec

=============================================================================
