--------------------------- MODULE CompareKVCache ---------------------------
(***************************************************************************)
(* main.py --compare-kv-cache: the same prompt is generated from twice, by *)
(* an object with the cache and by one without, the random generator being *)
(* seeded alike before each run, and the two texts are compared.           *)
(*                                                                         *)
(* torch's generator is external: the k-th draw after a seed is some       *)
(* function of the distribution it draws from, found out as it is used.    *)
(***************************************************************************)
EXTENDS KVGeneration

VARIABLES
  stage,       \* "seeding", "cached", "uncached", "reported" or "failed"
  prompt,      \* resolve_prompt(args.prompt), encoded
  maxNew,      \* args.max_new_tokens
  constructible, \* the use_kv_cache with which GPT2(...) can be constructed
  draws,       \* draws since the generator was seeded
  generator,   \* what the seed makes of a draw: triples <<k, distribution, token>>
  cachedText,  \* cached_result.full_text
  warned       \* the warning was printed

args == <<prompt, maxNew, constructible>>
driver == <<stage, args, draws, generator, cachedText, warned>>
compareVars == <<vars, driver>>

-----------------------------------------------------------------------------
\* resolve_prompt exits on a blank prompt. GPT2(...) raises where device.py:8 is
\* reached, without CUDA on every machine, and where the weights cannot be loaded,
\* which the second construction may meet although the first did not.
CompareInit ==
  /\ Init
  /\ useKvCache
  /\ stage = "seeding"
  /\ prompt \in Prompts \ {<<>>}
  /\ maxNew \in MaxNew
  /\ constructible \in SUBSET BOOLEAN
  /\ draws = 0
  /\ generator = {}
  /\ cachedText = <<>>
  /\ warned = FALSE

\* The first run_generation: seed, and construct the object with the cache.
RunCached ==
  /\ stage = "seeding"
  /\ TRUE \in constructible
  /\ stage' = "cached"
  /\ draws' = 0
  /\ UNCHANGED <<vars, args, generator, cachedText, warned>>

CallGenerate ==
  /\ stage \in {"cached", "uncached"}
  /\ pc = "idle"
  /\ Generate(prompt, maxNew)
  /\ UNCHANGED driver

Forward ==
  /\ BeginPrefill \/ PrefillBlock \/ BeginDecode \/ DecodeBlock \/ Return
  /\ UNCHANGED driver

\* multinomial: a draw already known for this seed turns out as before.
Draw(token) ==
  /\ SampleToken(token)
  /\ draws' = draws + 1
  /\ \A e \in generator : e[1] = draws /\ e[2] = logits' => e[3] = token
  /\ generator' = generator \union {<<draws, logits', token>>}
  /\ UNCHANGED <<stage, args, cachedText, warned>>

\* Mutated form of SeededDraws: the second run goes on with the generator.
UnseededDraws == draws

\* torch.manual_seed(seed): the draws are numbered afresh.
SeededDraws == 0

\* The second run_generation: seed again, and construct the object without it.
RunUncached ==
  /\ stage = "cached"
  /\ pc = "done"
  /\ FALSE \in constructible
  /\ cachedText' = allTokens
  /\ stage' = "uncached"
  /\ draws' = SeededDraws
  /\ useKvCache' = FALSE
  /\ pc' = "idle"
  /\ inputTokens' = <<>>
  /\ allTokens' = <<>>
  /\ maxTotalTokens' = 0
  /\ kvCache' = NoCache
  /\ hs' = <<>>
  /\ layer' = 0
  /\ logits' = NoLogits
  /\ prefillCalls' = 0
  /\ decodeCalls' = 0
  /\ UNCHANGED <<args, generator, warned>>

\* Neither run gets further than the GPT2(...) of run_generation when it raises.
ConstructionRaises ==
  /\ \/ stage = "seeding" /\ TRUE \notin constructible
     \/ stage = "cached" /\ pc = "done" /\ FALSE \notin constructible
  /\ stage' = "failed"
  /\ UNCHANGED <<vars, args, draws, generator, cachedText, warned>>

\* Either call may raise, and the exception ends the program.
Fail ==
  /\ stage \in {"cached", "uncached"}
  /\ pc = "raised"
  /\ stage' = "failed"
  /\ UNCHANGED <<vars, args, draws, generator, cachedText, warned>>

Report ==
  /\ stage = "uncached"
  /\ pc = "done"
  /\ stage' = "reported"
  /\ warned' = (cachedText # allTokens)
  /\ UNCHANGED <<vars, args, draws, generator, cachedText>>

CompareNext ==
  \/ RunCached
  \/ CallGenerate
  \/ Forward
  \/ \E token \in Token : Draw(token)
  \/ RunUncached
  \/ ConstructionRaises
  \/ Fail
  \/ Report

\* One process runs to its end.
CompareSpec ==
  CompareInit /\ [][CompareNext]_compareVars /\ WF_compareVars(CompareNext)

-----------------------------------------------------------------------------
CompareTypeOK ==
  /\ TypeOK
  /\ stage \in {"seeding", "cached", "uncached", "reported", "failed"}
  /\ constructible \in SUBSET BOOLEAN
  /\ draws \in Nat
  /\ cachedText \in Seq(Token)
  /\ warned \in BOOLEAN

\* Token by token, the run without the cache retraces the run with it: what it
\* has so far is a prefix of the cached text, it never outgrows it, and it does
\* not stop before it (main.py:78-92; model.py:124-150).
UncachedRetracesCached ==
  stage \in {"uncached", "reported"} =>
    /\ Len(allTokens) <= Len(cachedText)
    /\ Prefix(cachedText, Len(allTokens)) = allTokens
    /\ pc = "done" => allTokens = cachedText

\* The comparison ends. It ends with a report exactly when both objects can be
\* constructed and the budget is not refused, and then the warning of
\* main.py:105-106 is not printed; otherwise the program ends with the exception
\* of main.py:54 or of model.py:111, and no report (main.py:78-106).
ComparisonReported ==
  <>(IF constructible = BOOLEAN /\ TotalFor(prompt, maxNew) >= 0
     THEN stage = "reported" /\ ~warned
     ELSE stage = "failed")

=============================================================================
