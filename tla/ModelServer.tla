----------------------------- MODULE ModelServer -----------------------------
(***************************************************************************)
(* The HTTP server of KV_Cache/server.py: one event loop, a pool of worker *)
(* threads behind it, and the LRU cache of loaded models that all of them  *)
(* share. Handlers run in the pool, except that a streamed completion is   *)
(* generated on the event loop itself and only its chunks go through the   *)
(* pool.                                                                   *)
(*                                                                         *)
(* External: the pool (anyio's limiter: so many tokens, waiters served in  *)
(* order, a token given back by the event loop) and functools.lru_cache.   *)
(***************************************************************************)
EXTENDS Integers, FiniteSets, SequencesExt

CONSTANTS
  Request,    \* one id for each HTTP request
  Workload,   \* what the requests may ask for, see WorkloadAssumption
  Model,      \* model names, stripped
  Loadable,   \* the models whose construction succeeds
  Blank,      \* a model name that strip leaves empty
  Threads,    \* tokens of the worker pool
  CacheSize,  \* maxsize of lru_cache
  Free        \* the event loop runs no handler

\* prompt is "text", "empty" (no token to generate from) or "unusable" (no text
\* in a response request, an unsupported format in a completion); count is the
\* number of generations, prompts times n.
Payload ==
  [route : {"healthz", "responses", "completions"}, stream : BOOLEAN,
   model : Model \union {Blank}, prompt : {"text", "empty", "unusable"},
   count : Nat]

ASSUME WorkloadAssumption == Workload \subseteq [Request -> Payload]

ASSUME ServerAssumption ==
  /\ Loadable \subseteq Model
  /\ Blank \notin Model
  /\ Free \notin Request
  /\ Threads \in Nat \ {0}
  /\ CacheSize \in Nat \ {0}
  /\ IsFiniteSet(Request)

VARIABLES
  phase,    \* where each request is
  payload,  \* what it asks for
  loop,     \* the request whose handler runs on the event loop, or Free
  working,  \* the requests that hold a token of the pool
  waiters,  \* the requests that wait for one, in order
  cache,    \* get_model's entries, least recently used first
  loads,    \* model -> how often it has been constructed
  inst,     \* the instance a request uses, a number of its model's loads
  made,     \* how many choices a request has generated
  sent,     \* the chunks sent to a streaming client
  status    \* the status code of the answer, 0 before it is decided

pool == <<working, waiters>>
models == <<cache, loads, inst>>
vars == <<phase, payload, loop, pool, models, made, sent, status>>

Streams(r) == payload[r].route = "completions" /\ payload[r].stream

\* A handler makes progress in a worker thread or on the event loop.
Runs(r) == r \in working \/ loop = r

\* A job handed to the pool starts at once or waits behind the others.
Submit(r) ==
  IF Cardinality(working) < Threads
    THEN working' = working \union {r} /\ UNCHANGED waiters
    ELSE waiters' = Append(waiters, r) /\ UNCHANGED working

\* Mutated form of Release: the token is kept.
ReleaseNothing(r) == UNCHANGED pool

\* Mutated form of Release: the waiter is not woken.
ReleaseSilently(r) == working' = working \ {r} /\ UNCHANGED waiters

\* The event loop takes the token of a finished job back, and the first waiter
\* gets it.
Release(r) ==
  IF waiters = <<>>
    THEN working' = working \ {r} /\ UNCHANGED waiters
    ELSE /\ working' = (working \ {r}) \union {Head(waiters)}
         /\ waiters' = Tail(waiters)

\* A handler's outcome. On the event loop an error is answered at once and a
\* success becomes a StreamingResponse; a worker leaves it to the event loop.
Conclude(r, code) ==
  /\ status' = [status EXCEPT ![r] = code]
  /\ phase' = [phase EXCEPT ![r] =
                 CASE loop # r -> "finished"
                   [] loop = r /\ code = 200 -> "streaming"
                   [] OTHER -> "answered"]
  /\ loop' = IF loop = r THEN Free ELSE loop

-----------------------------------------------------------------------------
Init ==
  /\ phase = [r \in Request |-> "unsent"]
  /\ payload \in Workload
  /\ loop = Free
  /\ working = {}
  /\ waiters = <<>>
  /\ cache = <<>>
  /\ loads = [m \in Model |-> 0]
  /\ inst = [r \in Request |-> 0]
  /\ made = [r \in Request |-> 0]
  /\ sent = [r \in Request |-> <<>>]
  /\ status = [r \in Request |-> 0]

\* A client sends its request.
Send(r) ==
  /\ phase[r] = "unsent"
  /\ phase' = [phase EXCEPT ![r] = "sent"]
  /\ UNCHANGED <<payload, loop, pool, models, made, sent, status>>

\* healthz, being no coroutine, and the handlers under run_in_threadpool.
DispatchToPool(r) ==
  /\ loop = Free
  /\ phase[r] = "sent"
  /\ ~Streams(r)
  /\ Submit(r)
  /\ phase' = [phase EXCEPT ![r] =
                 IF payload[r].route = "healthz" THEN "probing" ELSE "checking"]
  /\ UNCHANGED <<payload, loop, models, made, sent, status>>

\* return stream_legacy_completion(http_request, request)
DispatchStream(r) ==
  /\ loop = Free
  /\ phase[r] = "sent"
  /\ Streams(r)
  /\ loop' = r
  /\ phase' = [phase EXCEPT ![r] = "checking"]
  /\ UNCHANGED <<payload, pool, models, made, sent, status>>

\* Mutated form of Healthz: it asks for the models and waits for their lock.
HealthzUnderLock(r) ==
  /\ Runs(r)
  /\ phase[r] = "probing"
  /\ \A other \in Request : phase[other] \notin {"loading", "generating"}
  /\ Conclude(r, 200)
  /\ UNCHANGED <<payload, pool, models, made, sent>>

Healthz(r) ==
  /\ Runs(r)
  /\ phase[r] = "probing"
  /\ Conclude(r, 200)
  /\ UNCHANGED <<payload, pool, models, made, sent>>

\* What is refused before any model is asked for: a response request is checked
\* for streaming and for a prompt first, a completion only for its model's name.
Refusal(p) ==
  CASE p.route = "responses" /\ p.stream -> 501
    [] p.route = "responses" /\ ~p.stream /\ p.prompt = "unusable" -> 422
    [] OTHER -> IF p.model = Blank THEN 422 ELSE 0

Check(r) ==
  /\ Runs(r)
  /\ phase[r] = "checking"
  /\ IF Refusal(payload[r]) # 0
       THEN Conclude(r, Refusal(payload[r]))
       ELSE /\ phase' = [phase EXCEPT ![r] = "lookup"]
            /\ UNCHANGED <<loop, status>>
  /\ UNCHANGED <<payload, pool, models, made, sent>>

-----------------------------------------------------------------------------
(* app.state.get_model: lru_cache around the construction of GPT2. The     *)
(* cache is not locked while a model is constructed.                       *)

Cached(m) == \E i \in DOMAIN cache : cache[i].model = m

Entry(m) == CHOOSE e \in {cache[i] : i \in DOMAIN cache} : e.model = m

\* Mutated form of Inserted: a late result replaces the cached instance.
InsertedAnyway(c, e) ==
  LET rest == SelectSeq(c, LAMBDA old : old.model # e.model)
  IN  Append(IF Len(rest) = CacheSize THEN Tail(rest) ELSE rest, e)

\* Mutated form of Inserted: the entry of another thread is not looked for.
InsertedAgain(c, e) == Append(IF Len(c) = CacheSize THEN Tail(c) ELSE c, e)

\* A new result; if another thread cached the key meanwhile, its entry stays.
Inserted(c, e) ==
  CASE \E i \in DOMAIN c : c[i].model = e.model -> c
    [] OTHER -> Append(IF Len(c) = CacheSize THEN Tail(c) ELSE c, e)

\* The entry becomes the one used last.
Hit(r) ==
  /\ Runs(r)
  /\ phase[r] = "lookup"
  /\ \E i \in DOMAIN cache :
       /\ cache[i].model = payload[r].model
       /\ inst' = [inst EXCEPT ![r] = cache[i].number]
       /\ cache' = Append(RemoveAt(cache, i), cache[i])
  /\ phase' = [phase EXCEPT ![r] = "loaded"]
  /\ UNCHANGED <<payload, loop, pool, loads, made, sent, status>>

Miss(r) ==
  /\ Runs(r)
  /\ phase[r] = "lookup"
  /\ ~Cached(payload[r].model)
  /\ phase' = [phase EXCEPT ![r] = "loading"]
  /\ UNCHANGED <<payload, loop, pool, models, made, sent, status>>

Load(r) ==
  LET m == payload[r].model
  IN  /\ Runs(r)
      /\ phase[r] = "loading"
      /\ m \in Loadable
      /\ loads' = [loads EXCEPT ![m] = @ + 1]
      /\ inst' = [inst EXCEPT ![r] = loads[m] + 1]
      /\ cache' = Inserted(cache, [model |-> m, number |-> loads[m] + 1])
      /\ phase' = [phase EXCEPT ![r] = "loaded"]
      /\ UNCHANGED <<payload, loop, pool, made, sent, status>>

\* An exception of the constructor is not cached, and becomes a 502.
LoadFails(r) ==
  /\ Runs(r)
  /\ phase[r] = "loading"
  /\ payload[r].model \notin Loadable
  /\ Conclude(r, 502)
  /\ UNCHANGED <<payload, pool, models, made, sent>>

-----------------------------------------------------------------------------
\* normalize_completion_prompts, which needs the model's tokenizer.
NormalizePrompts(r) ==
  /\ Runs(r)
  /\ phase[r] = "loaded"
  /\ IF payload[r].prompt = "unusable"
       THEN Conclude(r, 422)
       ELSE /\ phase' = [phase EXCEPT ![r] = "generating"]
            /\ UNCHANGED <<loop, status>>
  /\ UNCHANGED <<payload, pool, models, made, sent>>

GenerateChoice(r) ==
  /\ Runs(r)
  /\ phase[r] = "generating"
  /\ made[r] < payload[r].count
  /\ payload[r].prompt = "text"
  /\ made' = [made EXCEPT ![r] = @ + 1]
  /\ UNCHANGED <<phase, payload, loop, pool, models, sent, status>>

\* Mutated form of Failure: an unavailable service is claimed, which no client of
\* this API is told.
FailureUnavailable == 503

\* Mutated form of Failure: what was generated so far is returned.
FailureAfterSome == 200

Failure == 500

\* generate_with_metadata raises: on an empty prompt always, on any other when
\* memory or the device gives out. Nothing catches it.
GenerationRaises(r) ==
  /\ Runs(r)
  /\ phase[r] = "generating"
  /\ made[r] < payload[r].count
  /\ Conclude(r, Failure)
  /\ UNCHANGED <<payload, pool, models, made, sent>>

ReturnChoices(r) ==
  /\ Runs(r)
  /\ phase[r] = "generating"
  /\ made[r] = payload[r].count
  /\ Conclude(r, 200)
  /\ UNCHANGED <<payload, pool, models, made, sent>>

\* The event loop resumes the handler whose worker is through, and answers.
Respond(r) ==
  /\ loop = Free
  /\ phase[r] = "finished"
  /\ Release(r)
  /\ phase' = [phase EXCEPT ![r] = "answered"]
  /\ UNCHANGED <<payload, loop, models, made, sent, status>>

-----------------------------------------------------------------------------
(* StreamingResponse iterates event_stream in the pool, a job for each     *)
(* chunk and one more to find it exhausted.                                *)

\* Mutated form of EventStream: the stop chunks come after all the texts.
EventStreamStopsLast(n) ==
  [i \in 1 .. 2 * n + 1 |->
     IF i = 2 * n + 1 THEN <<"[DONE]">>
     ELSE IF i <= n THEN <<"text", i - 1>> ELSE <<"stop", i - n - 1>>]

\* The events of n choices: text and stop chunk of each, then the end mark.
EventStream(n) ==
  [i \in 1 .. 2 * n + 1 |->
     IF i = 2 * n + 1 THEN <<"[DONE]">>
     ELSE <<IF i % 2 = 1 THEN "text" ELSE "stop", (i - 1) \div 2>>]

AskChunk(r) ==
  /\ loop = Free
  /\ phase[r] = "streaming"
  /\ Submit(r)
  /\ phase' = [phase EXCEPT ![r] = "yielding"]
  /\ UNCHANGED <<payload, loop, models, made, sent, status>>

YieldChunk(r) ==
  /\ Runs(r)
  /\ phase[r] = "yielding"
  /\ phase' = [phase EXCEPT ![r] = "yielded"]
  /\ UNCHANGED <<payload, loop, pool, models, made, sent, status>>

SendChunk(r) ==
  LET events == EventStream(made[r])
      next == Len(sent[r]) + 1
  IN  /\ loop = Free
      /\ phase[r] = "yielded"
      /\ Release(r)
      /\ IF next <= Len(events)
           THEN /\ sent' = [sent EXCEPT ![r] = Append(@, events[next])]
                /\ phase' = [phase EXCEPT ![r] = "streaming"]
           ELSE /\ phase' = [phase EXCEPT ![r] = "answered"]
                /\ UNCHANGED sent
      /\ UNCHANGED <<payload, loop, models, made, status>>

-----------------------------------------------------------------------------
LoopStep(r) ==
  \/ DispatchToPool(r)
  \/ DispatchStream(r)
  \/ Respond(r)
  \/ AskChunk(r)
  \/ SendChunk(r)

HandlerStep(r) ==
  \/ Healthz(r)
  \/ Check(r)
  \/ Hit(r)
  \/ Miss(r)
  \/ Load(r)
  \/ LoadFails(r)
  \/ NormalizePrompts(r)
  \/ GenerateChoice(r)
  \/ GenerationRaises(r)
  \/ ReturnChoices(r)
  \/ YieldChunk(r)

Next == \E r \in Request : Send(r) \/ LoopStep(r) \/ HandlerStep(r)

Spec == Init /\ [][Next]_vars

\* The event loop serves what is ready, and threads run; nothing says that a load
\* or a generation ends.
FairSpec ==
  /\ Spec
  /\ \A r \in Request :
       WF_vars(LoopStep(r)) /\ WF_vars(Healthz(r)) /\ WF_vars(YieldChunk(r))

\* Loading a model and generating a choice end.
ModelsEnd == \A r \in Request : WF_vars(HandlerStep(r))

-----------------------------------------------------------------------------
\* Where a request is while the pool has its job.
InPool == {"probing", "checking", "lookup", "loading", "loaded", "generating",
           "finished", "yielding", "yielded"}

TypeOK ==
  /\ phase \in [Request -> InPool \union {"unsent", "sent", "streaming", "answered"}]
  /\ payload \in [Request -> Payload]
  /\ loop \in Request \union {Free}
  /\ working \subseteq Request
  /\ waiters \in Seq(Request)
  /\ cache \in Seq([model : Loadable, number : Nat \ {0}])
  /\ loads \in [Model -> Nat]
  /\ inst \in [Request -> Nat]
  /\ made \in [Request -> Nat]
  /\ \A r \in Request :
       sent[r] \in Seq({<<"[DONE]">>} \union ({"text", "stop"} \X Nat))
  /\ status \in [Request -> {0, 200, 422, 500, 501, 502}]

\* No token of the pool is lost or handed out twice: a request holds or awaits
\* one exactly while a job of its own is in the pool, nobody waits while a token
\* is free, and what runs on the event loop takes none (server.py:379-397).
PoolSound ==
  LET waiting == {waiters[i] : i \in DOMAIN waiters}
  IN  /\ Cardinality(working) <= Threads
      /\ waiters # <<>> => Cardinality(working) = Threads
      /\ Cardinality(waiting) = Len(waiters)
      /\ waiting \intersect working = {}
      /\ \A r \in Request :
           r \in waiting \union working <=> phase[r] \in InPool /\ loop # r

\* Whatever threads load at the same time, the cache keeps one entry a model,
\* never of a failed load, and no more than its size (server.py:369-375).
CacheSound ==
  /\ Len(cache) <= CacheSize
  /\ \A i, j \in DOMAIN cache : cache[i].model = cache[j].model => i = j
  /\ \A i \in DOMAIN cache :
       cache[i].model \in Loadable /\ cache[i].number \in 1 .. loads[cache[i].model]

\* A model that stays cached stays the same instance: a thread that comes late
\* with a second one does not replace what others already use.
CachedInstanceStable ==
  [][\A m \in Model : Cached(m) /\ Cached(m)' => Entry(m)' = Entry(m)]_vars

\* An answer says what happened, and success is never partial: 200 only with
\* every choice generated by one loaded instance, an error with a status that
\* names its cause, and nothing loaded for what is refused unseen
\* (server.py:178-203, 265-291).
AnswersExplained ==
  \A r \in Request :
    phase[r] = "answered" =>
      LET p == payload[r]
      IN  /\ p.route = "healthz" => status[r] = 200
          /\ status[r] = 200 /\ p.route # "healthz" =>
               p.model \in Loadable /\ inst[r] # 0 /\ made[r] = p.count
          /\ status[r] = 500 => inst[r] # 0 /\ made[r] < p.count
          /\ status[r] = 501 => p.route = "responses" /\ inst[r] = 0
          /\ status[r] = 502 => p.model \in Model \ Loadable
          /\ status[r] = 422 =>
               p.model = Blank \/ (p.prompt = "unusable" /\ made[r] = 0)

\* Whoever reads a stream gets whole choices: no chunk leaves before all of them
\* are generated, each text is followed by its stop, the choices are in order,
\* and the end mark comes last and once (server.py:310-352).
StreamsWhole ==
  \A r \in Request :
    LET s == sent[r]
        n == payload[r].count
    IN  /\ s # <<>> => status[r] = 200 /\ made[r] = n
        /\ \A i \in DOMAIN s :
             CASE s[i][1] = "text" ->
                    IF i = 1 THEN s[i][2] = 0
                             ELSE s[i - 1] = <<"stop", s[i][2] - 1>>
               [] s[i][1] = "stop" -> i > 1 /\ s[i - 1] = <<"text", s[i][2]>>
               [] OTHER -> i = Len(s) /\ i = 2 * n + 1
        /\ phase[r] = "answered" /\ status[r] = 200 /\ Streams(r) =>
             Len(s) = 2 * n + 1

\* Every request is answered, however the loads, the blocked event loop and the
\* full pool fall together, if each load and each generation ends.
RequestsAnswered ==
  ModelsEnd => \A r \in Request : phase[r] = "sent" ~> phase[r] = "answered"

\* healthz does not depend on any model: even if no load and no generation ever
\* ended, the probe is answered, unless from some moment on a streamed completion
\* holds the event loop for ever, or requests other than the probe hold every
\* worker for ever. A load or a generation beside it, while one worker is left for
\* the probe, does not hold it up (server.py:379-381, 396-397).
HealthzIndependent ==
  \A r \in Request :
    (phase[r] = "sent" /\ payload[r].route = "healthz") ~>
      \/ phase[r] = "answered"
      \/ [](loop # Free)
      \/ [](Cardinality(working \ {r}) = Threads)

=============================================================================
