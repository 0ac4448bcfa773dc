-------------------------- MODULE ModelServerProofs --------------------------
(***************************************************************************)
(* The worker pool, the cache of models, the answers and the streams of    *)
(* ModelServer.tla, for any number of requests, workers and models and any *)
(* size of the cache.                                                      *)
(***************************************************************************)
EXTENDS ModelServer, FiniteSetTheorems, SequenceTheorems, TLAPS

-----------------------------------------------------------------------------
(* Sequences.                                                              *)

\* An element moved to the end: who was behind it moves up by one.
LEMMA MovedToEnd ==
  ASSUME NEW S, NEW s \in Seq(S), NEW i \in 1 .. Len(s)
  PROVE  LET t == Append(RemoveAt(s, i), s[i])
         IN  /\ t \in Seq(S)
             /\ Len(t) = Len(s)
             /\ \A k \in 1 .. Len(s) :
                  t[k] = IF k = Len(s) THEN s[i] ELSE IF k < i THEN s[k] ELSE s[k + 1]
<1> DEFINE front == SubSeq(s, 1, i - 1)
           back == SubSeq(s, i + 1, Len(s))
           rest == front \o back
<1>1. Len(s) \in Nat /\ \A k \in 1 .. Len(s) : s[k] \in S
  BY LenProperties, ElementOfSeq
<1>2. /\ front \in Seq(S) /\ Len(front) = i - 1
      /\ \A k \in 1 .. i - 1 : front[k] = s[k]
  BY <1>1, SubSeqProperties
<1>3. /\ back \in Seq(S) /\ Len(back) = Len(s) - i
      /\ \A k \in 1 .. Len(s) - i : back[k] = s[i + k]
  BY <1>1, SubSeqProperties
<1> HIDE DEF front, back
<1>4. /\ rest \in Seq(S) /\ Len(rest) = Len(front) + Len(back)
      /\ \A k \in 1 .. Len(front) + Len(back) :
           rest[k] = IF k <= Len(front) THEN front[k] ELSE back[k - Len(front)]
  BY <1>2, <1>3, ConcatProperties
<1>5. Len(rest) = Len(s) - 1 /\ \A k \in 1 .. Len(s) - 1 : rest[k] = IF k < i THEN s[k] ELSE s[k + 1]
  <2> SUFFICES ASSUME NEW k \in 1 .. Len(s) - 1
               PROVE  Len(rest) = Len(s) - 1 /\ rest[k] = IF k < i THEN s[k] ELSE s[k + 1]
    BY <1>1, <1>2, <1>3, <1>4
  <2>1. CASE k < i
    BY <1>1, <1>2, <1>3, <1>4, <2>1
  <2>2. CASE ~(k < i)
    <3>1. k - (i - 1) \in 1 .. Len(s) - i /\ i + (k - (i - 1)) = k + 1
      BY <1>1, <2>2
    <3>2. Len(front) = i - 1 /\ k \in 1 .. Len(front) + Len(back) /\ ~(k <= Len(front))
      BY <1>1, <1>2, <1>3, <2>2
    <3>3. rest[k] = back[k - (i - 1)]
      BY <1>4, <3>2
    <3> QED
      BY <1>1, <1>2, <1>3, <1>4, <2>2, <3>1, <3>3
  <2> QED
    BY <2>1, <2>2
<1>6. RemoveAt(s, i) = rest
  BY DEF RemoveAt, front, back
<1> HIDE DEF rest
<1>7. /\ Append(rest, s[i]) \in Seq(S) /\ Len(Append(rest, s[i])) = Len(s)
      /\ \A k \in 1 .. Len(s) - 1 : Append(rest, s[i])[k] = rest[k]
      /\ Append(rest, s[i])[Len(s)] = s[i]
  BY <1>1, <1>4, <1>5, AppendProperties
<1> QED
  BY <1>1, <1>5, <1>6, <1>7

\* A sequence without duplicates has as many elements as its range.
LEMMA RangeCardinality ==
  ASSUME NEW S, NEW s \in Seq(S), \A i, j \in DOMAIN s : s[i] = s[j] => i = j
  PROVE  Cardinality({s[i] : i \in DOMAIN s}) = Len(s)
<1> DEFINE T == {s[i] : i \in DOMAIN s}
<1>1. Len(s) \in Nat /\ DOMAIN s = 1 .. Len(s) /\ s \in [1 .. Len(s) -> S]
  BY LenProperties
<1>2. s \in Bijection(1 .. Len(s), T)
  BY <1>1 DEF Bijection, Injection, Surjection, IsInjective
<1>3. ExistsBijection(1 .. Len(s), T)
  BY <1>2 DEF ExistsBijection
<1> QED
  BY <1>1, <1>3, FS_CountingElements

\* A new last element, the first one gone if the sequence is full (n its limit).
PushedTo(s, e, n) == Append(IF Len(s) = n THEN Tail(s) ELSE s, e)

LEMMA Pushed ==
  ASSUME NEW S, NEW s \in Seq(S), NEW e \in S, NEW n \in Nat \ {0}, Len(s) <= n,
         NEW t, t = PushedTo(s, e, n)
  PROVE  /\ t \in Seq(S)
         /\ Len(t) \in 1 .. n
         /\ t[Len(t)] = e
         /\ \E d \in {0, 1} : \A k \in 1 .. Len(t) - 1 : k + d \in 1 .. Len(s) /\ t[k] = s[k + d]
<1>1. Len(s) \in Nat
  BY LenProperties
<1>2. CASE Len(s) = n
  <2>1. s # << >>
    BY <1>2, EmptySeq
  <2>2. /\ Tail(s) \in Seq(S) /\ Len(Tail(s)) = Len(s) - 1
        /\ \A k \in 1 .. Len(s) - 1 : Tail(s)[k] = s[k + 1]
    BY <2>1, HeadTailProperties
  <2>3. /\ Append(Tail(s), e) \in Seq(S) /\ Len(Append(Tail(s), e)) = Len(s)
        /\ \A k \in 1 .. Len(s) - 1 : Append(Tail(s), e)[k] = Tail(s)[k]
        /\ Append(Tail(s), e)[Len(s)] = e
    BY <1>1, <2>2, AppendProperties
  <2>4. t = Append(Tail(s), e)
    BY <1>2 DEF PushedTo
  <2>5. \A k \in 1 .. Len(t) - 1 : k + 1 \in 1 .. Len(s) /\ t[k] = s[k + 1]
    BY <1>1, <2>2, <2>3, <2>4
  <2>6. t \in Seq(S) /\ Len(t) \in 1 .. n /\ t[Len(t)] = e
    BY <1>1, <1>2, <2>3, <2>4
  <2> QED
    BY <2>5, <2>6
<1>3. CASE Len(s) # n
  <2>1. t = Append(s, e)
    BY <1>3 DEF PushedTo
  <2>2. /\ t \in Seq(S) /\ Len(t) = Len(s) + 1 /\ t[Len(t)] = e
        /\ \A k \in 1 .. Len(s) : t[k] = s[k]
    BY <2>1, AppendProperties
  <2>3. Len(t) \in 1 .. n
    BY <1>1, <1>3, <2>2
  <2>4. \A k \in 1 .. Len(t) - 1 : k + 0 \in 1 .. Len(s) /\ t[k] = s[k + 0]
    BY <1>1, <2>2
  <2> QED
    BY <2>2, <2>3, <2>4
<1> QED
  BY <1>2, <1>3

\* A sequence without duplicates keeps having none, whoever comes in or goes first.
Distinct(s) == \A i, j \in DOMAIN s : s[i] = s[j] => i = j
Members(s) == {s[i] : i \in DOMAIN s}

LEMMA AppendDistinct ==
  ASSUME NEW S, NEW s \in Seq(S), Distinct(s), NEW e \in S, e \notin Members(s)
  PROVE  /\ Distinct(Append(s, e))
         /\ Members(Append(s, e)) = Members(s) \union {e}
<1>1. /\ Append(s, e) \in Seq(S) /\ Len(Append(s, e)) = Len(s) + 1
      /\ \A k \in 1 .. Len(s) : Append(s, e)[k] = s[k]
      /\ Append(s, e)[Len(s) + 1] = e
  BY AppendProperties
<1>2. /\ Len(s) \in Nat /\ DOMAIN s = 1 .. Len(s)
      /\ DOMAIN Append(s, e) = 1 .. Len(s) + 1
  BY <1>1, LenProperties
<1> DEFINE t == Append(s, e)
<1> HIDE DEF t
<1>3. Distinct(t)
  BY <1>1, <1>2 DEF Distinct, Members, t
<1>4. Members(t) = Members(s) \union {e}
  <2>1. DOMAIN t = DOMAIN s \union {Len(s) + 1}
    BY <1>2 DEF t
  <2>2. \A k \in DOMAIN s : t[k] = s[k]
    BY <1>1, <1>2 DEF t
  <2>3. t[Len(s) + 1] = e
    BY <1>1 DEF t
  <2> QED
    BY <2>1, <2>2, <2>3 DEF Members
<1> QED
  BY <1>3, <1>4 DEF t

LEMMA TailDistinct ==
  ASSUME NEW S, NEW s \in Seq(S), Distinct(s), s # << >>
  PROVE  /\ Distinct(Tail(s))
         /\ Head(s) \in Members(s)
         /\ Members(Tail(s)) = Members(s) \ {Head(s)}
<1>1. /\ Tail(s) \in Seq(S) /\ Len(Tail(s)) = Len(s) - 1
      /\ \A k \in 1 .. Len(Tail(s)) : Tail(s)[k] = s[k + 1]
  BY HeadTailProperties
<1>2. /\ Len(s) \in Nat \ {0} /\ DOMAIN s = 1 .. Len(s)
      /\ DOMAIN Tail(s) = 1 .. Len(s) - 1
  BY <1>1, LenProperties, EmptySeq
<1>3. Head(s) = s[1]
  OBVIOUS
<1> DEFINE t == Tail(s)
<1> HIDE DEF t
<1>4. Len(s) \in Nat /\ DOMAIN t = 1 .. Len(s) - 1 /\ \A k \in DOMAIN t : t[k] = s[k + 1]
  BY <1>1, <1>2 DEF t
<1>5. Distinct(t)
  BY <1>2, <1>4 DEF Distinct
<1>6. Members(t) = Members(s) \ {Head(s)}
  <2>1. \A k \in DOMAIN t : k + 1 \in DOMAIN s /\ k + 1 # 1
    BY <1>2, <1>4
  <2>2. \A k \in DOMAIN s : k = 1 \/ (k - 1 \in DOMAIN t /\ (k - 1) + 1 = k)
    BY <1>2, <1>4
  <2>3. Members(t) \subseteq Members(s) \ {Head(s)}
    BY <1>2, <1>3, <1>4, <2>1 DEF Members, Distinct
  <2>4. Members(s) \ {Head(s)} \subseteq Members(t)
    <3> SUFFICES ASSUME NEW k \in DOMAIN s, s[k] # Head(s) PROVE s[k] \in Members(t)
      BY DEF Members
    <3>1. k # 1
      BY <1>3
    <3>2. k - 1 \in DOMAIN t /\ t[k - 1] = s[k]
      BY <1>4, <2>2, <3>1
    <3> QED
      BY <3>2 DEF Members
  <2> QED
    BY <2>3, <2>4
<1>7. Head(s) \in Members(s)
  BY <1>2, <1>3 DEF Members
<1> QED
  BY <1>5, <1>6, <1>7 DEF t

-----------------------------------------------------------------------------
(* The inductive invariant.                                                *)

Chunk == {<<"[DONE]">>} \union ({"text", "stop"} \X Nat)
Handling == {"checking", "lookup", "loading", "loaded", "generating"}
Streaming == {"streaming", "yielding", "yielded"}
Concluded == {"finished", "answered"} \union Streaming

TypeInv ==
  /\ phase \in [Request -> InPool \union {"unsent", "sent", "streaming", "answered"}]
  /\ payload \in [Request -> Payload]
  /\ loop \in Request \union {Free}
  /\ inst \in [Request -> Nat]
  /\ made \in [Request -> Nat]
  /\ DOMAIN sent = Request /\ \A r \in Request : sent[r] \in Seq(Chunk)
  /\ status \in [Request -> {0, 200, 422, 500, 501, 502}]

\* A request that still waits for a worker has not been looked at: what a handler
\* has begun runs to its end on its own token.
PoolInv ==
  /\ working \subseteq Request
  /\ waiters \in Seq(Request)
  /\ Cardinality(working) <= Threads
  /\ waiters # << >> => Cardinality(working) = Threads
  /\ Distinct(waiters)
  /\ Members(waiters) \intersect working = {}
  /\ \A r \in Request : r \in Members(waiters) \union working <=> phase[r] \in InPool /\ loop # r
  /\ \A r \in Members(waiters) : phase[r] \in {"probing", "checking", "yielding"}

\* The handlers on the event loop are those of streamed completions, and there is one.
LoopInv ==
  \A r \in Request :
    /\ loop = r => phase[r] \in Handling
    /\ phase[r] \in Handling \union {"probing", "finished"} => (Streams(r) <=> loop = r)
    /\ phase[r] \in Streaming => Streams(r)

CacheInv ==
  /\ cache \in Seq([model : Loadable, number : Nat \ {0}])
  /\ loads \in [Model -> Nat]
  /\ CacheSound

\* AnswersExplained of one request, whose outcome is known from its conclusion on.
Explained(r, code) ==
  LET p == payload[r]
  IN  /\ code # 0
      /\ p.route = "healthz" => code = 200
      /\ code = 200 /\ p.route # "healthz" => p.model \in Loadable /\ inst[r] # 0 /\ made[r] = p.count
      /\ code = 500 => inst[r] # 0 /\ made[r] < p.count
      /\ code = 501 => p.route = "responses" /\ inst[r] = 0
      /\ code = 502 => p.model \in Model \ Loadable
      /\ code = 422 => p.model = Blank \/ (p.prompt = "unusable" /\ made[r] = 0)

\* What a request has been found to be at each phase.
StateInv(r) ==
  LET p == payload[r]
  IN  /\ phase[r] \in {"unsent", "sent", "probing", "checking", "lookup", "loading"} =>
           inst[r] = 0 /\ made[r] = 0
      /\ phase[r] \notin Streaming \union {"answered"} => sent[r] = << >>
      /\ phase[r] = "probing" => p.route = "healthz"
      /\ phase[r] \in Handling => p.route # "healthz"
      /\ phase[r] \in Handling \ {"checking"} => Refusal(p) = 0
      /\ phase[r] \in {"loaded", "generating"} => p.model \in Loadable /\ inst[r] # 0
      /\ phase[r] = "loaded" => made[r] = 0
      /\ phase[r] = "generating" => p.prompt # "unusable" /\ made[r] <= p.count
      /\ phase[r] \in Concluded => Explained(r, status[r])
      /\ phase[r] \in Streaming => status[r] = 200

\* What was sent begins the event stream of all choices.
SentInv(r) ==
  /\ Len(sent[r]) <= 2 * made[r] + 1
  /\ \A i \in 1 .. Len(sent[r]) : sent[r][i] = EventStream(made[r])[i]
  /\ sent[r] # << >> => status[r] = 200 /\ Streams(r) /\ phase[r] \in Streaming \union {"answered"}
  /\ phase[r] = "answered" /\ status[r] = 200 /\ Streams(r) => Len(sent[r]) = 2 * made[r] + 1

RequestInv == \A r \in Request : StateInv(r) /\ SentInv(r)

IInv == TypeInv /\ PoolInv /\ LoopInv /\ CacheInv /\ RequestInv

-----------------------------------------------------------------------------
(* The pool and the event loop.                                            *)

\* The sets of phases do not overlap where it matters.
LEMMA Phases ==
  /\ Handling \subseteq InPool /\ "probing" \in InPool /\ "finished" \in InPool
  /\ "yielding" \in InPool /\ "yielded" \in InPool
  /\ {"unsent", "sent", "streaming", "answered"} \intersect InPool = {}
  /\ Streaming \intersect Handling = {}
  /\ {"unsent", "sent", "probing", "finished", "answered"} \intersect (Streaming \union Handling) = {}
  /\ Streaming = {"streaming", "yielding", "yielded"}
  /\ Handling = {"checking", "lookup", "loading", "loaded", "generating"}
BY DEF Handling, Streaming, InPool

\* A request that runs does not wait.
LEMMA RunningHasToken ==
  ASSUME PoolInv, NEW r \in Request, Runs(r)
  PROVE  r \notin Members(waiters) /\ (loop # r => r \in working)
BY DEF PoolInv, Runs

\* A step of a handler that keeps its token, or its place on the event loop.
LEMMA HandlerGoesOn ==
  ASSUME TypeInv, PoolInv, LoopInv,
         NEW r \in Request, NEW next,
         phase' = [phase EXCEPT ![r] = next],
         UNCHANGED <<payload, loop, pool>>,
         Runs(r) \/ phase[r] \notin InPool,
         phase[r] \in InPool <=> next \in InPool,
         loop = r => next \in Handling,
         next \in Handling \union {"probing", "finished"} => phase[r] \in Handling,
         next \in Streaming => phase[r] \in Streaming
  PROVE  PoolInv' /\ LoopInv'
<1>1. phase'[r] = next /\ \A q \in Request \ {r} : phase'[q] = phase[q]
  BY DEF TypeInv
<1>2. r \notin Members(waiters)
  BY RunningHasToken DEF PoolInv
<1>3. UNCHANGED <<payload, loop, working, waiters>> /\ Members(waiters)' = Members(waiters)
  BY DEF pool, Members
<1>4. PoolInv'
  BY <1>1, <1>2, <1>3 DEF PoolInv, Distinct
<1>5. LoopInv'
  BY <1>1, <1>3 DEF LoopInv, Streams
<1> QED
  BY <1>4, <1>5

\* A handler's outcome frees the event loop, or leaves the token to it.
LEMMA ConcludeKeepsPool ==
  ASSUME TypeInv, PoolInv, LoopInv,
         NEW r \in Request, NEW code, Conclude(r, code),
         Runs(r), phase[r] \in Handling \union {"probing"},
         UNCHANGED <<payload, pool>>
  PROVE  PoolInv' /\ LoopInv'
<1>1. UNCHANGED <<payload, working, waiters>> /\ Members(waiters)' = Members(waiters)
  BY DEF pool, Members
<1>2. r \notin Members(waiters) /\ Free \notin Request
  BY RunningHasToken, ServerAssumption
<1>3. CASE loop # r
  <2>1. /\ phase'[r] = "finished" /\ loop' = loop
        /\ \A q \in Request \ {r} : phase'[q] = phase[q]
    BY <1>3 DEF Conclude, TypeInv
  <2>2. phase[r] \in InPool /\ "finished" \in InPool
    BY Phases
  <2>3. PoolInv'
    <3>1. \A q \in Request : q \in (Members(waiters)' \union working') <=> phase'[q] \in InPool /\ loop' # q
      BY <1>1, <2>1, <2>2 DEF PoolInv
    <3>2. \A q \in Members(waiters)' : phase'[q] \in {"probing", "checking", "yielding"}
      BY <1>1, <1>2, <2>1 DEF PoolInv, Members
    <3> QED
      BY <1>1, <3>1, <3>2 DEF PoolInv, Distinct
  <2>4. LoopInv'
    BY <1>1, <1>3, <2>1, Phases DEF LoopInv, Streams
  <2> QED
    BY <2>3, <2>4
<1>4. CASE loop = r
  <2>1. /\ phase'[r] \in {"streaming", "answered"} /\ loop' = Free
        /\ \A q \in Request \ {r} : phase'[q] = phase[q]
    BY <1>4 DEF Conclude, TypeInv
  <2>2. phase'[r] \notin InPool
    BY <2>1, Phases
  <2>3. r \notin working
    BY <1>4 DEF PoolInv
  <2>4. PoolInv'
    <3>1. \A q \in Request : q \in (Members(waiters)' \union working') <=> phase'[q] \in InPool /\ loop' # q
      BY <1>1, <1>2, <1>4, <2>1, <2>2, <2>3 DEF PoolInv
    <3>2. \A q \in Members(waiters)' : phase'[q] \in {"probing", "checking", "yielding"}
      BY <1>1, <1>2, <2>1 DEF PoolInv, Members
    <3> QED
      BY <1>1, <3>1, <3>2 DEF PoolInv, Distinct
  <2>5. Streams(r)
    BY <1>4 DEF LoopInv
  <2>6. LoopInv'
    <3> SUFFICES ASSUME NEW q \in Request
                 PROVE  /\ loop' = q => phase'[q] \in Handling
                        /\ phase'[q] \in Handling \union {"probing", "finished"} => (Streams(q)' <=> loop' = q)
                        /\ phase'[q] \in Streaming => Streams(q)'
      BY DEF LoopInv
    <3>1. Streams(q)' = Streams(q)
      BY <1>1 DEF Streams
    <3>2. CASE q = r
      BY <1>2, <2>1, <2>5, <3>1, <3>2, Phases
    <3>3. CASE q # r
      BY <1>2, <1>4, <2>1, <3>1, <3>3 DEF LoopInv
    <3> QED
      BY <3>2, <3>3
  <2> QED
    BY <2>4, <2>6
<1> QED
  BY <1>3, <1>4

\* The event loop hands a job to the pool: at once, or behind those who wait.
LEMMA SubmitKeepsPool ==
  ASSUME TypeInv, PoolInv, NEW r \in Request,
         NEW next \in {"probing", "checking", "yielding"},
         loop = Free, phase[r] \notin InPool, Submit(r),
         phase' = [phase EXCEPT ![r] = next], loop' = loop
  PROVE  PoolInv'
<1>1. phase'[r] = next /\ \A q \in Request \ {r} : phase'[q] = phase[q]
  BY DEF TypeInv
<1>2. r \notin Members(waiters) \union working
  BY DEF PoolInv
<1>3. next \in InPool /\ loop # r
  BY Phases, ServerAssumption DEF Handling
<1>4. IsFiniteSet(working) /\ Cardinality(working) \in Nat
  BY ServerAssumption, FS_Subset, FS_CardinalityType DEF PoolInv
<1>5. CASE Cardinality(working) < Threads
  <2>1. working' = working \union {r} /\ waiters' = waiters /\ Members(waiters)' = Members(waiters)
    BY <1>5 DEF Submit, Members
  <2>2. waiters = << >> /\ Members(waiters) = {}
    <3>1. waiters = << >>
      BY <1>4, <1>5, ServerAssumption DEF PoolInv
    <3> QED
      BY <3>1 DEF Members
  <2>3. Cardinality(working') = Cardinality(working) + 1
    BY <1>2, <1>4, <2>1, FS_AddElement
  <2>4. Cardinality(working') <= Threads
    BY <1>4, <1>5, <2>3, ServerAssumption
  <2>5. working' \subseteq Request /\ Members(waiters)' \intersect working' = {}
    BY <2>1, <2>2 DEF PoolInv
  <2>6. waiters' \in Seq(Request) /\ waiters' = << >> /\ Distinct(waiters)'
    BY <2>1, <2>2 DEF PoolInv, Distinct
  <2>7. \A q \in Request : q \in (Members(waiters)' \union working') <=> phase'[q] \in InPool /\ loop' # q
    BY <1>1, <1>2, <1>3, <2>1, <2>2 DEF PoolInv
  <2>8. Members(waiters)' = {}
    BY <2>1, <2>2
  <2> QED
    BY <2>4, <2>5, <2>6, <2>7, <2>8 DEF PoolInv
<1>6. CASE ~(Cardinality(working) < Threads)
  <2>1. working' = working /\ waiters' = Append(waiters, r)
    BY <1>6 DEF Submit
  <2>2. Cardinality(working) = Threads
    BY <1>4, <1>6, ServerAssumption DEF PoolInv
  <2>3. /\ Distinct(waiters') /\ Members(waiters') = Members(waiters) \union {r}
        /\ waiters' \in Seq(Request)
    BY <1>2, <2>1, AppendDistinct, AppendProperties DEF PoolInv
  <2>4. Distinct(waiters)' /\ Members(waiters)' = Members(waiters) \union {r}
    BY <2>3 DEF Distinct, Members
  <2>5. working' \subseteq Request /\ Members(waiters)' \intersect working' = {}
    BY <1>2, <2>1, <2>4 DEF PoolInv
  <2>6. Cardinality(working') = Threads /\ Cardinality(working') <= Threads
    BY <2>1, <2>2, ServerAssumption
  <2>7. \A q \in Request : q \in (Members(waiters)' \union working') <=> phase'[q] \in InPool /\ loop' # q
    BY <1>1, <1>2, <1>3, <2>1, <2>4 DEF PoolInv
  <2>8. \A q \in Members(waiters)' : phase'[q] \in {"probing", "checking", "yielding"}
    BY <1>1, <1>2, <2>4 DEF PoolInv, Members
  <2> QED
    BY <2>3, <2>4, <2>5, <2>6, <2>7, <2>8 DEF PoolInv
<1> QED
  BY <1>5, <1>6

\* The event loop takes a token back and hands it to the first who waits.
LEMMA ReleaseKeepsPool ==
  ASSUME TypeInv, PoolInv, NEW r \in Request, NEW next \in {"streaming", "answered"},
         loop = Free, phase[r] \in {"finished", "yielded"}, Release(r),
         phase' = [phase EXCEPT ![r] = next], loop' = loop
  PROVE  PoolInv'
<1>1. phase'[r] = next /\ \A q \in Request \ {r} : phase'[q] = phase[q]
  BY DEF TypeInv
<1>2. r \in working /\ r \notin Members(waiters)
  BY Phases, ServerAssumption DEF PoolInv
<1>3. next \notin InPool
  BY Phases
<1>4. IsFiniteSet(working) /\ Cardinality(working) \in Nat
  BY ServerAssumption, FS_Subset, FS_CardinalityType DEF PoolInv
<1>5. IsFiniteSet(working \ {r}) /\ Cardinality(working \ {r}) = Cardinality(working) - 1
  BY <1>2, <1>4, FS_RemoveElement
<1>6. CASE waiters = << >>
  <2>1. working' = working \ {r} /\ waiters' = waiters /\ Members(waiters)' = Members(waiters)
    BY <1>6 DEF Release, Members
  <2>2. Cardinality(working') <= Threads
    BY <1>4, <1>5, <2>1, ServerAssumption DEF PoolInv
  <2> QED
    BY <1>1, <1>2, <1>3, <1>6, <2>1, <2>2 DEF PoolInv, Distinct
<1>7. CASE waiters # << >>
  <2> DEFINE h == Head(waiters)
  <2>1. working' = (working \ {r}) \union {h} /\ waiters' = Tail(waiters)
    BY <1>7 DEF Release
  <2>2. /\ Distinct(waiters') /\ h \in Members(waiters)
        /\ Members(waiters') = Members(waiters) \ {h}
        /\ h \in Request /\ waiters' \in Seq(Request)
    BY <1>7, <2>1, TailDistinct, HeadTailProperties DEF PoolInv
  <2> HIDE DEF h
  <2>3. Distinct(waiters)' /\ Members(waiters)' = Members(waiters) \ {h}
    BY <2>2 DEF Distinct, Members
  <2>4. h \notin working
    BY <2>2 DEF PoolInv
  <2>5. Cardinality(working') = Cardinality(working \ {r}) + 1
    BY <1>5, <2>1, <2>4, FS_AddElement
  <2>6. Cardinality(working') = Threads
    BY <1>4, <1>5, <1>7, <2>5 DEF PoolInv
  <2>7. Cardinality(working') <= Threads
    BY <2>6, ServerAssumption
  <2>8. working' \subseteq Request /\ Members(waiters)' \intersect working' = {}
    BY <2>1, <2>2, <2>3, <2>4 DEF PoolInv
  <2>9. \A q \in Request : q \in (Members(waiters)' \union working') <=> phase'[q] \in InPool /\ loop' # q
    BY <1>1, <1>2, <1>3, <2>1, <2>2, <2>3 DEF PoolInv
  <2>10. \A q \in Members(waiters)' : phase'[q] \in {"probing", "checking", "yielding"}
    BY <1>1, <1>2, <2>3 DEF PoolInv, Members
  <2> QED
    BY <2>2, <2>3, <2>6, <2>7, <2>8, <2>9, <2>10 DEF PoolInv
<1> QED
  BY <1>6, <1>7

\* What the event loop does (server.py:379-397).
LEMMA LoopStepKeepsPool ==
  ASSUME TypeInv, PoolInv, LoopInv, NEW r \in Request, LoopStep(r)
  PROVE  PoolInv' /\ LoopInv'
<1>1. loop = Free /\ \A q \in Request : loop # q
  BY ServerAssumption DEF LoopStep, DispatchToPool, DispatchStream, Respond, AskChunk, SendChunk
<1>2. \A q \in Request : phase[q] \in Handling \union {"probing", "finished"} => ~Streams(q)
  BY <1>1 DEF LoopInv
<1>3. ASSUME NEW next, phase' = [phase EXCEPT ![r] = next], UNCHANGED <<payload, loop>>,
             next \in {"probing", "checking"} => ~Streams(r),
             next \in Streaming => Streams(r),
             next \in {"probing", "checking", "answered"} \union Streaming
      PROVE  LoopInv'
  <2> SUFFICES ASSUME NEW q \in Request
               PROVE  /\ loop' # q
                      /\ phase'[q] \in Handling \union {"probing", "finished"} => ~Streams(q)'
                      /\ phase'[q] \in Streaming => Streams(q)'
    BY DEF LoopInv
  <2>1. Streams(q)' = Streams(q) /\ loop' # q
    BY <1>1, <1>3 DEF Streams
  <2>2. CASE q = r
    <3>1. phase'[q] = next
      BY <1>3, <2>2 DEF TypeInv
    <3> QED
      BY <1>3, <2>1, <2>2, <3>1, Phases
  <2>3. CASE q # r
    <3>1. phase'[q] = phase[q]
      BY <1>3, <2>3 DEF TypeInv
    <3> QED
      BY <1>2, <2>1, <3>1 DEF LoopInv
  <2> QED
    BY <2>2, <2>3
<1>4. CASE DispatchToPool(r)
  <2>1. PICK next \in {"probing", "checking"} : phase' = [phase EXCEPT ![r] = next]
    BY <1>4 DEF DispatchToPool
  <2>2. phase[r] \notin InPool /\ Submit(r) /\ UNCHANGED <<payload, loop>> /\ ~Streams(r)
    BY <1>4, Phases DEF DispatchToPool
  <2>3. next \notin Streaming
    BY Phases
  <2> QED
    BY <1>1, <1>3, <2>1, <2>2, <2>3, SubmitKeepsPool
<1>5. CASE DispatchStream(r)
  <2>1. /\ phase'[r] = "checking" /\ loop' = r /\ Streams(r) /\ phase[r] = "sent"
        /\ UNCHANGED <<payload, working, waiters>> /\ Members(waiters)' = Members(waiters)
        /\ \A q \in Request \ {r} : phase'[q] = phase[q]
    BY <1>5 DEF DispatchStream, pool, TypeInv, Members
  <2>2. r \notin Members(waiters) \union working
    BY <2>1, Phases DEF PoolInv
  <2>3. \A q \in Request : q \in (Members(waiters)' \union working') <=> phase'[q] \in InPool /\ loop' # q
    BY <1>1, <2>1, <2>2 DEF PoolInv
  <2>4. \A q \in Members(waiters)' : phase'[q] \in {"probing", "checking", "yielding"}
    BY <2>1, <2>2 DEF PoolInv, Members
  <2>5. PoolInv'
    BY <2>1, <2>3, <2>4 DEF PoolInv, Distinct
  <2>6. ASSUME NEW q \in Request
        PROVE  /\ loop' = q => phase'[q] \in Handling
               /\ phase'[q] \in Handling \union {"probing", "finished"} => (Streams(q)' <=> loop' = q)
               /\ phase'[q] \in Streaming => Streams(q)'
    <3>1. Streams(q)' = Streams(q)
      BY <2>1 DEF Streams
    <3>2. CASE q = r
      BY <2>1, <3>1, <3>2, Phases
    <3>3. CASE q # r
      BY <1>2, <2>1, <3>1, <3>3 DEF LoopInv
    <3> QED
      BY <3>2, <3>3
  <2>7. LoopInv'
    BY <2>6 DEF LoopInv
  <2> QED
    BY <2>5, <2>7
<1>6. CASE Respond(r)
  <2>1. /\ phase' = [phase EXCEPT ![r] = "answered"] /\ phase[r] = "finished" /\ Release(r)
        /\ UNCHANGED <<payload, loop>>
    BY <1>6 DEF Respond
  <2>2. PoolInv'
    BY <1>1, <2>1, ReleaseKeepsPool
  <2>3. LoopInv'
    BY <1>3, <2>1, Phases
  <2> QED
    BY <2>2, <2>3
<1>7. CASE AskChunk(r)
  <2>1. /\ phase' = [phase EXCEPT ![r] = "yielding"] /\ phase[r] = "streaming" /\ Submit(r)
        /\ UNCHANGED <<payload, loop>>
    BY <1>7 DEF AskChunk
  <2>2. Streams(r) /\ phase[r] \notin InPool
    BY <2>1, Phases DEF LoopInv
  <2>3. PoolInv'
    BY <1>1, <2>1, <2>2, SubmitKeepsPool
  <2>4. LoopInv'
    BY <1>3, <2>1, <2>2, Phases
  <2> QED
    BY <2>3, <2>4
<1>8. CASE SendChunk(r)
  <2>1. PICK next \in {"streaming", "answered"} : phase' = [phase EXCEPT ![r] = next]
    BY <1>8 DEF SendChunk
  <2>2. phase[r] = "yielded" /\ Release(r) /\ UNCHANGED <<payload, loop>>
    BY <1>8 DEF SendChunk
  <2>3. Streams(r)
    BY <2>2, Phases DEF LoopInv
  <2>4. PoolInv'
    BY <1>1, <2>1, <2>2, ReleaseKeepsPool
  <2>5. next \in {"probing", "checking", "answered"} \union Streaming /\ next \notin {"probing", "checking"}
    BY Phases
  <2>6. LoopInv'
    BY <1>3, <2>1, <2>2, <2>3, <2>5
  <2> QED
    BY <2>4, <2>6
<1> QED
  BY <1>4, <1>5, <1>6, <1>7, <1>8 DEF LoopStep

\* What handlers do, and clients.
LEMMA HandlerStepKeepsPool ==
  ASSUME TypeInv, PoolInv, LoopInv, NEW r \in Request, Send(r) \/ HandlerStep(r)
  PROVE  PoolInv' /\ LoopInv'
<1>1. CASE Send(r)
  <2>1. /\ phase' = [phase EXCEPT ![r] = "sent"] /\ phase[r] = "unsent"
        /\ UNCHANGED <<payload, loop, pool>>
    BY <1>1 DEF Send
  <2>2. loop # r
    BY <2>1, Phases DEF LoopInv
  <2> QED
    BY <2>1, <2>2, Phases, HandlerGoesOn
<1>2. ASSUME NEW code, Conclude(r, code), Runs(r), phase[r] \in Handling \union {"probing"},
             UNCHANGED <<payload, pool>>
      PROVE  PoolInv' /\ LoopInv'
  BY <1>2, ConcludeKeepsPool
<1>3. ASSUME NEW next \in Handling, phase' = [phase EXCEPT ![r] = next], phase[r] \in Handling,
             Runs(r), UNCHANGED <<payload, loop, pool>>
      PROVE  PoolInv' /\ LoopInv'
  BY <1>3, Phases, HandlerGoesOn
<1>4. CASE Healthz(r)
  BY <1>2, <1>4 DEF Healthz
<1>5. CASE Check(r)
  BY <1>2, <1>3, <1>5, Phases DEF Check
<1>6. CASE Hit(r)
  BY <1>3, <1>6, Phases DEF Hit
<1>7. CASE Miss(r)
  BY <1>3, <1>7, Phases DEF Miss
<1>8. CASE Load(r)
  BY <1>3, <1>8, Phases DEF Load
<1>9. CASE LoadFails(r)
  BY <1>2, <1>9, Phases DEF LoadFails
<1>10. CASE NormalizePrompts(r)
  BY <1>2, <1>3, <1>10, Phases DEF NormalizePrompts
<1>11. CASE GenerateChoice(r)
  BY <1>11 DEF GenerateChoice, pool, PoolInv, LoopInv, Members, Distinct, Streams
<1>12. CASE GenerationRaises(r)
  BY <1>2, <1>12, Phases DEF GenerationRaises
<1>13. CASE ReturnChoices(r)
  BY <1>2, <1>13, Phases DEF ReturnChoices
<1>14. CASE YieldChunk(r)
  <2>1. /\ phase' = [phase EXCEPT ![r] = "yielded"] /\ phase[r] = "yielding" /\ Runs(r)
        /\ UNCHANGED <<payload, loop, pool>>
    BY <1>14 DEF YieldChunk
  <2>2. loop # r
    BY <2>1, Phases DEF LoopInv
  <2> QED
    BY <2>1, <2>2, Phases, HandlerGoesOn
<1> QED
  BY <1>1, <1>4, <1>5, <1>6, <1>7, <1>8, <1>9, <1>10, <1>11, <1>12, <1>13, <1>14 DEF HandlerStep

-----------------------------------------------------------------------------
(* Types, and the cache.                                                   *)

LEMMA SameInterval ==
  ASSUME NEW a \in Nat, NEW b \in Nat, 1 .. a = 1 .. b
  PROVE  a = b
<1>1. a \in 1 .. a \/ a = 0
  OBVIOUS
<1>2. b \in 1 .. b \/ b = 0
  OBVIOUS
<1>3. a \in 1 .. b \/ a = 0
  BY <1>1
<1>4. b \in 1 .. a \/ b = 0
  BY <1>2
<1> QED
  BY <1>3, <1>4

\* The events of n choices (server.py:315-350).
LEMMA EventStreamProperties ==
  ASSUME NEW n \in Nat
  PROVE  /\ EventStream(n) \in Seq(Chunk)
         /\ Len(EventStream(n)) = 2 * n + 1
         /\ \A i \in 1 .. 2 * n + 1 :
              EventStream(n)[i] =
                IF i = 2 * n + 1 THEN <<"[DONE]">>
                ELSE <<IF i % 2 = 1 THEN "text" ELSE "stop", (i - 1) \div 2>>
<1> DEFINE m == 2 * n + 1
           Event(i) == IF i = 2 * n + 1 THEN <<"[DONE]">>
                       ELSE <<IF i % 2 = 1 THEN "text" ELSE "stop", (i - 1) \div 2>>
<1>1. m \in Nat
  OBVIOUS
<1>2. ASSUME NEW i \in 1 .. m PROVE Event(i) \in Chunk
  <2>1. CASE i = m
    BY <2>1 DEF Chunk
  <2>2. CASE i # m
    <3>1. (i - 1) \div 2 \in Nat
      OBVIOUS
    <3>2. Event(i) = <<IF i % 2 = 1 THEN "text" ELSE "stop", (i - 1) \div 2>>
      BY <2>2
    <3>3. (IF i % 2 = 1 THEN "text" ELSE "stop") \in {"text", "stop"}
      OBVIOUS
    <3> HIDE DEF Event
    <3> QED
      BY <3>1, <3>2, <3>3 DEF Chunk
  <2> QED
    BY <2>1, <2>2
<1> HIDE DEF Event
<1>3. EventStream(n) = [i \in 1 .. m |-> Event(i)]
  BY DEF EventStream, Event
<1>4. EventStream(n) \in [1 .. m -> Chunk]
  BY <1>2, <1>3
<1>5. EventStream(n) \in Seq(Chunk)
  BY <1>1, <1>4, SeqDef
<1>6. Len(EventStream(n)) = m
  <2>1. Len(EventStream(n)) \in Nat /\ DOMAIN EventStream(n) = 1 .. Len(EventStream(n))
    BY <1>5, LenProperties
  <2>2. DOMAIN EventStream(n) = 1 .. m
    BY <1>4
  <2>3. 1 .. Len(EventStream(n)) = 1 .. m
    BY <2>1, <2>2
  <2> HIDE DEF m
  <2> QED
    BY <1>1, <2>1, <2>3, SameInterval
<1> QED
  BY <1>3, <1>5, <1>6 DEF Event

\* An outcome is a phase and a status code.
LEMMA ConcludeType ==
  ASSUME TypeInv, NEW r \in Request, NEW code \in {200, 422, 500, 501, 502},
         Conclude(r, code), UNCHANGED <<payload, inst, made, sent>>
  PROVE  TypeInv'
<1>1. /\ status' \in [Request -> {0, 200, 422, 500, 501, 502}]
      /\ loop' \in Request \union {Free}
  BY DEF TypeInv, Conclude
<1>2. phase' \in [Request -> InPool \union {"unsent", "sent", "streaming", "answered"}]
  <2>1. PICK next \in {"finished", "streaming", "answered"} : phase' = [phase EXCEPT ![r] = next]
    BY DEF Conclude
  <2> QED
    BY <2>1, Phases DEF TypeInv
<1> QED
  BY <1>1, <1>2 DEF TypeInv

\* Every variable keeps its type.
LEMMA TypeStep ==
  ASSUME TypeInv, CacheInv, NEW r \in Request, Send(r) \/ LoopStep(r) \/ HandlerStep(r)
  PROVE  TypeInv'
<1>1. CASE Send(r)
  BY <1>1 DEF Send, TypeInv, models
<1>2. ASSUME NEW next \in InPool \union {"answered"}, phase' = [phase EXCEPT ![r] = next],
             UNCHANGED <<payload, inst, made, sent, status>>, loop' \in {loop, r}
      PROVE  TypeInv'
  BY <1>2 DEF TypeInv
<1>3. CASE DispatchToPool(r) \/ DispatchStream(r) \/ Respond(r) \/ AskChunk(r)
  <2>1. PICK next \in {"probing", "checking", "answered", "yielding"} : phase' = [phase EXCEPT ![r] = next]
    BY <1>3 DEF DispatchToPool, DispatchStream, Respond, AskChunk
  <2>2. UNCHANGED <<payload, inst, made, sent, status>> /\ loop' \in {loop, r}
    BY <1>3 DEF DispatchToPool, DispatchStream, Respond, AskChunk, models
  <2>3. next \in InPool \union {"answered"}
    BY DEF InPool
  <2> QED
    BY <1>2, <2>1, <2>2, <2>3
<1>4. CASE SendChunk(r)
  <2>1. UNCHANGED <<payload, loop, inst, made, status>>
    BY <1>4 DEF SendChunk, models
  <2>2. phase' \in [Request -> InPool \union {"unsent", "sent", "streaming", "answered"}]
    <3>1. PICK next \in {"streaming", "answered"} : phase' = [phase EXCEPT ![r] = next]
      BY <1>4 DEF SendChunk
    <3> QED
      BY <3>1 DEF TypeInv
  <2>3. DOMAIN sent' = Request /\ \A q \in Request : sent'[q] \in Seq(Chunk)
    <3> DEFINE events == EventStream(made[r])
               next == Len(sent[r]) + 1
    <3>1. /\ sent[r] \in Seq(Chunk) /\ next \in Nat \ {0}
          /\ events \in Seq(Chunk) /\ Len(events) \in Nat
      BY EventStreamProperties, LenProperties DEF TypeInv
    <3>2. CASE next <= Len(events)
      <4>1. sent' = [sent EXCEPT ![r] = Append(@, events[next])]
        BY <1>4, <3>2 DEF SendChunk
      <4>2. events[next] \in Chunk
        BY <3>1, <3>2, ElementOfSeq
      <4> HIDE DEF events, next
      <4>3. Append(sent[r], events[next]) \in Seq(Chunk)
        BY <3>1, <4>2, AppendProperties
      <4> QED
        BY <4>1, <4>3 DEF TypeInv
    <3>3. CASE ~(next <= Len(events))
      BY <1>4, <3>3 DEF SendChunk, TypeInv
    <3> QED
      BY <3>2, <3>3
  <2> QED
    BY <2>1, <2>2, <2>3 DEF TypeInv
<1>5. CASE Healthz(r) \/ LoadFails(r) \/ GenerationRaises(r) \/ ReturnChoices(r)
  <2>1. PICK code \in {200, 500, 502} : Conclude(r, code)
    BY <1>5 DEF Healthz, LoadFails, GenerationRaises, ReturnChoices, Failure
  <2>2. UNCHANGED <<payload, inst, made, sent>>
    BY <1>5 DEF Healthz, LoadFails, GenerationRaises, ReturnChoices, models
  <2> QED
    BY <2>1, <2>2, ConcludeType
<1>6. CASE Check(r)
  <2>1. UNCHANGED <<payload, inst, made, sent>>
    BY <1>6 DEF Check, models
  <2>2. CASE Refusal(payload[r]) # 0
    <3>1. Conclude(r, Refusal(payload[r])) /\ Refusal(payload[r]) \in {422, 501}
      BY <1>6, <2>2 DEF Check, Refusal
    <3> QED
      BY <2>1, <3>1, ConcludeType
  <2>3. CASE Refusal(payload[r]) = 0
    BY <1>2, <1>6, <2>1, <2>3 DEF Check, InPool
  <2> QED
    BY <2>2, <2>3
<1>7. CASE NormalizePrompts(r)
  <2>1. UNCHANGED <<payload, inst, made, sent>>
    BY <1>7 DEF NormalizePrompts, models
  <2>2. CASE payload[r].prompt = "unusable"
    BY <1>7, <2>1, <2>2, ConcludeType DEF NormalizePrompts
  <2>3. CASE payload[r].prompt # "unusable"
    BY <1>2, <1>7, <2>1, <2>3 DEF NormalizePrompts, InPool
  <2> QED
    BY <2>2, <2>3
<1>8. CASE Hit(r)
  <2>1. PICK i \in DOMAIN cache : inst' = [inst EXCEPT ![r] = cache[i].number]
    BY <1>8 DEF Hit
  <2>2. cache[i] \in [model : Loadable, number : Nat \ {0}]
    <3>1. cache \in Seq([model : Loadable, number : Nat \ {0}])
      BY DEF CacheInv
    <3>2. i \in 1 .. Len(cache)
      BY <3>1, LenProperties
    <3> QED
      BY <3>1, <3>2, ElementOfSeq
  <2> QED
    BY <1>8, <2>1, <2>2 DEF Hit, TypeInv, InPool
<1>9. CASE Load(r)
  <2>1. payload[r].model \in Model
    BY <1>9, ServerAssumption DEF Load
  <2>2. loads[payload[r].model] + 1 \in Nat
    BY <2>1 DEF CacheInv
  <2> QED
    BY <1>9, <2>2 DEF Load, TypeInv, InPool
<1>10. CASE Miss(r) \/ GenerateChoice(r) \/ YieldChunk(r)
  <2>1. CASE Miss(r) \/ YieldChunk(r)
    BY <1>2, <2>1 DEF Miss, YieldChunk, InPool, models
  <2>2. CASE GenerateChoice(r)
    BY <2>2 DEF GenerateChoice, TypeInv, models
  <2> QED
    BY <1>10, <2>1, <2>2
<1> QED
  BY <1>1, <1>3, <1>4, <1>5, <1>6, <1>7, <1>8, <1>9, <1>10 DEF LoopStep, HandlerStep

Entries == [model : Loadable, number : Nat \ {0}]

\* A cache hit (functools.lru_cache): the same entries in another order.
LEMMA HitKeepsCache ==
  ASSUME CacheInv, NEW r \in Request, Hit(r)
  PROVE  CacheInv' /\ \A k \in DOMAIN cache' : \E j \in DOMAIN cache : cache'[k] = cache[j]
<1>1. cache \in Seq(Entries) /\ Len(cache) \in Nat /\ DOMAIN cache = 1 .. Len(cache)
  BY LenProperties DEF CacheInv, Entries
<1>2. PICK i \in 1 .. Len(cache) : cache' = Append(RemoveAt(cache, i), cache[i])
  BY <1>1 DEF Hit
<1> DEFINE f(k) == IF k = Len(cache) THEN i ELSE IF k < i THEN k ELSE k + 1
<1>3. /\ cache' \in Seq(Entries) /\ Len(cache') = Len(cache)
      /\ \A k \in 1 .. Len(cache) : cache'[k] = cache[f(k)]
  BY <1>1, <1>2, MovedToEnd
<1>4. DOMAIN cache' = DOMAIN cache
  BY <1>1, <1>3, LenProperties
<1>5. ASSUME NEW k \in 1 .. Len(cache), NEW l \in 1 .. Len(cache)
      PROVE  f(k) \in 1 .. Len(cache) /\ (f(k) = f(l) => k = l)
  <2>1. Len(cache) \in Nat /\ i \in Int /\ 1 <= i /\ i <= Len(cache)
    BY <1>1
  <2> DEFINE n == Len(cache)
  <2>2. n \in Nat /\ i \in 1 .. n /\ k \in 1 .. n /\ l \in 1 .. n
    BY <2>1
  <2>3. /\ f(k) = (IF k = n THEN i ELSE IF k < i THEN k ELSE k + 1)
        /\ f(l) = (IF l = n THEN i ELSE IF l < i THEN l ELSE l + 1)
    OBVIOUS
  <2> HIDE DEF f, n
  <2>4. f(k) \in 1 .. n /\ (f(k) = f(l) => k = l)
    BY <2>2, <2>3
  <2> QED
    BY <2>4 DEF n
<1> HIDE DEF f
<1>6. UNCHANGED loads
  BY DEF Hit
<1>7. CacheSound'
  <2>1. Len(cache') <= CacheSize
    BY <1>3 DEF CacheInv, CacheSound
  <2>2. \A k, l \in DOMAIN cache' : cache'[k].model = cache'[l].model => k = l
    <3> SUFFICES ASSUME NEW k \in DOMAIN cache', NEW l \in DOMAIN cache', cache'[k].model = cache'[l].model
                 PROVE  k = l
      OBVIOUS
    <3>1. k \in 1 .. Len(cache) /\ l \in 1 .. Len(cache)
      BY <1>1, <1>4
    <3>2. f(k) \in DOMAIN cache /\ f(l) \in DOMAIN cache
      BY <1>1, <1>5, <3>1
    <3>3. cache[f(k)].model = cache[f(l)].model
      BY <1>3, <3>1
    <3>4. f(k) = f(l)
      BY <3>2, <3>3 DEF CacheInv, CacheSound
    <3> QED
      BY <1>5, <3>1, <3>4
  <2>3. \A k \in DOMAIN cache' :
          cache'[k].model \in Loadable /\ cache'[k].number \in 1 .. loads'[cache'[k].model]
    BY <1>1, <1>3, <1>4, <1>5, <1>6 DEF CacheInv, CacheSound
  <2> QED
    BY <2>1, <2>2, <2>3 DEF CacheSound
<1>8. CacheInv'
  BY <1>3, <1>6, <1>7 DEF CacheInv, Entries
<1> QED
  BY <1>1, <1>3, <1>4, <1>5, <1>8

\* A model is constructed while others may be: its entry comes in only where there is
\* none of it, and the oldest goes if the cache is full.
LEMMA LoadKeepsCache ==
  ASSUME CacheInv, NEW r \in Request, Load(r)
  PROVE  /\ CacheInv'
         /\ \A k \in DOMAIN cache' :
              ~Cached(cache'[k].model) \/ \E j \in DOMAIN cache : cache'[k] = cache[j]
<1> DEFINE m == payload[r].model
           e == [model |-> m, number |-> loads[m] + 1]
<1>1. cache \in Seq(Entries) /\ Len(cache) \in Nat /\ DOMAIN cache = 1 .. Len(cache) /\ Len(cache) <= CacheSize
  BY LenProperties DEF CacheInv, CacheSound, Entries
<1>2. m \in Loadable /\ m \in Model /\ loads[m] \in Nat
  BY ServerAssumption DEF Load, CacheInv
<1>3. /\ loads' = [loads EXCEPT ![m] = @ + 1] /\ cache' = Inserted(cache, e)
  BY DEF Load
<1>4. /\ loads' \in [Model -> Nat] /\ loads'[m] = loads[m] + 1
      /\ \A x \in Model : loads[x] \in Nat /\ loads[x] <= loads'[x]
  BY <1>2, <1>3 DEF CacheInv
<1>5. e \in Entries /\ e.model = m /\ e.number = loads[m] + 1
  BY <1>2 DEF Entries
<1> HIDE DEF e, m
<1>6. CASE Cached(m)
  <2>1. cache' = cache
    BY <1>3, <1>5, <1>6 DEF Inserted, Cached
  <2>2. \A k \in DOMAIN cache : cache[k].model \in Model /\ cache[k].number \in 1 .. loads'[cache[k].model]
    BY <1>4, ServerAssumption DEF CacheInv, CacheSound
  <2> QED
    BY <1>4, <2>1, <2>2 DEF CacheInv, CacheSound
<1>7. CASE ~Cached(m)
  <2>1. cache' = PushedTo(cache, e, CacheSize)
    BY <1>3, <1>5, <1>7 DEF Inserted, Cached, PushedTo
  <2>2. /\ cache' \in Seq(Entries) /\ Len(cache') \in 1 .. CacheSize
        /\ cache'[Len(cache')] = e
        /\ \E d \in {0, 1} : \A k \in 1 .. Len(cache') - 1 :
             k + d \in 1 .. Len(cache) /\ cache'[k] = cache[k + d]
    <3>1. CacheSize \in Nat \ {0}
      BY ServerAssumption
    <3> QED
      BY <1>1, <1>5, <2>1, <3>1, Pushed
  <2>3. PICK d \in {0, 1} : \A k \in 1 .. Len(cache') - 1 :
          k + d \in 1 .. Len(cache) /\ cache'[k] = cache[k + d]
    BY <2>2
  <2>4. DOMAIN cache' = 1 .. Len(cache') /\ Len(cache') \in Nat
    BY <2>2, LenProperties
  <2>5. \A k \in DOMAIN cache' :
          (k = Len(cache') /\ cache'[k] = e) \/ (k \in 1 .. Len(cache') - 1 /\ cache'[k] = cache[k + d])
    BY <2>2, <2>3, <2>4
  <2>6. \A k \in 1 .. Len(cache') - 1 :
          /\ k + d \in DOMAIN cache /\ cache[k + d].model # m
          /\ cache[k + d].model \in Loadable /\ cache[k + d].model \in Model
          /\ cache[k + d].number \in 1 .. loads'[cache[k + d].model]
    <3> SUFFICES ASSUME NEW k \in 1 .. Len(cache') - 1
                 PROVE  /\ k + d \in DOMAIN cache /\ cache[k + d].model # m
                        /\ cache[k + d].model \in Loadable /\ cache[k + d].model \in Model
                        /\ cache[k + d].number \in 1 .. loads'[cache[k + d].model]
      OBVIOUS
    <3>1. k + d \in DOMAIN cache
      BY <1>1, <2>3
    <3> DEFINE x == cache[k + d]
    <3>2. x.model \in Loadable /\ x.number \in 1 .. loads[x.model]
      BY <3>1 DEF CacheInv, CacheSound
    <3>3. x.model # m
      BY <1>7, <3>1 DEF Cached
    <3>4. x.model \in Model
      BY <3>2, ServerAssumption
    <3> HIDE DEF x
    <3>5. x.number \in 1 .. loads'[x.model]
      <4>1. loads[x.model] \in Nat /\ loads'[x.model] \in Nat /\ loads[x.model] <= loads'[x.model]
        BY <1>4, <3>4
      <4> QED
        BY <3>2, <4>1
    <3> QED
      BY <3>1, <3>2, <3>3, <3>4, <3>5 DEF x
  <2>7. ASSUME NEW k \in DOMAIN cache', NEW l \in DOMAIN cache', cache'[k].model = cache'[l].model
        PROVE  k = l
    <3>1. CASE k = Len(cache')
      BY <1>5, <2>2, <2>5, <2>6, <2>7, <3>1
    <3>2. CASE l = Len(cache')
      BY <1>5, <2>2, <2>5, <2>6, <2>7, <3>2
    <3>3. CASE k \in 1 .. Len(cache') - 1 /\ l \in 1 .. Len(cache') - 1
      <4>1. k + d \in DOMAIN cache /\ l + d \in DOMAIN cache /\ cache[k + d].model = cache[l + d].model
        BY <2>3, <2>6, <2>7, <3>3
      <4>2. k + d = l + d
        BY <4>1 DEF CacheInv, CacheSound
      <4> QED
        BY <3>3, <4>2
    <3> QED
      BY <2>5, <3>1, <3>2, <3>3
  <2>8. \A k \in DOMAIN cache' :
          cache'[k].model \in Loadable /\ cache'[k].number \in 1 .. loads'[cache'[k].model]
    BY <1>2, <1>4, <1>5, <2>5, <2>6
  <2>9. Len(cache') <= CacheSize
    BY <2>2, ServerAssumption
  <2>10. CacheInv'
    BY <1>4, <2>2, <2>7, <2>8, <2>9 DEF CacheInv, CacheSound, Entries
  <2>11. \A k \in DOMAIN cache' :
           ~Cached(cache'[k].model) \/ \E j \in DOMAIN cache : cache'[k] = cache[j]
    BY <1>5, <1>7, <2>5, <2>6
  <2> QED
    BY <2>10, <2>11
<1> QED
  BY <1>6, <1>7

\* The other steps leave the cache alone.
LEMMA CacheUntouched ==
  ASSUME NEW r \in Request, Send(r) \/ LoopStep(r) \/ HandlerStep(r), ~Hit(r), ~Load(r)
  PROVE  UNCHANGED <<cache, loads, inst>>
BY DEF Send, LoopStep, DispatchToPool, DispatchStream, Respond, AskChunk, SendChunk, HandlerStep, Healthz,
       Check, Miss, LoadFails, NormalizePrompts, GenerateChoice, GenerationRaises, ReturnChoices, YieldChunk,
       models

LEMMA CacheStep ==
  ASSUME CacheInv, NEW r \in Request, Send(r) \/ LoopStep(r) \/ HandlerStep(r)
  PROVE  CacheInv'
<1>1. CASE Hit(r)
  BY <1>1, HitKeepsCache
<1>2. CASE Load(r)
  BY <1>2, LoadKeepsCache
<1>3. CASE ~Hit(r) /\ ~Load(r)
  BY <1>3, CacheUntouched DEF CacheInv, CacheSound
<1> QED
  BY <1>1, <1>2, <1>3

\* There is one entry a model.
LEMMA EntryIsUnique ==
  ASSUME CacheInv, NEW j \in DOMAIN cache
  PROVE  Entry(cache[j].model) = cache[j]
BY DEF Entry, CacheInv, CacheSound

\* A step that shows a cached model again shows the same instance of it.
LEMMA StableStep ==
  ASSUME CacheInv, NEW r \in Request, Send(r) \/ LoopStep(r) \/ HandlerStep(r),
         NEW m \in Model, Cached(m), Cached(m)'
  PROVE  Entry(m)' = Entry(m)
<1>1. \A k \in DOMAIN cache' :
        ~Cached(cache'[k].model) \/ \E j \in DOMAIN cache : cache'[k] = cache[j]
  <2>1. CASE Hit(r)
    BY <2>1, HitKeepsCache
  <2>2. CASE Load(r)
    BY <2>2, LoadKeepsCache
  <2>3. CASE ~Hit(r) /\ ~Load(r)
    BY <2>3, CacheUntouched
  <2> QED
    BY <2>1, <2>2, <2>3
<1>2. PICK k \in DOMAIN cache' : cache'[k].model = m
  BY DEF Cached
<1>3. PICK j \in DOMAIN cache : cache'[k] = cache[j]
  BY <1>1, <1>2
<1>4. Entry(m) = cache[j]
  BY <1>2, <1>3, EntryIsUnique
<1>5. Entry(m)' = cache'[k]
  <2>1. \A l \in DOMAIN cache' : cache'[l].model = m => cache'[l] = cache'[k]
    BY <1>2, CacheStep DEF CacheInv, CacheSound
  <2> QED
    BY <1>2, <2>1 DEF Entry
<1> QED
  BY <1>3, <1>4, <1>5

-----------------------------------------------------------------------------
(* The requests.                                                           *)

\* What a step leaves alone stays as it was found.
LEMMA RequestUntouched ==
  ASSUME NEW q \in Request, StateInv(q), SentInv(q), payload' = payload,
         phase'[q] = phase[q], inst'[q] = inst[q], made'[q] = made[q],
         sent'[q] = sent[q], status'[q] = status[q]
  PROVE  StateInv(q)' /\ SentInv(q)'
<1>1. StateInv(q)'
  BY DEF StateInv, Explained
<1>2. SentInv(q)'
  <2>1. EventStream(made[q])' = EventStream(made[q])
    BY DEF EventStream
  <2>2. Streams(q)' <=> Streams(q)
    BY DEF Streams
  <2> QED
    BY <2>1, <2>2 DEF SentInv
<1> QED
  BY <1>1, <1>2

\* A step is about one request.
LEMMA OneRequest ==
  ASSUME TypeInv, NEW r \in Request, Send(r) \/ LoopStep(r) \/ HandlerStep(r), NEW q \in Request \ {r}
  PROVE  /\ payload' = payload /\ phase'[q] = phase[q] /\ inst'[q] = inst[q]
         /\ made'[q] = made[q] /\ sent'[q] = sent[q] /\ status'[q] = status[q]
<1>1. ASSUME NEW code, Conclude(r, code)
      PROVE  phase'[q] = phase[q] /\ status'[q] = status[q]
  BY <1>1 DEF Conclude, TypeInv
<1>2. CASE Send(r) \/ LoopStep(r)
  BY <1>2 DEF Send, LoopStep, DispatchToPool, DispatchStream, Respond, AskChunk, SendChunk, TypeInv, models
<1>3. CASE Healthz(r) \/ LoadFails(r) \/ GenerationRaises(r) \/ ReturnChoices(r)
  BY <1>1, <1>3 DEF Healthz, LoadFails, GenerationRaises, ReturnChoices, models
<1>4. CASE Check(r) \/ NormalizePrompts(r)
  BY <1>1, <1>4 DEF Check, NormalizePrompts, TypeInv, models
<1>5. CASE Hit(r) \/ Load(r) \/ Miss(r) \/ GenerateChoice(r) \/ YieldChunk(r)
  BY <1>5 DEF Hit, Load, Miss, GenerateChoice, YieldChunk, TypeInv, models
<1> QED
  BY <1>2, <1>3, <1>4, <1>5 DEF HandlerStep

\* As long as nothing is sent, only a streamed success would miss its chunks.
LEMMA NothingSent ==
  ASSUME TypeInv', NEW r \in Request, sent'[r] = << >>,
         ~(phase'[r] = "answered" /\ status'[r] = 200 /\ Streams(r)')
  PROVE  SentInv(r)'
<1>1. Len(sent'[r]) = 0 /\ made'[r] \in Nat
  BY EmptySeq DEF TypeInv
<1> QED
  BY <1>1 DEF SentInv, Streams

\* Before its outcome a request has sent nothing.
LEMMA QuietBefore ==
  ASSUME TypeInv, NEW r \in Request, StateInv(r), phase[r] \notin Streaming \union {"answered"}
  PROVE  sent[r] = << >>
BY DEF StateInv

\* A handler's outcome, given what explains it.
LEMMA ConcludeExplains ==
  ASSUME TypeInv, TypeInv', LoopInv, NEW r \in Request, StateInv(r),
         phase[r] \in Handling \union {"probing"},
         NEW code \in {200, 422, 500, 501, 502}, Conclude(r, code), Explained(r, code),
         UNCHANGED <<payload, inst, made, sent>>
  PROVE  StateInv(r)' /\ SentInv(r)'
<1>1. sent[r] = << >> /\ sent'[r] = << >>
  BY Phases, QuietBefore
<1>2. status'[r] = code
  BY DEF Conclude, TypeInv
<1>3. \/ phase'[r] = "finished" /\ loop # r
      \/ phase'[r] = "streaming" /\ loop = r /\ code = 200
      \/ phase'[r] = "answered" /\ loop = r /\ code # 200
  BY DEF Conclude, TypeInv
<1>4. Explained(r, status[r])'
  BY <1>2 DEF Explained
<1>5. StateInv(r)'
  BY <1>1, <1>2, <1>3, <1>4 DEF StateInv, Handling, Streaming
<1>6. SentInv(r)'
  BY <1>1, <1>2, <1>3, NothingSent
<1> QED
  BY <1>5, <1>6

\* What Refusal lets pass, and how it explains what it does not.
LEMMA RefusalExplains ==
  ASSUME NEW p \in Payload
  PROVE  /\ Refusal(p) \in {0, 422, 501}
         /\ Refusal(p) = 422 => p.model = Blank \/ p.prompt = "unusable"
         /\ Refusal(p) = 501 => p.route = "responses"
BY DEF Refusal, Payload

\* The steps of a handler that do not end it.
LEMMA HandlerGoesOnExplained ==
  ASSUME TypeInv, TypeInv', NEW r \in Request, StateInv(r), NEW next,
         phase[r] \in Handling, phase'[r] = next, next \in Handling,
         UNCHANGED <<payload, sent, status>>,
         /\ next \in {"lookup", "loading"} => inst'[r] = 0 /\ made'[r] = 0
         /\ next # "checking" /\ Refusal(payload[r]) = 0
         /\ next \in {"loaded", "generating"} => payload[r].model \in Loadable /\ inst'[r] # 0
         /\ next = "loaded" => made'[r] = 0
         /\ next = "generating" => payload[r].prompt # "unusable" /\ made'[r] <= payload[r].count
  PROVE  StateInv(r)' /\ SentInv(r)'
<1>1. sent[r] = << >> /\ sent'[r] = << >>
  BY Phases, QuietBefore
<1>2. StateInv(r)'
  BY <1>1 DEF StateInv, Handling, Streaming, Concluded
<1>3. SentInv(r)'
  BY <1>1, NothingSent DEF Handling
<1> QED
  BY <1>2, <1>3

\* Outside the handlers, and before anything is sent, only the phase counts.
LEMMA SendExplained ==
  ASSUME TypeInv, TypeInv', NEW r \in Request, StateInv(r), Send(r)
  PROVE  StateInv(r)' /\ SentInv(r)'
<1>1. /\ phase[r] = "unsent" /\ phase'[r] = "sent"
      /\ UNCHANGED <<payload, inst, made, sent, status>>
  BY DEF Send, TypeInv, models
<1>2. sent[r] = << >> /\ sent'[r] = << >>
  BY <1>1, Phases, QuietBefore
<1>3. StateInv(r)'
  BY <1>1, <1>2 DEF StateInv, Handling, Streaming, Concluded
<1>4. SentInv(r)'
  BY <1>1, <1>2, NothingSent
<1> QED
  BY <1>3, <1>4

\* A request reaches its handler (server.py:379-397): healthz, which does not
\* stream, or one that asks for a model.
LEMMA DispatchExplained ==
  ASSUME TypeInv, TypeInv', NEW r \in Request, StateInv(r), DispatchToPool(r) \/ DispatchStream(r)
  PROVE  StateInv(r)' /\ SentInv(r)'
<1>1. /\ phase[r] = "sent" /\ UNCHANGED <<payload, inst, made, sent, status>>
      /\ \/ phase'[r] = "probing" /\ payload[r].route = "healthz"
         \/ phase'[r] = "checking" /\ payload[r].route # "healthz"
  BY DEF DispatchToPool, DispatchStream, Streams, TypeInv, models
<1>2. sent[r] = << >> /\ sent'[r] = << >>
  BY <1>1, Phases, QuietBefore
<1>3. StateInv(r)'
  BY <1>1, <1>2 DEF StateInv, Handling, Streaming, Concluded
<1>4. SentInv(r)'
  BY <1>1, <1>2, NothingSent
<1> QED
  BY <1>3, <1>4

\* What a worker is through with is answered; it was no streamed completion.
LEMMA RespondExplained ==
  ASSUME TypeInv, TypeInv', LoopInv, NEW r \in Request, StateInv(r), Respond(r)
  PROVE  StateInv(r)' /\ SentInv(r)'
<1>1. /\ phase[r] = "finished" /\ phase'[r] = "answered" /\ loop = Free
      /\ UNCHANGED <<payload, inst, made, sent, status>>
  BY DEF Respond, TypeInv, models
<1>2. sent[r] = << >> /\ sent'[r] = << >>
  BY <1>1, Phases, QuietBefore
<1>3. ~Streams(r)
  BY <1>1, ServerAssumption DEF LoopInv
<1>4. StateInv(r)'
  BY <1>1, <1>2 DEF StateInv, Explained, Handling, Streaming, Concluded
<1>5. SentInv(r)'
  BY <1>1, <1>2, <1>3, NothingSent DEF Streams
<1> QED
  BY <1>4, <1>5

\* A stream waits for its next chunk, or gets it from a worker.
LEMMA ChunkExplained ==
  ASSUME NEW r \in Request, TypeInv, StateInv(r), SentInv(r), AskChunk(r) \/ YieldChunk(r)
  PROVE  StateInv(r)' /\ SentInv(r)'
<1>1. /\ phase[r] \in Streaming /\ phase'[r] \in Streaming
      /\ UNCHANGED <<payload, inst, made, sent, status>>
  BY DEF AskChunk, YieldChunk, Streaming, TypeInv, models
<1>2. StateInv(r)'
  BY <1>1 DEF StateInv, Explained, Handling, Streaming, Concluded
<1>3. EventStream(made[r])' = EventStream(made[r])
  BY <1>1 DEF EventStream
<1>4. SentInv(r)'
  BY <1>1, <1>3 DEF SentInv, Streams, Streaming
<1> QED
  BY <1>2, <1>4

\* A chunk is sent, the next of the event stream, or the stream is through
\* (server.py:310-352).
LEMMA SendChunkExplained ==
  ASSUME NEW r \in Request, TypeInv, LoopInv, StateInv(r), SentInv(r), SendChunk(r)
  PROVE  StateInv(r)' /\ SentInv(r)'
<1> DEFINE n == made[r]
           events == EventStream(n)
           next == Len(sent[r]) + 1
<1>1. /\ phase[r] = "yielded" /\ UNCHANGED <<payload, inst, made, status>>
      /\ phase'[r] \in {"streaming", "answered"} /\ status[r] = 200 /\ Streams(r)
  BY DEF SendChunk, TypeInv, models, StateInv, LoopInv, Streaming
<1>2. /\ n \in Nat /\ Len(events) = 2 * n + 1 /\ events \in Seq(Chunk)
      /\ sent[r] \in Seq(Chunk) /\ Len(sent[r]) \in Nat
  BY EventStreamProperties, LenProperties DEF TypeInv
<1>3. events' = events
  BY <1>1 DEF EventStream
<1>4. StateInv(r)'
  BY <1>1 DEF StateInv, Explained, Handling, Streaming, Concluded
<1>5. CASE next <= Len(events)
  <2>1. sent' = [sent EXCEPT ![r] = Append(@, events[next])] /\ phase'[r] = "streaming"
    BY <1>5 DEF SendChunk, TypeInv
  <2>2. next \in 1 .. Len(events)
    BY <1>2, <1>5
  <2>3. events[next] \in Chunk
    BY <1>2, <2>2, ElementOfSeq
  <2>4. sent'[r] = Append(sent[r], events[next])
    BY <2>1 DEF TypeInv
  <2>5. /\ Len(sent'[r]) = Len(sent[r]) + 1 /\ sent'[r][Len(sent[r]) + 1] = events[next]
        /\ \A i \in 1 .. Len(sent[r]) : sent'[r][i] = sent[r][i]
    BY <1>2, <2>3, <2>4, AppendProperties
  <2> HIDE DEF events
  <2>6. \A i \in 1 .. Len(sent'[r]) : sent'[r][i] = events[i]
    <3>1. \A i \in 1 .. Len(sent[r]) : sent[r][i] = events[i]
      BY DEF SentInv, events
    <3> SUFFICES ASSUME NEW i \in 1 .. Len(sent'[r]) PROVE sent'[r][i] = events[i]
      OBVIOUS
    <3>2. i \in 1 .. Len(sent[r]) \/ i = Len(sent[r]) + 1
      BY <1>2, <2>5
    <3> QED
      BY <2>5, <3>1, <3>2
  <2>7. Len(sent'[r]) <= 2 * made'[r] + 1
    BY <1>1, <1>2, <1>5, <2>5
  <2> QED
    BY <1>1, <1>3, <1>4, <2>1, <2>6, <2>7 DEF SentInv, Streams, Streaming, events
<1>6. CASE ~(next <= Len(events))
  <2>1. sent' = sent /\ phase'[r] = "answered"
    BY <1>6 DEF SendChunk, TypeInv
  <2>2. Len(sent[r]) = 2 * n + 1
    BY <1>2, <1>6 DEF SentInv
  <2> QED
    BY <1>1, <1>3, <1>4, <2>1, <2>2 DEF SentInv, Streams, Streaming
<1> QED
  BY <1>5, <1>6

\* The handlers (server.py:178-203, 265-291, 310-337), outcome by outcome.
LEMMA HandlerExplained ==
  ASSUME TypeInv, TypeInv', LoopInv, CacheInv, NEW r \in Request, StateInv(r), SentInv(r), HandlerStep(r)
  PROVE  StateInv(r)' /\ SentInv(r)'
<1> DEFINE p == payload[r]
<1>1. p \in Payload /\ made[r] \in Nat /\ inst[r] \in Nat
  BY DEF TypeInv
<1>2. p.count \in Nat /\ p.model \in Model \union {Blank}
  BY <1>1 DEF Payload
<1>3. CASE Healthz(r)
  <2>1. phase[r] = "probing" /\ Conclude(r, 200) /\ UNCHANGED <<payload, inst, made, sent>>
    BY <1>3 DEF Healthz, models
  <2>2. Explained(r, 200)
    BY <2>1 DEF StateInv, Explained
  <2> QED
    BY <2>1, <2>2, ConcludeExplains
<1>4. CASE Check(r)
  <2>1. phase[r] = "checking" /\ UNCHANGED <<payload, inst, made, sent>>
    BY <1>4 DEF Check, models
  <2>2. phase[r] \in Handling /\ inst[r] = 0 /\ made[r] = 0 /\ p.route # "healthz"
    BY <2>1, Phases DEF StateInv
  <2>3. CASE Refusal(p) # 0
    <3>1. Conclude(r, Refusal(p)) /\ Refusal(p) \in {422, 501}
      BY <1>1, <1>4, <2>3, RefusalExplains DEF Check
    <3>2. Explained(r, Refusal(p))
      BY <1>1, <2>2, <3>1, RefusalExplains DEF Explained
    <3> QED
      BY <2>1, <2>2, <3>1, <3>2, ConcludeExplains
  <2>4. CASE Refusal(p) = 0
    <3>1. phase'[r] = "lookup" /\ UNCHANGED status
      BY <1>4, <2>4 DEF Check, TypeInv
    <3> QED
      BY <2>1, <2>2, <2>4, <3>1, Phases, HandlerGoesOnExplained
  <2> QED
    BY <2>3, <2>4
<1>5. CASE Hit(r)
  <2>1. /\ phase[r] = "lookup" /\ phase'[r] = "loaded" /\ UNCHANGED <<payload, made, sent, status>>
    BY <1>5 DEF Hit, TypeInv
  <2>2. phase[r] \in Handling /\ made[r] = 0 /\ Refusal(p) = 0
    BY <2>1, Phases DEF StateInv
  <2>3. PICK i \in DOMAIN cache : cache[i].model = p.model /\ inst' = [inst EXCEPT ![r] = cache[i].number]
    BY <1>5 DEF Hit
  <2>4. cache[i].model \in Loadable /\ cache[i].number # 0
    <3>1. cache[i].model \in Loadable /\ cache[i].number \in 1 .. loads[cache[i].model]
      BY DEF CacheInv, CacheSound
    <3> QED
      BY <3>1
  <2>5. p.model \in Loadable /\ inst'[r] # 0
    BY <2>3, <2>4 DEF TypeInv
  <2> QED
    BY <2>1, <2>2, <2>5, Phases, HandlerGoesOnExplained
<1>6. CASE Miss(r)
  <2>1. /\ phase[r] = "lookup" /\ phase'[r] = "loading" /\ UNCHANGED <<payload, inst, made, sent, status>>
    BY <1>6 DEF Miss, TypeInv, models
  <2>2. phase[r] \in Handling /\ inst[r] = 0 /\ made[r] = 0 /\ Refusal(p) = 0
    BY <2>1, Phases DEF StateInv
  <2> QED
    BY <2>1, <2>2, Phases, HandlerGoesOnExplained
<1>7. CASE Load(r)
  <2>1. /\ phase[r] = "loading" /\ phase'[r] = "loaded" /\ UNCHANGED <<payload, made, sent, status>>
        /\ p.model \in Loadable /\ inst' = [inst EXCEPT ![r] = loads[p.model] + 1]
    BY <1>7 DEF Load, TypeInv
  <2>2. phase[r] \in Handling /\ made[r] = 0 /\ Refusal(p) = 0
    BY <2>1, Phases DEF StateInv
  <2>3. loads[p.model] \in Nat
    BY <2>1, ServerAssumption DEF CacheInv
  <2>4. inst'[r] # 0
    BY <2>1, <2>3 DEF TypeInv
  <2> QED
    BY <2>1, <2>2, <2>4, Phases, HandlerGoesOnExplained
<1>8. CASE LoadFails(r)
  <2>1. /\ phase[r] = "loading" /\ Conclude(r, 502) /\ p.model \notin Loadable
        /\ UNCHANGED <<payload, inst, made, sent>>
    BY <1>8 DEF LoadFails, models
  <2>2. phase[r] \in Handling /\ Refusal(p) = 0 /\ p.route # "healthz"
    BY <2>1, Phases DEF StateInv
  <2>3. p.model # Blank
    BY <2>2 DEF Refusal
  <2>4. Explained(r, 502)
    BY <1>2, <2>1, <2>2, <2>3 DEF Explained
  <2> QED
    BY <2>1, <2>2, <2>4, ConcludeExplains
<1>9. CASE NormalizePrompts(r)
  <2>1. phase[r] = "loaded" /\ UNCHANGED <<payload, inst, made, sent>>
    BY <1>9 DEF NormalizePrompts, models
  <2>2. /\ phase[r] \in Handling /\ Refusal(p) = 0 /\ p.route # "healthz" /\ made[r] = 0
        /\ p.model \in Loadable /\ inst[r] # 0
    BY <2>1, Phases DEF StateInv
  <2>3. CASE p.prompt = "unusable"
    <3>1. Conclude(r, 422)
      BY <1>9, <2>3 DEF NormalizePrompts
    <3>2. Explained(r, 422)
      BY <2>2, <2>3 DEF Explained
    <3> QED
      BY <2>1, <2>2, <3>1, <3>2, ConcludeExplains
  <2>4. CASE p.prompt # "unusable"
    <3>1. phase'[r] = "generating" /\ UNCHANGED status
      BY <1>9, <2>4 DEF NormalizePrompts, TypeInv
    <3>2. made'[r] <= p.count
      BY <1>2, <2>1, <2>2
    <3> QED
      BY <2>1, <2>2, <2>4, <3>1, <3>2, Phases, HandlerGoesOnExplained
  <2> QED
    BY <2>3, <2>4
<1>10. CASE GenerateChoice(r)
  <2>1. /\ phase[r] = "generating" /\ phase'[r] = "generating" /\ made[r] < p.count
        /\ made' = [made EXCEPT ![r] = @ + 1] /\ UNCHANGED <<payload, inst, sent, status>>
    BY <1>10 DEF GenerateChoice, models
  <2>2. /\ phase[r] \in Handling /\ Refusal(p) = 0 /\ p.prompt # "unusable"
        /\ p.model \in Loadable /\ inst[r] # 0
    BY <2>1, Phases DEF StateInv
  <2>3. made'[r] <= p.count
    BY <1>1, <1>2, <2>1 DEF TypeInv
  <2> QED
    BY <2>1, <2>2, <2>3, Phases, HandlerGoesOnExplained
<1>11. CASE GenerationRaises(r)
  <2>1. /\ phase[r] = "generating" /\ made[r] < p.count /\ Conclude(r, 500)
        /\ UNCHANGED <<payload, inst, made, sent>>
    BY <1>11 DEF GenerationRaises, Failure, models
  <2>2. phase[r] \in Handling /\ p.route # "healthz" /\ inst[r] # 0
    BY <2>1, Phases DEF StateInv
  <2>3. Explained(r, 500)
    BY <2>1, <2>2 DEF Explained
  <2> QED
    BY <2>1, <2>2, <2>3, ConcludeExplains
<1>12. CASE ReturnChoices(r)
  <2>1. /\ phase[r] = "generating" /\ made[r] = p.count /\ Conclude(r, 200)
        /\ UNCHANGED <<payload, inst, made, sent>>
    BY <1>12 DEF ReturnChoices, models
  <2>2. phase[r] \in Handling /\ p.route # "healthz" /\ inst[r] # 0 /\ p.model \in Loadable
    BY <2>1, Phases DEF StateInv
  <2>3. Explained(r, 200)
    BY <2>1, <2>2 DEF Explained
  <2> QED
    BY <2>1, <2>2, <2>3, ConcludeExplains
<1>13. CASE YieldChunk(r)
  BY <1>13, ChunkExplained
<1> QED
  BY <1>3, <1>4, <1>5, <1>6, <1>7, <1>8, <1>9, <1>10, <1>11, <1>12, <1>13 DEF HandlerStep

LEMMA RequestStep ==
  ASSUME TypeInv, LoopInv, CacheInv, RequestInv, NEW r \in Request,
         Send(r) \/ LoopStep(r) \/ HandlerStep(r)
  PROVE  RequestInv'
<1>1. TypeInv'
  BY TypeStep
<1>2. StateInv(r) /\ SentInv(r)
  BY DEF RequestInv
<1>3. StateInv(r)' /\ SentInv(r)'
  <2>1. CASE Send(r)
    BY <1>1, <1>2, <2>1, SendExplained
  <2>2. CASE LoopStep(r)
    BY <1>1, <1>2, <2>2, DispatchExplained, RespondExplained, ChunkExplained, SendChunkExplained DEF LoopStep
  <2>3. CASE HandlerStep(r)
    BY <1>1, <1>2, <2>3, HandlerExplained
  <2> QED
    BY <2>1, <2>2, <2>3
<1>4. ASSUME NEW q \in Request \ {r} PROVE StateInv(q)' /\ SentInv(q)'
  BY OneRequest, RequestUntouched DEF RequestInv
<1> QED
  BY <1>3, <1>4 DEF RequestInv

-----------------------------------------------------------------------------
(* The theorems.                                                           *)

LEMMA InitInv ==
  ASSUME Init
  PROVE  IInv
<1>1. \A r \in Request : phase[r] = "unsent" /\ inst[r] = 0 /\ made[r] = 0 /\ sent[r] = << >> /\ status[r] = 0
  BY DEF Init
<1>2. payload \in [Request -> Payload]
  BY WorkloadAssumption DEF Init
<1>3. << >> \in Seq(Chunk) /\ << >> \in Seq(Request) /\ Len(<< >>) = 0 /\ DOMAIN << >> = {}
  BY EmptySeq
<1>4. TypeInv
  BY <1>2, <1>3 DEF Init, TypeInv
<1>5. PoolInv
  <2>1. Cardinality(working) = 0
    BY FS_EmptySet DEF Init
  <2>2. /\ waiters = << >> /\ working = {} /\ loop = Free
        /\ Distinct(waiters) /\ Members(waiters) = {}
    BY <1>3 DEF Init, Distinct, Members
  <2> QED
    BY <1>1, <1>3, <2>1, <2>2, Phases, ServerAssumption DEF PoolInv
<1>6. LoopInv
  BY <1>1, Phases, ServerAssumption DEF Init, LoopInv
<1>7. CacheInv
  <2>1. cache = << >> /\ loads \in [Model -> Nat] /\ DOMAIN cache = {} /\ Len(cache) = 0
    BY <1>3 DEF Init
  <2>2. CacheSound
    BY <2>1, ServerAssumption DEF CacheSound
  <2>3. cache \in Seq([model : Loadable, number : Nat \ {0}])
    BY <2>1, EmptySeq
  <2> QED
    BY <2>1, <2>2, <2>3 DEF CacheInv
<1>8. RequestInv
  <2> SUFFICES ASSUME NEW r \in Request PROVE StateInv(r) /\ SentInv(r)
    BY DEF RequestInv
  <2>1. StateInv(r)
    BY <1>1 DEF StateInv, Handling, Streaming, Concluded
  <2>2. Len(sent[r]) = 0
    BY <1>1, <1>3
  <2>3. SentInv(r)
    BY <1>1, <2>2 DEF SentInv
  <2> QED
    BY <2>1, <2>3
<1> QED
  BY <1>4, <1>5, <1>6, <1>7, <1>8 DEF IInv

LEMMA StepInv ==
  ASSUME IInv, [Next]_vars
  PROVE  IInv'
<1>1. CASE Next
  <2>1. PICK r \in Request : Send(r) \/ LoopStep(r) \/ HandlerStep(r)
    BY <1>1 DEF Next
  <2>2. PoolInv' /\ LoopInv'
    <3>1. CASE Send(r)
      <4>1. /\ phase' = [phase EXCEPT ![r] = "sent"] /\ phase[r] = "unsent"
            /\ UNCHANGED <<payload, loop, pool>>
        BY <3>1 DEF Send
      <4>2. loop # r
        BY <4>1, Phases DEF IInv, LoopInv
      <4> QED
        BY <4>1, <4>2, Phases, HandlerGoesOn DEF IInv
    <3>2. CASE LoopStep(r)
      BY <3>2, LoopStepKeepsPool DEF IInv
    <3>3. CASE HandlerStep(r)
      BY <3>3, HandlerStepKeepsPool DEF IInv
    <3> QED
      BY <2>1, <3>1, <3>2, <3>3
  <2> QED
    BY <2>1, <2>2, TypeStep, CacheStep, RequestStep DEF IInv
<1>2. CASE UNCHANGED vars
  <2>1. UNCHANGED <<phase, payload, loop, working, waiters, cache, loads, inst, made, sent, status>>
    BY <1>2 DEF vars, pool, models
  <2>2. TypeInv' /\ LoopInv'
    BY <2>1 DEF IInv, TypeInv, LoopInv, Streams
  <2>3. PoolInv'
    BY <2>1 DEF IInv, PoolInv, Distinct, Members
  <2>4. CacheInv'
    BY <2>1 DEF IInv, CacheInv, CacheSound
  <2>5. RequestInv'
    BY <2>1, RequestUntouched DEF IInv, RequestInv
  <2> QED
    BY <2>2, <2>3, <2>4, <2>5 DEF IInv
<1> QED
  BY <1>1, <1>2

\* However the requests, the workers and the event loop interleave, the pool, the
\* loop, the cache and every request stay in step (server.py:178-397).
THEOREM InductiveInvariant == Spec => []IInv
<1>1. Init => IInv
  BY InitInv
<1>2. IInv /\ [Next]_vars => IInv'
  BY StepInv
<1> QED
  BY <1>1, <1>2, PTL DEF Spec

LEMMA InvTypeOK ==
  ASSUME IInv
  PROVE  TypeOK
<1>1. Seq(Chunk) = Seq({<<"[DONE]">>} \union ({"text", "stop"} \X Nat))
  BY DEF Chunk
<1> QED
  BY <1>1 DEF IInv, TypeInv, PoolInv, CacheInv, TypeOK

\* Every variable keeps its type, whatever is asked and in whatever order.
THEOREM TypeCorrect == Spec => []TypeOK
<1>1. IInv => TypeOK
  BY InvTypeOK
<1> QED
  BY <1>1, InductiveInvariant, PTL

LEMMA InvPoolSound ==
  ASSUME IInv
  PROVE  PoolSound
<1>1. Members(waiters) = {waiters[i] : i \in DOMAIN waiters}
  BY DEF Members
<1>2. Cardinality(Members(waiters)) = Len(waiters)
  BY <1>1, RangeCardinality DEF IInv, PoolInv, Distinct
<1> QED
  BY <1>1, <1>2 DEF IInv, PoolInv, PoolSound

\* The pool never loses a token and never hands one out twice: requests hold or
\* await one exactly while a job of theirs is in the pool (server.py:379-397).
THEOREM PoolAccounts == Spec => []PoolSound
<1>1. IInv => PoolSound
  BY InvPoolSound
<1> QED
  BY <1>1, InductiveInvariant, PTL

\* Concurrent loads leave one entry a model and no entry of a failed load, and never
\* fill the cache beyond its size (server.py:369-375).
THEOREM CacheStaysSound == Spec => []CacheSound
<1>1. IInv => CacheSound
  BY DEF IInv, CacheInv
<1> QED
  BY <1>1, InductiveInvariant, PTL

\* A thread that loaded a model another thread has cached meanwhile does not replace
\* that instance in the cache (server.py:369-375).
THEOREM InstancesStay == Spec => CachedInstanceStable
<1>1. IInv /\ [Next]_vars => [\A m \in Model : Cached(m) /\ Cached(m)' => Entry(m)' = Entry(m)]_vars
  <2> SUFFICES ASSUME IInv, Next
               PROVE  \A m \in Model : Cached(m) /\ Cached(m)' => Entry(m)' = Entry(m)
    OBVIOUS
  <2>1. PICK r \in Request : Send(r) \/ LoopStep(r) \/ HandlerStep(r)
    BY DEF Next
  <2> QED
    BY <2>1, StableStep DEF IInv
<1> QED
  BY <1>1, InductiveInvariant, PTL DEF Spec, CachedInstanceStable

LEMMA InvAnswersExplained ==
  ASSUME IInv
  PROVE  AnswersExplained
<1> SUFFICES ASSUME NEW r \in Request, phase[r] = "answered" PROVE Explained(r, status[r])
  BY DEF AnswersExplained, Explained
<1> QED
  BY DEF IInv, RequestInv, StateInv, Concluded

\* Every answer says what happened: a 200 has every choice from a loaded model, an
\* error names its cause, and what is refused unseen loads nothing
\* (server.py:178-203, 265-291).
THEOREM AnswersAreExplained == Spec => []AnswersExplained
<1>1. IInv => AnswersExplained
  BY InvAnswersExplained
<1> QED
  BY <1>1, InductiveInvariant, PTL

\* What StreamsWhole says of the i-th of the chunks s, m being where the end mark is.
WholeAt(s, i, m) ==
  CASE s[i][1] = "text" -> IF i = 1 THEN s[i][2] = 0 ELSE s[i - 1] = <<"stop", s[i][2] - 1>>
    [] s[i][1] = "stop" -> i > 1 /\ s[i - 1] = <<"text", s[i][2]>>
    [] OTHER -> i = m

\* The event stream alternates: each text before its stop, in the order of the
\* choices, and the end mark last.
LEMMA EventStreamWhole ==
  ASSUME NEW n \in Nat, NEW i \in 1 .. 2 * n + 1
  PROVE  WholeAt(EventStream(n), i, 2 * n + 1)
<1> DEFINE e == EventStream(n)
<1>1. \A k \in 1 .. 2 * n + 1 :
        e[k] = IF k = 2 * n + 1 THEN <<"[DONE]">>
               ELSE <<IF k % 2 = 1 THEN "text" ELSE "stop", (k - 1) \div 2>>
  BY EventStreamProperties
<1> HIDE DEF e
<1>2. CASE i = 2 * n + 1
  <2>1. e[i] = <<"[DONE]">>
    BY <1>1, <1>2
  <2>2. e[i][1] = "[DONE]"
    BY <2>1
  <2> QED
    BY <1>2, <2>2 DEF e, WholeAt
<1>3. CASE i # 2 * n + 1 /\ i % 2 = 1
  <2>1. e[i] = <<"text", (i - 1) \div 2>>
    BY <1>1, <1>3
  <2>2. e[i][1] = "text" /\ e[i][2] = (i - 1) \div 2
    BY <2>1
  <2>3. i = 1 => e[i][2] = 0
    BY <2>2
  <2>4. i # 1 => e[i - 1] = <<"stop", e[i][2] - 1>>
    <3> SUFFICES ASSUME i # 1 PROVE e[i - 1] = <<"stop", e[i][2] - 1>>
      OBVIOUS
    <3>1. /\ i - 1 \in 1 .. 2 * n + 1 /\ i - 1 # 2 * n + 1 /\ (i - 1) % 2 # 1
          /\ ((i - 1) - 1) \div 2 = ((i - 1) \div 2) - 1
      BY <1>3
    <3> QED
      BY <1>1, <2>2, <3>1
  <2> QED
    BY <2>2, <2>3, <2>4 DEF e, WholeAt
<1>4. CASE i # 2 * n + 1 /\ i % 2 # 1
  <2>1. e[i] = <<"stop", (i - 1) \div 2>>
    BY <1>1, <1>4
  <2>2. e[i][1] = "stop" /\ e[i][2] = (i - 1) \div 2
    BY <2>1
  <2>3. /\ i > 1 /\ i - 1 \in 1 .. 2 * n + 1 /\ i - 1 # 2 * n + 1 /\ (i - 1) % 2 = 1
        /\ ((i - 1) - 1) \div 2 = (i - 1) \div 2
    BY <1>4
  <2>4. e[i - 1] = <<"text", e[i][2]>>
    BY <1>1, <2>2, <2>3
  <2> QED
    BY <2>2, <2>3, <2>4 DEF e, WholeAt
<1> QED
  BY <1>2, <1>3, <1>4

LEMMA InvStreamsWhole ==
  ASSUME IInv
  PROVE  StreamsWhole
<1> SUFFICES ASSUME NEW r \in Request
             PROVE  LET s == sent[r]
                        n == payload[r].count
                    IN  /\ s # << >> => status[r] = 200 /\ made[r] = n
                        /\ \A i \in DOMAIN s : WholeAt(s, i, 2 * n + 1) /\ (i = 2 * n + 1 => i = Len(s))
                        /\ phase[r] = "answered" /\ status[r] = 200 /\ Streams(r) =>
                             Len(s) = 2 * n + 1
  BY DEF StreamsWhole, WholeAt
<1> DEFINE s == sent[r]
           n == payload[r].count
           e == EventStream(n)
<1>1. StateInv(r) /\ SentInv(r) /\ n \in Nat /\ s \in Seq(Chunk)
  BY DEF IInv, RequestInv, TypeInv, Payload
<1>2. Len(s) \in Nat /\ DOMAIN s = 1 .. Len(s)
  BY <1>1, LenProperties
<1>3. s # << >> => status[r] = 200 /\ made[r] = n
  BY <1>1 DEF StateInv, SentInv, Streams, Explained, Concluded
<1>4. phase[r] = "answered" /\ status[r] = 200 /\ Streams(r) => Len(s) = 2 * n + 1
  BY <1>1 DEF StateInv, SentInv, Streams, Explained, Concluded
<1>5. ASSUME NEW i \in DOMAIN s
      PROVE  WholeAt(s, i, 2 * n + 1) /\ (i = 2 * n + 1 => i = Len(s))
  <2>1. made[r] = n
    BY <1>2, <1>3, EmptySeq
  <2>2. Len(s) <= 2 * n + 1 /\ \A k \in 1 .. Len(s) : s[k] = e[k]
    BY <1>1, <2>1 DEF SentInv
  <2>3. i \in 1 .. 2 * n + 1 /\ i \in 1 .. Len(s)
    BY <1>1, <1>2, <2>2
  <2>4. s[i] = e[i] /\ (i # 1 => s[i - 1] = e[i - 1])
    <3>1. i # 1 => i - 1 \in 1 .. Len(s)
      BY <1>2, <2>3
    <3> QED
      BY <2>2, <2>3, <3>1
  <2>5. WholeAt(e, i, 2 * n + 1)
    BY <1>1, <2>3, EventStreamWhole
  <2> HIDE DEF s, e, n
  <2>6. i = 2 * n + 1 => i = Len(s)
    BY <1>1, <1>2, <2>2, <2>3
  <2>7. i > 1 => i # 1
    BY <2>3
  <2>8. WholeAt(s, i, 2 * n + 1)
    BY <2>4, <2>5, <2>7 DEF WholeAt
  <2> QED
    BY <2>6, <2>8
<1> QED
  BY <1>3, <1>4, <1>5

\* Whoever reads a stream gets whole choices in order, after all of them are
\* generated, and the end mark last and once (server.py:310-352).
THEOREM StreamsAreWhole == Spec => []StreamsWhole
<1>1. IInv => StreamsWhole
  BY InvStreamsWhole
<1> QED
  BY <1>1, InductiveInvariant, PTL

=============================================================================
