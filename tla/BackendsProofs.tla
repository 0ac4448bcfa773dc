--------------------------- MODULE BackendsProofs ---------------------------
(***************************************************************************)
(* Proofs about Backends, for every window, default budget, set of request *)
(* bodies and reading of their texts.                                      *)
(***************************************************************************)
EXTENDS Backends, NumberLemmas, SequenceTheorems, TLAPS

-----------------------------------------------------------------------------
(* The inductive invariant.                                                *)

Choice == [prompt : Nat, output : Nat]

TypeInv ==
  /\ request \in Requests
  /\ phase \in [Backend -> {"asked", "generating", "answered"}]
  /\ prompts \in [Backend -> Seq(Nat)]
  /\ choices \in [Backend -> Seq(Choice)]
  /\ out \in [Backend -> Nat]
  /\ ended \in [Backend -> BOOLEAN]
  /\ usage \in [Backend -> Choice]
  /\ status \in [Backend -> {0, 200, 422, 500, 501}]

\* The code with which a body is refused, 0 if it is not.
Refusal ==
  IF request.route = "responses"
    THEN IF request.stream THEN 501
         ELSE IF BuildPrompt(request) = <<>> THEN 422 ELSE 0
    ELSE IF Supported(request.prompt) THEN 0 ELSE 422

\* The prompts' lengths when it is not.
Wanted ==
  IF request.route = "responses" THEN <<Len(BuildPrompt(request))>>
  ELSE Lengths(request.prompt)

\* What a server has decided so far depends on the body alone; a failure is
\* accounted for by a prompt.
VerdictInv(b) ==
  /\ phase[b] # "answered" => status[b] = 0
  /\ phase[b] = "asked" => prompts[b] = <<>> /\ choices[b] = <<>>
  /\ phase[b] = "generating" => Refusal = 0 /\ prompts[b] = Wanted
  /\ phase[b] = "answered" =>
       IF Refusal # 0 THEN status[b] = Refusal
       ELSE prompts[b] = Wanted /\ status[b] \in {200, 500}
  /\ status[b] = 200 => Len(choices[b]) = Len(prompts[b]) * request.n
  /\ status[b] = 500 =>
       \E i \in DOMAIN prompts[b] :
         \/ prompts[b][i] = 0
         \/ b = "hf_server" /\ prompts[b][i] + Budget > NPositions + 1

\* What is known of a choice that was made.
Sound(b, c) ==
  /\ c.prompt > 0
  /\ c.output <= Budget
  /\ b = "server" =>
       /\ c.output > 0 => c.prompt + c.output <= NPositions
       /\ c.output = 0 <=> c.prompt >= NPositions

ChoicesInv(b) ==
  /\ Len(choices[b]) <= Len(prompts[b]) * request.n
  /\ \A i \in DOMAIN choices[b] :
       /\ choices[b][i].prompt = prompts[b][(i - 1) \div request.n + 1]
       /\ Sound(b, choices[b][i])

\* Only a generation under way has tokens, and they are within the limit.
OutInv(b) ==
  /\ b = "hf_server" => out[b] = 0 /\ ~ended[b]
  /\ ended[b] => out[b] > 0
  /\ out[b] > 0 => MoreToDo(b) /\ Length(b) > 0 /\ Length(b) + out[b] <= Limit(Length(b))

\* The totals after the choices for the first prompts, and some for the next one.
UsageInv(b) ==
  LET k == Len(choices[b])
      q == k \div request.n
      r == k % request.n
  IN  /\ usage[b].prompt
           = request.n * Sums(prompts[b])[q] + (IF r = 0 THEN 0 ELSE r * prompts[b][q + 1])
      /\ usage[b].output = Total(Outputs(b))

BackendInv(b) == VerdictInv(b) /\ ChoicesInv(b) /\ OutInv(b) /\ UsageInv(b)

IInv == TypeInv /\ \A b \in Backend : BackendInv(b)

-----------------------------------------------------------------------------
(* Requests.                                                               *)

LEMMA RequestFacts ==
  ASSUME request \in Requests
  PROVE  /\ request.n \in Nat \ {0} /\ Budget \in Nat \ {0}
         /\ Refusal \in {0, 422, 501}
  BY BackendsAssumption, RequestsAssumption DEF Budget, Null, Refusal

LEMMA WantedType ==
  ASSUME request \in Requests, Refusal = 0
  PROVE  Wanted \in Seq(Nat)
<1>1. CASE request.route = "responses"
  <2>1. BuildPrompt(request) \in Seq(STRING)
    BY <1>1, RequestsAssumption
  <2> QED
    BY <1>1, <2>1 DEF Wanted
<1>2. CASE request.route # "responses"
  <2> DEFINE p == request.prompt
             Tokens(item) == IF item[1] = "text" THEN item[2] ELSE Retokenized(item[2])
  <2>1. /\ IsItem(p) /\ Supported(p) /\ Wanted = Lengths(p)
        /\ p[1] = "list" => \A i \in DOMAIN p[2] : IsItem(p[2][i])
    BY <1>2, RequestsAssumption DEF Refusal, Wanted
  <2> HIDE DEF p
  <2>2. CASE p[1] = "text"
    BY <2>1, <2>2 DEF IsItem, Lengths
  <2>3. CASE p[1] = "list"
    <3>1. p[1] # "text" /\ p[2] \in Seq(Range(p[2])) /\ Len(p[2]) \in Nat
      BY <2>1, <2>3 DEF IsItem
    <3>2. CASE p[2] # <<>> /\ All("int", p[2])
      BY <2>1, <2>3, <3>1, <3>2 DEF Lengths, IsItem
    <3>3. CASE ~(p[2] # <<>> /\ All("int", p[2]))
      <4>1. Lengths(p) = [i \in DOMAIN p[2] |-> Tokens(p[2][i])]
        BY <3>1, <3>3 DEF Lengths
      <4>2. DOMAIN p[2] = 1 .. Len(p[2])
        BY <3>1
      <4>3. ASSUME NEW i \in DOMAIN p[2]
            PROVE  Tokens(p[2][i]) \in Nat
        <5>1. p[2] # <<>>
          BY <3>1, <4>2
        <5>2. p[2][i][1] \in {"text", "list"} /\ IsItem(p[2][i])
          BY <2>1, <2>3, <3>1, <3>3, <5>1 DEF Supported, All
        <5>3. CASE p[2][i][1] = "text"
          BY <5>2, <5>3 DEF IsItem
        <5>4. CASE p[2][i][1] = "list"
          <6>1. All("int", p[2][i][2])
            BY <2>1, <2>3, <3>1, <3>3, <5>1, <5>4 DEF Supported, All
          <6> QED
            BY <5>2, <5>4, <6>1 DEF IsItem
        <5> QED
          BY <5>2, <5>3, <5>4
      <4> QED
        BY <2>1, <3>1, <4>1, <4>2, <4>3
    <3> QED
      BY <3>2, <3>3
  <2> QED
    BY <2>1, <2>2, <2>3 DEF Supported
<1> QED
  BY <1>1, <1>2

-----------------------------------------------------------------------------
(* Sums, and the prompt a choice belongs to.                               *)

LEMMA SumsEquation ==
  ASSUME NEW s \in Seq(Nat)
  PROVE  /\ Sums(s) \in [0 .. Len(s) -> Nat]
         /\ Sums(s)[0] = 0
         /\ \A i \in 0 .. Len(s) - 1 : Sums(s)[i + 1] = Sums(s)[i] + s[i + 1]
<1> DEFINE n == Len(s)
           F == [i \in 0 .. n - 1 |-> [v \in Nat |-> v + s[i + 1]]]
           G(g) == g = [i \in 0 .. n |-> IF i = 0 THEN 0 ELSE g[i - 1] + s[i]]
<1>1. n \in Nat /\ 0 \in Nat /\ \A i \in 0 .. n - 1 : s[i + 1] \in Nat
  OBVIOUS
<1>2. F \in [0 .. n - 1 -> [Nat -> Nat]]
  BY <1>1
<1>3. PICK f \in [0 .. n -> Nat] : Iterates(f, n, 0, F)
  <2> HIDE DEF F, n
  <2> QED
    BY <1>1, <1>2, Recursion, Zenon
<1>4. G(f)
  <2>1. ASSUME NEW i \in 0 .. n, i # 0
        PROVE  f[i] = f[i - 1] + s[i]
    <3>1. i - 1 \in 0 .. n - 1 /\ (i - 1) + 1 = i
      BY <1>1, <2>1
    <3>2. f[i] = F[i - 1][f[i - 1]]
      BY <1>3, <3>1 DEF Iterates
    <3>3. i - 1 \in 0 .. n /\ f[i - 1] \in Nat
      BY <1>1, <2>1
    <3> HIDE DEF n
    <3>4. F[i - 1][f[i - 1]] = f[i - 1] + s[(i - 1) + 1]
      BY <3>1, <3>3
    <3> QED
      BY <3>1, <3>2, <3>4
  <2>2. f[0] = 0
    BY <1>3 DEF Iterates
  <2> QED
    BY <2>1, <2>2
<1>5. G(Sums(s))
  <2>1. Sums(s) = CHOOSE g : G(g)
    BY DEF Sums
  <2> HIDE DEF G
  <2> QED
    BY <1>4, <2>1
<1> DEFINE g == Sums(s)
<1> HIDE DEF g, n
<1>6. G(g)
  BY <1>5 DEF g
<1>7. g[0] = 0
  BY <1>1, <1>6
<1>8. ASSUME NEW i \in 0 .. n - 1
      PROVE  g[i + 1] = g[i] + s[i + 1]
  <2>1. i + 1 \in 0 .. n /\ i + 1 # 0 /\ (i + 1) - 1 = i
    BY <1>1
  <2> QED
    BY <1>6, <2>1
<1>9. 0 .. n \subseteq {i \in 0 .. n : g[i] \in Nat}
  <2> DEFINE P == {i \in 0 .. n : g[i] \in Nat}
  <2>1. 0 \in P
    BY <1>1, <1>7
  <2>2. ASSUME NEW i \in 0 .. n - 1, i \in P
        PROVE  i + 1 \in P
    <3>1. g[i] \in Nat /\ i + 1 \in 0 .. n
      BY <1>1, <2>2
    <3>2. g[i + 1] = g[i] + s[i + 1] /\ s[i + 1] \in Nat
      BY <1>1, <1>8
    <3> QED
      BY <3>1, <3>2
  <2> HIDE DEF P
  <2>3. 0 .. n \subseteq P
    BY <1>1, <2>1, <2>2, Induction
  <2> QED
    BY <2>3 DEF P
<1>10. g \in [0 .. n -> Nat]
  <2>1. g = [i \in 0 .. n |-> g[i]]
    BY <1>6
  <2> QED
    BY <1>9, <2>1
<1> QED
  BY <1>7, <1>8, <1>10 DEF g, n

LEMMA TotalOfAppend ==
  ASSUME NEW s \in Seq(Nat), NEW x \in Nat
  PROVE  Total(Append(s, x)) = Total(s) + x
<1> DEFINE t == Append(s, x)
           n == Len(s)
           f == Sums(s)
           g == Sums(t)
           P == {i \in 0 .. n : g[i] = f[i]}
<1>1. t \in Seq(Nat) /\ Len(t) = n + 1 /\ n \in Nat /\ t[n + 1] = x
  OBVIOUS
<1>2. \A i \in 0 .. n - 1 : t[i + 1] = s[i + 1]
  OBVIOUS
<1> HIDE DEF t, n
<1>3. /\ f \in [0 .. n -> Nat] /\ f[0] = 0
      /\ \A i \in 0 .. n - 1 : f[i + 1] = f[i] + s[i + 1]
  BY SumsEquation DEF n
<1>4. /\ g[0] = 0
      /\ \A i \in 0 .. (n + 1) - 1 : g[i + 1] = g[i] + t[i + 1]
  BY <1>1, SumsEquation
<1> HIDE DEF f, g
<1>5. 0 \in P
  BY <1>1, <1>3, <1>4
<1>6. ASSUME NEW i \in 0 .. n - 1, i \in P
      PROVE  i + 1 \in P
  <2>1. i \in 0 .. (n + 1) - 1 /\ i + 1 \in 0 .. n /\ g[i] = f[i]
    BY <1>1, <1>6
  <2> QED
    BY <1>2, <1>3, <1>4, <2>1
<1>7. 0 .. n \subseteq P
  <2> HIDE DEF P
  <2> QED
    BY <1>1, <1>5, <1>6, Induction
<1>8. g[n] = f[n] /\ g[n + 1] = g[n] + x
  BY <1>1, <1>4, <1>7
<1> QED
  BY <1>1, <1>8 DEF Total, f, g, t, n

\* The number of the prompt that has its turn.
LEMMA TurnOfPrompt ==
  ASSUME NEW k \in Nat, NEW n \in Nat \ {0}, NEW l \in Nat, k < l * n
  PROVE  k \div n \in 0 .. l - 1 /\ k % n \in 0 .. n - 1
<1> DEFINE q == k \div n
           r == k % n
<1>1. q \in Nat /\ r \in 0 .. n - 1 /\ k = (n * q) + r
  BY Division
<1> HIDE DEF q, r
<1>2. q < l
  <2> SUFFICES ASSUME q >= l
               PROVE  FALSE
    BY <1>1
  <2>1. n * q >= n * l
    BY <1>1
  <2> QED
    BY <1>1, <2>1
<1> QED
  BY <1>1, <1>2 DEF q, r

\* ... and how it moves on with a choice.
LEMMA NextTurn ==
  ASSUME NEW k \in Nat, NEW n \in Nat \ {0}
  PROVE  IF k % n = n - 1
           THEN (k + 1) \div n = (k \div n) + 1 /\ (k + 1) % n = 0
           ELSE (k + 1) \div n = k \div n /\ (k + 1) % n = (k % n) + 1
<1> DEFINE q == k \div n
           r == k % n
<1>1. q \in Nat /\ r \in 0 .. n - 1 /\ k = (n * q) + r
  BY Division
<1> HIDE DEF q, r
<1>2. CASE r = n - 1
  <2>1. k + 1 = (n * (q + 1)) + 0 /\ q + 1 \in Nat /\ 0 \in 0 .. n - 1 /\ k + 1 \in Nat
    BY <1>1, <1>2
  <2>2. (k + 1) \div n = q + 1 /\ (k + 1) % n = 0
    BY <2>1, DivisionUnique
  <2> QED
    BY <1>2, <2>2 DEF q, r
<1>3. CASE r # n - 1
  <2>1. k + 1 = (n * q) + (r + 1) /\ r + 1 \in 0 .. n - 1 /\ k + 1 \in Nat
    BY <1>1, <1>3
  <2>2. (k + 1) \div n = q /\ (k + 1) % n = r + 1
    BY <1>1, <2>1, DivisionUnique
  <2> QED
    BY <1>3, <2>2 DEF q, r
<1> QED
  BY <1>2, <1>3

-----------------------------------------------------------------------------
(* Initial states, and what a step leaves alone.                           *)

LEMMA InitIInv == Init => IInv
<1> SUFFICES ASSUME Init
             PROVE  IInv
  OBVIOUS
<1>1. TypeInv
  BY DEF Init, TypeInv, Choice
<1>2. ASSUME NEW b \in Backend
      PROVE  BackendInv(b)
  <2>1. /\ request \in Requests /\ phase[b] = "asked" /\ prompts[b] = <<>> /\ choices[b] = <<>>
        /\ out[b] = 0 /\ ~ended[b] /\ usage[b] = [prompt |-> 0, output |-> 0] /\ status[b] = 0
    BY DEF Init
  <2>2. VerdictInv(b)
    BY <2>1 DEF VerdictInv
  <2>3. request.n \in Nat \ {0}
    BY <2>1, RequestFacts
  <2>4. ChoicesInv(b)
    BY <2>1, <2>3 DEF ChoicesInv
  <2>5. OutInv(b)
    BY <2>1 DEF OutInv
  <2>6. UsageInv(b)
    <3>1. 0 \div request.n = 0 /\ 0 % request.n = 0
      BY <2>3, DivisionUnique
    <3>2. <<>> \in Seq(Nat) /\ Len(<<>>) = 0
      OBVIOUS
    <3>3. Sums(<<>>)[0] = 0
      BY <3>2, SumsEquation
    <3>4. Outputs(b) = <<>>
      BY <2>1 DEF Outputs
    <3>5. Total(Outputs(b)) = 0
      BY <3>2, <3>3, <3>4 DEF Total
    <3>6. request.n * 0 = 0
      BY <2>3
    <3> QED
      BY <2>1, <3>1, <3>2, <3>3, <3>5, <3>6 DEF UsageInv
  <2> QED
    BY <2>2, <2>4, <2>5, <2>6 DEF BackendInv
<1> QED
  BY <1>1, <1>2 DEF IInv

\* A server that no step touches keeps what is known of it.
Untouched(c) ==
  /\ request' = request
  /\ phase'[c] = phase[c] /\ prompts'[c] = prompts[c] /\ choices'[c] = choices[c]
  /\ out'[c] = out[c] /\ ended'[c] = ended[c] /\ usage'[c] = usage[c]
  /\ status'[c] = status[c]

LEMMA UntouchedKeeps ==
  ASSUME NEW c \in Backend, BackendInv(c), Untouched(c)
  PROVE  BackendInv(c)'
<1> USE DEF Untouched
<1>1. VerdictInv(c)'
  BY DEF BackendInv, VerdictInv, Refusal, Wanted, Budget
<1>2. ChoicesInv(c)'
  BY DEF BackendInv, ChoicesInv, Sound, Budget
<1>3. OutInv(c)'
  BY DEF BackendInv, OutInv, MoreToDo, Length, Limit, Budget
<1>4. UsageInv(c)'
  BY DEF BackendInv, UsageInv, Outputs
<1> QED
  BY <1>1, <1>2, <1>3, <1>4 DEF BackendInv

\* The two handlers decide alike.
LEMMA Decision ==
  ASSUME TypeInv, NEW b \in Backend, Respond(b) \/ Complete(b)
  PROVE  /\ phase[b] = "asked" /\ UNCHANGED <<request, progress>>
         /\ \/ Refusal \in {422, 501} /\ Answer(b, Refusal) /\ UNCHANGED prompts
            \/ Refusal = 0 /\ Generate(b, Wanted)
<1>0. request \in Requests
  BY DEF TypeInv
<1>1. CASE Respond(b)
  <2>1. request.route = "responses" /\ phase[b] = "asked" /\ UNCHANGED <<request, progress>>
    BY <1>1 DEF Respond, Asked
  <2>2. request.stream \in BOOLEAN
    BY <1>0, <2>1, RequestsAssumption
  <2>3. CASE request.stream
    <3>1. Refusal = 501
      BY <2>1, <2>3 DEF Refusal
    <3>2. Answer(b, 501) /\ UNCHANGED prompts
      BY <1>1, <2>3 DEF Respond
    <3> QED
      BY <2>1, <3>1, <3>2
  <2>4. CASE ~request.stream /\ BuildPrompt(request) = <<>>
    <3>1. Refusal = 422
      BY <2>1, <2>4 DEF Refusal
    <3>2. Answer(b, 422) /\ UNCHANGED prompts
      BY <1>1, <2>4 DEF Respond
    <3> QED
      BY <2>1, <3>1, <3>2
  <2>5. CASE ~request.stream /\ BuildPrompt(request) # <<>>
    <3>1. Refusal = 0 /\ Wanted = <<Len(BuildPrompt(request))>>
      BY <2>1, <2>5 DEF Refusal, Wanted
    <3>2. Generate(b, <<Len(BuildPrompt(request))>>)
      BY <1>1, <2>5 DEF Respond
    <3> QED
      BY <2>1, <3>1, <3>2
  <2> QED
    BY <2>2, <2>3, <2>4, <2>5
<1>2. CASE Complete(b)
  <2>1. request.route = "completions" /\ phase[b] = "asked" /\ UNCHANGED <<request, progress>>
    BY <1>2 DEF Complete, Asked
  <2>2. CASE Supported(request.prompt)
    <3>1. Refusal = 0 /\ Wanted = Lengths(request.prompt)
      BY <2>1, <2>2 DEF Refusal, Wanted
    <3>2. Generate(b, Lengths(request.prompt))
      BY <1>2, <2>2 DEF Complete
    <3> QED
      BY <2>1, <3>1, <3>2
  <2>3. CASE ~Supported(request.prompt)
    <3>1. Refusal = 422
      BY <2>1, <2>3 DEF Refusal
    <3>2. Answer(b, 422) /\ UNCHANGED prompts
      BY <1>2, <2>3 DEF Complete
    <3> QED
      BY <2>1, <3>1, <3>2
  <2> QED
    BY <2>2, <2>3
<1> QED
  BY <1>1, <1>2

\* What a step is to do to one server, for the invariant.
StepKeeps(b) ==
  TypeInv' /\ BackendInv(b)' /\ \A c \in Backend \ {b} : Untouched(c)

LEMMA DecisionKeeps ==
  ASSUME IInv, NEW b \in Backend, Respond(b) \/ Complete(b)
  PROVE  StepKeeps(b)
<1>1. TypeInv /\ BackendInv(b)
  BY DEF IInv
<1>2. /\ phase[b] = "asked" /\ UNCHANGED <<request, progress>>
      /\ \/ Refusal \in {422, 501} /\ Answer(b, Refusal) /\ UNCHANGED prompts
         \/ Refusal = 0 /\ Generate(b, Wanted)
  BY <1>1, Decision
<1>3. /\ request' = request /\ choices' = choices /\ out' = out /\ ended' = ended
      /\ usage' = usage
  BY <1>2 DEF progress
<1>4. /\ request \in Requests /\ prompts[b] = <<>> /\ choices[b] = <<>> /\ status[b] = 0
      /\ request.n \in Nat \ {0}
  BY <1>1, <1>2, RequestFacts DEF TypeInv, BackendInv, VerdictInv
<1>5. out[b] = 0 /\ ~ended[b]
  <2>1. out[b] \in Nat /\ ended[b] \in BOOLEAN /\ ~MoreToDo(b)
    BY <1>1, <1>4 DEF TypeInv, MoreToDo
  <2> QED
    BY <1>1, <2>1 DEF BackendInv, OutInv
<1>6. Refusal' = Refusal /\ Wanted' = Wanted /\ Budget' = Budget
  BY <1>3 DEF Refusal, Wanted, Budget
<1>7. OutInv(b)'
  BY <1>3, <1>5 DEF OutInv
<1>8. 0 \div request.n = 0 /\ 0 % request.n = 0 /\ Len(<<>>) = 0 /\ request.n * 0 = 0
  BY <1>4, DivisionUnique
<1>9. usage[b].prompt = 0 /\ usage[b].output = Total(Outputs(b))
  <2>1. <<>> \in Seq(Nat)
    OBVIOUS
  <2>2. Sums(<<>>)[0] = 0
    BY <2>1, SumsEquation
  <2> QED
    BY <1>1, <1>4, <1>8, <2>2 DEF BackendInv, UsageInv
<1>10. CASE Refusal \in {422, 501} /\ Answer(b, Refusal) /\ UNCHANGED prompts
  <2>1. /\ phase' = [phase EXCEPT ![b] = "answered"] /\ status' = [status EXCEPT ![b] = Refusal]
        /\ prompts' = prompts
    BY <1>10 DEF Answer
  <2>2. /\ phase'[b] = "answered" /\ status'[b] = Refusal
        /\ \A c \in Backend \ {b} : phase'[c] = phase[c] /\ status'[c] = status[c]
    BY <1>1, <2>1 DEF TypeInv
  <2>3. TypeInv'
    BY <1>1, <1>3, <1>10, <2>1 DEF TypeInv
  <2>4. VerdictInv(b)'
    BY <1>6, <1>10, <2>2 DEF VerdictInv
  <2>5. ChoicesInv(b)'
    BY <1>1, <1>3, <2>1, <1>6 DEF BackendInv, ChoicesInv, Sound
  <2>6. UsageInv(b)'
    BY <1>1, <1>3, <2>1 DEF BackendInv, UsageInv, Outputs
  <2> QED
    BY <1>3, <1>7, <2>1, <2>2, <2>3, <2>4, <2>5, <2>6 DEF StepKeeps, Untouched, BackendInv
<1>11. CASE Refusal = 0 /\ Generate(b, Wanted)
  <2>1. /\ phase' = [phase EXCEPT ![b] = "generating"] /\ status' = status
        /\ prompts' = [prompts EXCEPT ![b] = Wanted]
    BY <1>11 DEF Generate
  <2>2. /\ phase'[b] = "generating" /\ prompts'[b] = Wanted
        /\ \A c \in Backend \ {b} : phase'[c] = phase[c] /\ prompts'[c] = prompts[c]
    BY <1>1, <2>1 DEF TypeInv
  <2>3. Wanted \in Seq(Nat)
    BY <1>4, <1>11, WantedType
  <2>4. TypeInv'
    BY <1>1, <1>3, <2>1, <2>3 DEF TypeInv
  <2>5. VerdictInv(b)'
    BY <1>4, <1>6, <1>11, <2>1, <2>2 DEF VerdictInv
  <2>6. ChoicesInv(b)'
    <3>1. 0 <= Len(Wanted) * request.n
      BY <1>4, <2>3
    <3> QED
      BY <1>3, <1>4, <2>2, <3>1 DEF ChoicesInv
  <2>7. UsageInv(b)'
    <3>1. Sums(Wanted)[0] = 0
      BY <2>3, SumsEquation
    <3>2. Outputs(b)' = Outputs(b)
      BY <1>3 DEF Outputs
    <3> QED
      BY <1>3, <1>4, <1>8, <1>9, <2>2, <3>1, <3>2 DEF UsageInv
  <2> QED
    BY <1>3, <1>7, <2>1, <2>2, <2>4, <2>5, <2>6, <2>7 DEF StepKeeps, Untouched, BackendInv
<1> QED
  BY <1>2, <1>10, <1>11

-----------------------------------------------------------------------------
(* Generations.                                                            *)

LEMMA LengthFacts ==
  ASSUME TypeInv, NEW b \in Backend, MoreToDo(b)
  PROVE  /\ Len(choices[b]) \in Nat /\ Len(prompts[b]) \in Nat /\ request.n \in Nat \ {0}
         /\ Len(choices[b]) + 1 <= Len(prompts[b]) * request.n
         /\ Len(choices[b]) \div request.n \in 0 .. Len(prompts[b]) - 1
         /\ (Len(choices[b]) \div request.n) + 1 \in DOMAIN prompts[b]
         /\ Length(b) = prompts[b][(Len(choices[b]) \div request.n) + 1]
         /\ Length(b) \in Nat
         /\ NPositions \in Nat \ {0} /\ Budget \in Nat \ {0}
<1> DEFINE k == Len(choices[b])
           l == Len(prompts[b])
           n == request.n
<1>1. /\ k \in Nat /\ l \in Nat /\ n \in Nat \ {0} /\ Budget \in Nat \ {0}
      /\ prompts[b] \in Seq(Nat) /\ DOMAIN prompts[b] = 1 .. l
  BY RequestFacts DEF TypeInv
<1>2. k < l * n
  BY DEF MoreToDo
<1> HIDE DEF k, l, n
<1>3. k \div n \in 0 .. l - 1 /\ k + 1 <= l * n
  <2>1. k \div n \in 0 .. l - 1
    BY <1>1, <1>2, TurnOfPrompt
  <2>2. l * n \in Nat
    BY <1>1
  <2> QED
    BY <1>1, <1>2, <2>1, <2>2
<1>4. (k \div n) + 1 \in DOMAIN prompts[b]
  BY <1>1, <1>3
<1>5. Length(b) = prompts[b][(k \div n) + 1]
  BY DEF Length, k, n
<1>6. Length(b) \in Nat
  BY <1>1, <1>4, <1>5
<1> QED
  BY <1>1, <1>3, <1>4, <1>5, <1>6, BackendsAssumption DEF k, l, n

\* A server that fails: some prompt accounts for it.
LEMMA FailureKeeps ==
  ASSUME IInv, NEW b \in Backend, phase[b] = "generating", MoreToDo(b),
         \/ Length(b) = 0
         \/ b = "hf_server" /\ Length(b) + Budget > NPositions + 1,
         Answer(b, 500), UNCHANGED <<request, prompts, progress>>
  PROVE  StepKeeps(b)
<1>1. TypeInv /\ BackendInv(b)
  BY DEF IInv
<1>2. /\ request' = request /\ prompts' = prompts /\ choices' = choices /\ out' = out
      /\ ended' = ended /\ usage' = usage
  BY DEF progress
<1>3. phase' = [phase EXCEPT ![b] = "answered"] /\ status' = [status EXCEPT ![b] = 500]
  BY DEF Answer
<1>4. /\ phase'[b] = "answered" /\ status'[b] = 500
      /\ \A c \in Backend \ {b} : phase'[c] = phase[c] /\ status'[c] = status[c]
  BY <1>1, <1>3 DEF TypeInv
<1>5. TypeInv'
  BY <1>1, <1>2, <1>3 DEF TypeInv
<1>6. Refusal' = Refusal /\ Wanted' = Wanted /\ Budget' = Budget
  BY <1>2 DEF Refusal, Wanted, Budget
<1>7. VerdictInv(b)'
  <2>1. \E i \in DOMAIN prompts[b] :
          \/ prompts[b][i] = 0
          \/ b = "hf_server" /\ prompts[b][i] + Budget > NPositions + 1
    BY <1>1, LengthFacts
  <2>2. Refusal = 0 /\ prompts[b] = Wanted
    BY <1>1 DEF BackendInv, VerdictInv
  <2> QED
    BY <1>2, <1>4, <1>6, <2>1, <2>2 DEF VerdictInv
<1>8. ChoicesInv(b)'
  BY <1>1, <1>2, <1>6 DEF BackendInv, ChoicesInv, Sound
<1>9. OutInv(b)'
  BY <1>1, <1>2, <1>6 DEF BackendInv, OutInv, MoreToDo, Length, Limit
<1>10. UsageInv(b)'
  BY <1>1, <1>2 DEF BackendInv, UsageInv, Outputs
<1> QED
  BY <1>2, <1>4, <1>5, <1>7, <1>8, <1>9, <1>10 DEF StepKeeps, Untouched, BackendInv

LEMMA TokenKeeps ==
  ASSUME IInv, GPT2Token
  PROVE  StepKeeps("server")
<1> DEFINE b == "server"
<1>1. /\ TypeInv /\ b \in Backend /\ BackendInv(b) /\ phase[b] = "generating" /\ MoreToDo(b)
      /\ Length(b) + out[b] < Limit(Length(b))
      /\ request' = request /\ prompts' = prompts
  BY DEF IInv, Backend, GPT2Token
<1>2. CASE Length(b) = 0
  <2>1. Answer(b, 500) /\ UNCHANGED <<request, prompts, progress>>
    BY <1>2 DEF GPT2Token
  <2> HIDE DEF b
  <2> QED
    BY <1>1, <1>2, <2>1, FailureKeeps DEF b
<1>3. CASE Length(b) # 0
  <2>1. /\ out' = [out EXCEPT ![b] = @ + 1]
        /\ phase' = phase /\ status' = status /\ choices' = choices /\ usage' = usage
    BY <1>3 DEF GPT2Token
  <2>2. PICK eos \in BOOLEAN : ended' = [ended EXCEPT ![b] = eos]
    BY <1>3 DEF GPT2Token
  <2> HIDE DEF b
  <2>3. out[b] \in Nat /\ Length(b) \in Nat /\ Limit(Length(b)) \in Nat
    BY <1>1, LengthFacts DEF TypeInv, Limit
  <2>4. /\ out'[b] = out[b] + 1 /\ ended'[b] \in BOOLEAN
        /\ \A c \in Backend \ {b} : out'[c] = out[c] /\ ended'[c] = ended[c]
    BY <1>1, <2>1, <2>2 DEF TypeInv
  <2>5. TypeInv'
    BY <1>1, <2>1, <2>2, <2>3 DEF TypeInv
  <2>6. Refusal' = Refusal /\ Wanted' = Wanted /\ Budget' = Budget
    BY <1>1 DEF Refusal, Wanted, Budget
  <2>7. VerdictInv(b)'
    BY <1>1, <2>1, <2>6 DEF BackendInv, VerdictInv
  <2>8. ChoicesInv(b)'
    BY <1>1, <2>1, <2>6 DEF BackendInv, ChoicesInv, Sound
  <2>9. OutInv(b)'
    <3>1. MoreToDo(b)' /\ Length(b)' = Length(b) /\ Limit(Length(b))' = Limit(Length(b))
      BY <1>1, <2>1, <2>6 DEF MoreToDo, Length, Limit
    <3>2. Length(b) + (out[b] + 1) <= Limit(Length(b)) /\ out[b] + 1 > 0 /\ Length(b) > 0
      BY <1>1, <1>3, <2>3
    <3>3. b # "hf_server"
      BY DEF b
    <3> QED
      BY <2>4, <3>1, <3>2, <3>3 DEF OutInv
  <2>10. UsageInv(b)'
    BY <1>1, <2>1 DEF BackendInv, UsageInv, Outputs
  <2> QED
    BY <1>1, <2>1, <2>4, <2>5, <2>7, <2>8, <2>9, <2>10 DEF StepKeeps, Untouched, BackendInv, b
<1> QED
  BY <1>2, <1>3

LEMMA ReturnKeeps ==
  ASSUME IInv, NEW b \in Backend, Return(b)
  PROVE  StepKeeps(b)
<1>1. TypeInv /\ BackendInv(b) /\ phase[b] = "generating" /\ ~MoreToDo(b)
  BY DEF IInv, Return
<1>2. /\ request' = request /\ prompts' = prompts /\ choices' = choices /\ out' = out
      /\ ended' = ended /\ usage' = usage
  BY DEF Return, progress
<1>3. phase' = [phase EXCEPT ![b] = "answered"] /\ status' = [status EXCEPT ![b] = 200]
  BY DEF Return, Answer
<1>4. /\ phase'[b] = "answered" /\ status'[b] = 200
      /\ \A c \in Backend \ {b} : phase'[c] = phase[c] /\ status'[c] = status[c]
  BY <1>1, <1>3 DEF TypeInv
<1>5. TypeInv'
  BY <1>1, <1>2, <1>3 DEF TypeInv
<1>6. Refusal' = Refusal /\ Wanted' = Wanted /\ Budget' = Budget
  BY <1>2 DEF Refusal, Wanted, Budget
<1>7. VerdictInv(b)'
  <2>1. Len(choices[b]) = Len(prompts[b]) * request.n
    <3>1. /\ Len(choices[b]) \in Nat /\ Len(prompts[b]) \in Nat /\ request.n \in Nat
          /\ Len(choices[b]) <= Len(prompts[b]) * request.n
      BY <1>1, RequestFacts DEF TypeInv, BackendInv, ChoicesInv
    <3> QED
      BY <1>1, <3>1 DEF MoreToDo
  <2>2. Refusal = 0 /\ prompts[b] = Wanted
    BY <1>1 DEF BackendInv, VerdictInv
  <2> QED
    BY <1>2, <1>4, <1>6, <2>1, <2>2 DEF VerdictInv
<1>8. ChoicesInv(b)'
  BY <1>1, <1>2, <1>6 DEF BackendInv, ChoicesInv, Sound
<1>9. OutInv(b)'
  BY <1>1, <1>2, <1>6 DEF BackendInv, OutInv, MoreToDo, Length, Limit
<1>10. UsageInv(b)'
  BY <1>1, <1>2 DEF BackendInv, UsageInv, Outputs
<1> QED
  BY <1>2, <1>4, <1>5, <1>7, <1>8, <1>9, <1>10 DEF StepKeeps, Untouched, BackendInv

\* A choice that is made is added, and the totals go with it.
LEMMA ChoiceKeeps ==
  ASSUME IInv, NEW b \in Backend, NEW t \in Nat, phase[b] = "generating", MoreToDo(b),
         Sound(b, [prompt |-> Length(b), output |-> t]),
         Choose(b, t), UNCHANGED <<request, phase, prompts, status>>
  PROVE  StepKeeps(b)
<1> DEFINE k == Len(choices[b])
           n == request.n
           l == Len(prompts[b])
           q == k \div n
           r == k % n
           c == [prompt |-> Length(b), output |-> t]
<1>1. TypeInv /\ BackendInv(b)
  BY DEF IInv
<1>2. /\ k \in Nat /\ l \in Nat /\ n \in Nat \ {0} /\ k + 1 <= l * n
      /\ q \in 0 .. l - 1 /\ q + 1 \in DOMAIN prompts[b]
      /\ Length(b) = prompts[b][q + 1] /\ Length(b) \in Nat
  BY <1>1, LengthFacts
<1>3. /\ choices' = [choices EXCEPT ![b] = Append(@, c)]
      /\ usage' = [usage EXCEPT ![b] =
           [prompt |-> @.prompt + Length(b), output |-> @.output + t]]
      /\ out' = [out EXCEPT ![b] = 0]
      /\ ended' = [ended EXCEPT ![b] = FALSE]
      /\ request' = request /\ phase' = phase /\ prompts' = prompts /\ status' = status
  BY DEF Choose
<1>4. /\ choices \in [Backend -> Seq(Choice)] /\ choices[b] \in Seq(Choice)
      /\ usage \in [Backend -> Choice] /\ usage[b].prompt \in Nat /\ usage[b].output \in Nat
      /\ prompts[b] \in Seq(Nat) /\ c \in Choice
  BY <1>1, <1>2 DEF TypeInv, Choice
<1> HIDE DEF c
<1>5. /\ choices'[b] = Append(choices[b], c) /\ out'[b] = 0 /\ ended'[b] = FALSE
      /\ usage'[b] = [prompt |-> usage[b].prompt + Length(b), output |-> usage[b].output + t]
  BY <1>1, <1>3 DEF TypeInv
<1>6. \A d \in Backend \ {b} :
        /\ choices'[d] = choices[d] /\ out'[d] = out[d] /\ ended'[d] = ended[d]
        /\ usage'[d] = usage[d]
  BY <1>1, <1>3 DEF TypeInv
<1>7. TypeInv'
  <2>1. choices' \in [Backend -> Seq(Choice)]
    BY <1>3, <1>4
  <2>2. usage' \in [Backend -> Choice]
    <3> DEFINE x == usage[b].prompt + Length(b)
               y == usage[b].output + t
    <3>0. x \in Nat /\ y \in Nat
      <4>1. usage[b].prompt \in Nat /\ usage[b].output \in Nat /\ Length(b) \in Nat
        BY <1>2, <1>4
      <4> QED
        BY <4>1
    <3> HIDE DEF x, y
    <3>1. [prompt |-> x, output |-> y] \in Choice
      BY <3>0 DEF Choice
    <3> USE DEF x, y
    <3> QED
      BY <1>3, <1>4, <3>1
  <2> QED
    BY <1>1, <1>3, <2>1, <2>2 DEF TypeInv
<1>8. Refusal' = Refusal /\ Wanted' = Wanted /\ Budget' = Budget
  BY <1>3 DEF Refusal, Wanted, Budget
<1>9. VerdictInv(b)'
  <2>1. phase[b] = "generating" /\ status[b] = 0 /\ Refusal = 0 /\ prompts[b] = Wanted
    BY <1>1 DEF BackendInv, VerdictInv
  <2> QED
    BY <1>3, <1>8, <2>1 DEF VerdictInv
<1>10. Len(choices'[b]) = k + 1 /\ choices'[b][k + 1] = c
       /\ \A i \in 1 .. k : choices'[b][i] = choices[b][i]
  BY <1>4, <1>5
<1>11. ChoicesInv(b)'
  <2>1. ASSUME NEW i \in 1 .. k + 1
        PROVE  /\ choices'[b][i].prompt = prompts[b][(i - 1) \div n + 1]
               /\ Sound(b, choices'[b][i])
    <3>1. CASE i = k + 1
      <4>1. choices'[b][i] = c /\ (i - 1) \div n = q
        <5>1. choices'[b][k + 1] = c
          BY <1>10
        <5>2. i - 1 = k
          BY <1>2, <3>1
        <5> QED
          BY <3>1, <5>1, <5>2
      <4>2. c.prompt = Length(b) /\ Sound(b, c)
        BY DEF c
      <4> QED
        BY <1>2, <4>1, <4>2
    <3>2. CASE i # k + 1
      <4>1. i \in 1 .. k /\ i \in DOMAIN choices[b]
        <5>1. DOMAIN choices[b] = 1 .. k /\ k \in Nat
          BY <1>4
        <5> HIDE DEF k
        <5>2. i \in 1 .. k
          BY <3>2, <5>1
        <5> QED
          BY <5>1, <5>2
      <4>2. choices'[b][i] = choices[b][i]
        BY <1>10, <4>1
      <4> QED
        BY <1>1, <4>1, <4>2 DEF BackendInv, ChoicesInv
    <3> QED
      BY <3>1, <3>2
  <2>2. DOMAIN choices'[b] = 1 .. k + 1
    BY <1>2, <1>4, <1>5
  <2>4. Len(choices'[b]) <= Len(prompts'[b]) * request'.n
    BY <1>2, <1>3, <1>10
  <2>5. request'.n = n /\ prompts'[b] = prompts[b]
    BY <1>3
  <2> HIDE DEF k, n
  <2> QED
    BY <1>8, <2>1, <2>2, <2>4, <2>5 DEF ChoicesInv, Sound
<1>12. OutInv(b)'
  BY <1>5 DEF OutInv
<1>13. UsageInv(b)'
  <2> DEFINE S == Sums(prompts[b])
             rest == IF r = 0 THEN 0 ELSE r * prompts[b][q + 1]
             q2 == (k + 1) \div n
             r2 == (k + 1) % n
             rest2 == IF r2 = 0 THEN 0 ELSE r2 * prompts[b][q2 + 1]
  <2>1. usage[b].prompt = n * S[q] + rest /\ usage[b].output = Total(Outputs(b))
    BY <1>1 DEF BackendInv, UsageInv
  <2>2. usage'[b].prompt = usage[b].prompt + Length(b) /\ usage'[b].output = usage[b].output + t
    BY <1>5
  <2>3. /\ S[q] \in Nat /\ S[q + 1] = S[q] + Length(b)
    <3>1. /\ S \in [0 .. l -> Nat]
          /\ \A i \in 0 .. l - 1 : S[i + 1] = S[i] + prompts[b][i + 1]
      BY <1>4, SumsEquation
    <3>2. q \in 0 .. l
      BY <1>2
    <3> HIDE DEF S, q, l
    <3> QED
      BY <1>2, <3>1, <3>2
  <2>4. r \in 0 .. n - 1
    BY <1>2, Division
  <2>5. IF r = n - 1 THEN q2 = q + 1 /\ r2 = 0 ELSE q2 = q /\ r2 = r + 1
    BY <1>2, NextTurn
  <2>6. (n * S[q] + rest) + Length(b) = n * S[q2] + rest2
    <3> DEFINE p == Length(b)
               v == S[q]
    <3>1. /\ p \in Nat /\ v \in Nat /\ n \in Nat \ {0} /\ S[q + 1] = v + p
          /\ prompts[b][q + 1] = p
      BY <1>2, <2>3
    <3>2. CASE r = n - 1
      <4>1. q2 = q + 1 /\ rest2 = 0 /\ S[q2] = v + p
        BY <2>5, <3>1, <3>2
      <4>2. rest = r * p
        BY <2>4, <3>1
      <4> HIDE DEF q2, rest2, rest, r, p, v, n, q, S
      <4>3. n * (v + p) = n * v + n * p /\ n * p = (r * p) + p
        BY <3>1, <3>2
      <4>4. (n * v + r * p) + p = n * (v + p) + 0
        BY <2>4, <3>1, <4>3
      <4> QED
        BY <4>1, <4>2, <4>4 DEF p, v
    <3>3. CASE r # n - 1
      <4>1. q2 = q /\ r2 = r + 1 /\ r2 # 0
        BY <2>4, <2>5, <3>3
      <4>2. rest = r * p /\ rest2 = (r + 1) * p
        BY <2>4, <3>1, <4>1
      <4> HIDE DEF q2, r2, rest2, rest, r, p, v, n, q, S
      <4>3. (r + 1) * p = (r * p) + p
        BY <2>4, <3>1
      <4>4. (n * v + r * p) + p = n * v + (r + 1) * p
        BY <2>4, <3>1, <4>3
      <4> QED
        BY <4>1, <4>2, <4>4 DEF p, v
    <3> QED
      BY <3>2, <3>3
  <2>7. usage'[b].prompt = n * S[q2] + rest2
    BY <2>1, <2>2, <2>6
  <2>8. usage'[b].output = Total(Outputs(b)')
    <3>1. Outputs(b) \in Seq(Nat)
      <4>2. DOMAIN choices[b] = 1 .. k /\ k \in Nat
        BY <1>4
      <4>0. \A i \in DOMAIN choices[b] : choices[b][i] \in Choice
        BY <1>4
      <4>1. \A i \in 1 .. k : choices[b][i].output \in Nat
        BY <4>0, <4>2 DEF Choice
      <4> HIDE DEF k
      <4> QED
        BY <4>1, <4>2 DEF Outputs
    <3>2. Outputs(b)' = Append(Outputs(b), t)
      <4>1. c.output = t
        BY DEF c
      <4>2. DOMAIN choices[b] = 1 .. k /\ DOMAIN choices'[b] = 1 .. k + 1 /\ k \in Nat
        BY <1>4, <1>5
      <4>3. Outputs(b) = [i \in 1 .. k |-> choices[b][i].output]
        BY <4>2 DEF Outputs
      <4>4. Outputs(b)' = [i \in 1 .. k + 1 |-> choices'[b][i].output]
        BY <4>2 DEF Outputs
      <4>5. Len(Outputs(b)) = k
        BY <4>2, <4>3
      <4> HIDE DEF k
      <4>6. Append(Outputs(b), t) = [i \in 1 .. k + 1 |-> IF i = k + 1 THEN t ELSE Outputs(b)[i]]
        <5> DEFINE s == Outputs(b)
        <5> HIDE DEF s
        <5>1. s \in Seq(Nat) /\ Len(s) = k
          BY <3>1, <4>5 DEF s
        <5> DEFINE a == Append(s, t)
        <5>2. a \in Seq(Nat) /\ Len(a) = k + 1 /\ a[k + 1] = t /\ \A i \in 1 .. k : a[i] = s[i]
          BY <5>1, AppendProperties
        <5> HIDE DEF a
        <5>3. a \in [1 .. k + 1 -> Nat]
          BY <5>2, LenProperties
        <5>4. \A i \in 1 .. k + 1 : a[i] = IF i = k + 1 THEN t ELSE s[i]
          BY <4>2, <5>2
        <5>5. a = [i \in 1 .. k + 1 |-> IF i = k + 1 THEN t ELSE s[i]]
          BY <5>3, <5>4, Zenon
        <5> QED
          BY <5>5 DEF a, s
      <4>7. \A i \in 1 .. k + 1 :
              choices'[b][i].output = IF i = k + 1 THEN t ELSE Outputs(b)[i]
        BY <1>10, <4>1, <4>2, <4>3
      <4> QED
        BY <4>4, <4>6, <4>7
    <3> QED
      BY <2>1, <2>2, <3>1, <3>2, TotalOfAppend
  <2>9. Len(choices'[b]) = k + 1 /\ request'.n = n /\ prompts'[b] = prompts[b]
    BY <1>3, <1>10
  <2> QED
    BY <2>7, <2>8, <2>9 DEF UsageInv
<1> QED
  BY <1>3, <1>6, <1>7, <1>9, <1>11, <1>12, <1>13 DEF StepKeeps, Untouched, BackendInv

\* server.py's generation stops at its end token or its limit.
LEMMA GPT2ReturnKeeps ==
  ASSUME IInv, GPT2Return
  PROVE  StepKeeps("server")
<1> DEFINE b == "server"
           p == Length(b)
           t == out[b]
<1>1. /\ TypeInv /\ b \in Backend /\ BackendInv(b) /\ phase[b] = "generating" /\ MoreToDo(b)
      /\ ended[b] \/ p + t >= Limit(p)
      /\ Choose(b, t) /\ UNCHANGED <<request, phase, prompts, status>>
  BY DEF IInv, Backend, GPT2Return
<1>2. /\ p \in Nat /\ t \in Nat /\ NPositions \in Nat \ {0} /\ Budget \in Nat \ {0}
      /\ ended[b] => t > 0
      /\ t > 0 => p > 0 /\ p + t <= Limit(p)
  BY <1>1, LengthFacts DEF TypeInv, BackendInv, OutInv
<1>3. Sound(b, [prompt |-> p, output |-> t])
  <2> HIDE DEF p, t, b
  <2>1. /\ p > 0 /\ t <= Budget
        /\ t > 0 => p + t <= NPositions
        /\ t = 0 <=> p >= NPositions
    <3>1. CASE t = 0
      BY <1>1, <1>2, <3>1 DEF Limit
    <3>2. CASE t > 0
      BY <1>2, <3>2 DEF Limit
    <3> QED
      BY <1>2, <3>1, <3>2
  <2> QED
    BY <2>1 DEF Sound
<1> HIDE DEF t, b
<1> QED
  BY <1>1, <1>2, <1>3, ChoiceKeeps DEF p, b

\* hf_server.py's is as long as the model pleases, or fails past the window.
LEMMA HFGenerateKeeps ==
  ASSUME IInv, HFGenerate
  PROVE  StepKeeps("hf_server")
<1> DEFINE b == "hf_server"
           p == Length(b)
<1>1. /\ TypeInv /\ b \in Backend /\ phase[b] = "generating" /\ MoreToDo(b)
      /\ UNCHANGED <<request, prompts>>
  BY DEF IInv, Backend, HFGenerate
<1>2. PICK t \in 1 .. Budget :
        IF HFCanGenerate(p, t)
          THEN Choose(b, t) /\ UNCHANGED <<phase, status>>
          ELSE Answer(b, 500) /\ UNCHANGED progress
  BY DEF HFGenerate
<1>3. p \in Nat /\ t \in Nat \ {0} /\ t <= Budget /\ NPositions \in Nat /\ Budget \in Nat
  <2>1. Length(b) \in Nat /\ NPositions \in Nat /\ Budget \in Nat
    BY <1>1, LengthFacts
  <2> HIDE DEF b
  <2> QED
    BY <1>2, <2>1
<1>4. CASE HFCanGenerate(p, t)
  <2>1. p > 0
    BY <1>3, <1>4 DEF HFCanGenerate
  <2>2. Sound(b, [prompt |-> p, output |-> t])
    BY <1>3, <2>1 DEF Sound
  <2>3. Choose(b, t) /\ UNCHANGED <<request, phase, prompts, status>>
    BY <1>1, <1>2, <1>4
  <2> HIDE DEF b
  <2> QED
    BY <1>1, <1>3, <2>2, <2>3, ChoiceKeeps DEF b
<1>5. CASE ~HFCanGenerate(p, t)
  <2>1. Answer(b, 500) /\ UNCHANGED <<request, prompts, progress>>
    BY <1>1, <1>2, <1>5
  <2>2. p = 0 \/ p + Budget > NPositions + 1
    <3> HIDE DEF p
    <3> QED
      BY <1>3, <1>5 DEF HFCanGenerate
  <2> QED
    BY <1>1, <2>1, <2>2, FailureKeeps
<1> QED
  BY <1>4, <1>5

-----------------------------------------------------------------------------
(* The theorems.                                                           *)

LEMMA NextIInv == IInv /\ [Next]_vars => IInv'
<1> SUFFICES ASSUME IInv, [Next]_vars
             PROVE  IInv'
  OBVIOUS
<1>1. ASSUME NEW b \in Backend, StepKeeps(b)
      PROVE  IInv'
  <2>1. TypeInv' /\ BackendInv(b)'
    BY <1>1 DEF StepKeeps
  <2>2. ASSUME NEW c \in Backend
        PROVE  BackendInv(c)'
    <3>1. CASE c = b
      BY <2>1, <3>1
    <3>2. CASE c # b
      <4>1. BackendInv(c) /\ Untouched(c)
        BY <1>1, <3>2 DEF StepKeeps, IInv
      <4> QED
        BY <4>1, UntouchedKeeps
    <3> QED
      BY <3>1, <3>2
  <2> QED
    BY <2>1, <2>2 DEF IInv
<1>2. "server" \in Backend /\ "hf_server" \in Backend
  BY DEF Backend
<1>3. CASE GPT2Token
  BY <1>1, <1>2, <1>3, TokenKeeps
<1>4. CASE GPT2Return
  BY <1>1, <1>2, <1>4, GPT2ReturnKeeps
<1>5. CASE HFGenerate
  BY <1>1, <1>2, <1>5, HFGenerateKeeps
<1>6. ASSUME NEW b \in Backend, Respond(b) \/ Complete(b)
      PROVE  IInv'
  BY <1>1, <1>6, DecisionKeeps
<1>7. ASSUME NEW b \in Backend, Return(b)
      PROVE  IInv'
  BY <1>1, <1>7, ReturnKeeps
<1>8. CASE UNCHANGED vars
  <2>1. TypeInv'
    BY <1>8 DEF IInv, TypeInv, vars, progress
  <2>2. ASSUME NEW c \in Backend
        PROVE  BackendInv(c)'
    <3>1. BackendInv(c) /\ Untouched(c)
      BY <1>8 DEF IInv, Untouched, vars, progress
    <3> QED
      BY <3>1, UntouchedKeeps
  <2> QED
    BY <2>1, <2>2 DEF IInv
<1> QED
  BY <1>3, <1>4, <1>5, <1>6, <1>7, <1>8 DEF Next

\* The invariant holds of whatever one body sent to both servers leads to.
THEOREM InductiveInvariant == Spec => []IInv
<1> QED
  BY InitIInv, NextIInv, PTL DEF Spec

\* A client gets no more tokens than it asked for, server.py stays within the
\* window, and it answers with none exactly when the prompt leaves no room
\* (model.py:108, 124).
THEOREM BudgetRespected == Spec => []BudgetKept
<1>1. ASSUME IInv
      PROVE  BudgetKept
  BY <1>1 DEF IInv, BackendInv, ChoicesInv, Sound, BudgetKept
<1> QED
  BY <1>1, InductiveInvariant, PTL

\* The usage an answer reports is the sum over its choices, and they are `n` to
\* each prompt, in the order of the prompts (server.py:277-295, hf_server.py:179-197).
THEOREM UsageIsTheSum == Spec => []UsageAddsUp
<1>1. ASSUME IInv
      PROVE  UsageAddsUp
  <2> SUFFICES ASSUME NEW b \in Backend, Ok(b)
               PROVE  LET n == request.n
                      IN  /\ Len(choices[b]) = n * Len(prompts[b])
                          /\ \A i \in DOMAIN choices[b] :
                               choices[b][i].prompt = prompts[b][(i + n - 1) \div n]
                          /\ usage[b].prompt = n * Total(prompts[b])
                          /\ usage[b].output = Total(Outputs(b))
    BY DEF UsageAddsUp
  <2> DEFINE n == request.n
             k == Len(choices[b])
             l == Len(prompts[b])
             u == usage[b].prompt
             S == Sums(prompts[b])
  <2>1. /\ k \in Nat /\ l \in Nat /\ n \in Nat \ {0}
        /\ prompts[b] \in Seq(Nat) /\ choices[b] \in Seq(Choice)
    BY <1>1, RequestFacts DEF IInv, TypeInv
  <2>2. BackendInv(b) /\ k = l * n
    BY <1>1 DEF IInv, BackendInv, VerdictInv, Ok
  <2>3. k \div n = l /\ k % n = 0
    <3> HIDE DEF k, l, n
    <3>1. k = (n * l) + 0 /\ 0 \in 0 .. n - 1
      BY <2>1, <2>2
    <3> QED
      BY <2>1, <3>1, DivisionUnique
  <2>4. u = n * Total(prompts[b])
    <3>1. u = n * S[l] + 0
      BY <2>2, <2>3 DEF BackendInv, UsageInv
    <3>2. S[l] \in Nat
      <4>1. S \in [0 .. l -> Nat] /\ l \in 0 .. l
        BY <2>1, SumsEquation
      <4> QED
        BY <4>1
    <3> HIDE DEF n, u, S, l
    <3>3. u = n * S[l]
      BY <2>1, <3>1, <3>2
    <3> QED
      BY <3>3 DEF Total, S, l
  <2>5. ASSUME NEW i \in DOMAIN choices[b]
        PROVE  choices[b][i].prompt = prompts[b][(i + n - 1) \div n]
    <3>1. i \in Nat \ {0} /\ choices[b][i].prompt = prompts[b][(i - 1) \div n + 1]
      BY <2>1, <2>2 DEF BackendInv, ChoicesInv
    <3> DEFINE q == (i - 1) \div n
               r == (i - 1) % n
    <3> HIDE DEF n
    <3>2. q \in Nat /\ r \in 0 .. n - 1 /\ i - 1 = (n * q) + r
      <4>1. i - 1 \in Nat
        BY <3>1
      <4> QED
        BY <2>1, <4>1, Division
    <3> HIDE DEF q, r
    <3>3. i + n - 1 = (n * (q + 1)) + r /\ q + 1 \in Nat /\ i + n - 1 \in Nat
      BY <2>1, <3>1, <3>2
    <3>4. (i + n - 1) \div n = q + 1
      BY <2>1, <3>2, <3>3, DivisionUnique
    <3> QED
      BY <3>1, <3>4 DEF q, n
  <2>6. k = n * l
    <3> HIDE DEF k, l, n
    <3> QED
      BY <2>1, <2>2
  <2>7. usage[b].output = Total(Outputs(b))
    BY <2>2 DEF BackendInv, UsageInv
  <2> QED
    BY <2>4, <2>5, <2>6, <2>7
<1> QED
  BY <1>1, InductiveInvariant, PTL

\* An answer without a failure has a choice for each prompt, which has tokens then.
LEMMA EveryPromptHasTokens ==
  ASSUME TypeInv, NEW b \in Backend, BackendInv(b), status[b] = 200,
         NEW j \in DOMAIN prompts[b]
  PROVE  prompts[b][j] # 0
<1> DEFINE n == request.n
           l == Len(prompts[b])
           i == (n * (j - 1)) + 1
<1>1. /\ l \in Nat /\ n \in Nat \ {0} /\ DOMAIN prompts[b] = 1 .. l
      /\ DOMAIN choices[b] = 1 .. Len(choices[b])
  BY RequestFacts DEF TypeInv
<1>2. /\ Len(choices[b]) = l * n
      /\ \A x \in DOMAIN choices[b] :
           choices[b][x].prompt = prompts[b][(x - 1) \div n + 1] /\ choices[b][x].prompt > 0
  BY DEF BackendInv, VerdictInv, ChoicesInv, Sound
<1> HIDE DEF n, l
<1>3. j \in 1 .. l
  BY <1>1
<1>4. i \in 1 .. l * n
  <2>1. j - 1 \in Nat /\ n * (j - 1) \in Nat
    BY <1>1, <1>3
  <2>2. n * (j - 1) = (n * j) - n /\ n * j <= n * l /\ n * l = l * n
    BY <1>1, <1>3
  <2> HIDE DEF i
  <2>3. l * n \in Nat /\ n * j \in Nat
    BY <1>1, <1>3
  <2> QED
    BY <1>1, <2>1, <2>2, <2>3 DEF i
<1>5. (i - 1) \div n = j - 1
  <2>1. i - 1 = (n * (j - 1)) + 0 /\ i - 1 \in Nat /\ j - 1 \in Nat /\ 0 \in 0 .. n - 1
    BY <1>1, <1>3
  <2> HIDE DEF i
  <2> QED
    BY <1>1, <2>1, DivisionUnique
<1> HIDE DEF i
<1>6. i \in DOMAIN choices[b] /\ (j - 1) + 1 = j
  BY <1>1, <1>2, <1>3, <1>4
<1>7. choices[b][i].prompt = prompts[b][j] /\ choices[b][i].prompt > 0
  BY <1>2, <1>5, <1>6
<1> QED
  BY <1>7

\* README.md, "Both servers expose the same endpoints": the two servers answer one
\* body alike, except that hf_server.py fails where server.py stops at the window.
THEOREM VerdictsAgree == Spec => []SameVerdict
<1>1. ASSUME IInv
      PROVE  SameVerdict
  <2> SUFFICES ASSUME \A b \in Backend : phase[b] = "answered"
               PROVE  \/ status["server"] = status["hf_server"]
                      \/ /\ status["server"] = 200 /\ status["hf_server"] = 500
                         /\ \E i \in DOMAIN prompts["server"] :
                              prompts["server"][i] + Budget > NPositions + 1
    BY DEF SameVerdict
  <2> DEFINE s == "server"
             h == "hf_server"
  <2>1. /\ s \in Backend /\ h \in Backend /\ BackendInv(s) /\ BackendInv(h)
        /\ phase[s] = "answered" /\ phase[h] = "answered" /\ TypeInv
    BY <1>1 DEF IInv, Backend
  <2>2. CASE Refusal # 0
    BY <2>1, <2>2 DEF BackendInv, VerdictInv
  <2>3. CASE Refusal = 0
    <3>1. /\ prompts[s] = Wanted /\ prompts[h] = Wanted
          /\ status[s] \in {200, 500} /\ status[h] \in {200, 500}
      BY <2>1, <2>3 DEF BackendInv, VerdictInv
    <3>2. CASE status[s] = 500
      <4>1. PICK j \in DOMAIN prompts[s] : prompts[s][j] = 0
        BY <2>1, <3>2 DEF BackendInv, VerdictInv
      <4>2. status[h] # 200
        BY <2>1, <3>1, <4>1, EveryPromptHasTokens
      <4> QED
        BY <3>1, <3>2, <4>2
    <3>3. CASE status[s] = 200 /\ status[h] = 500
      <4>1. PICK i \in DOMAIN prompts[h] :
              prompts[h][i] = 0 \/ prompts[h][i] + Budget > NPositions + 1
        BY <2>1, <3>3 DEF BackendInv, VerdictInv
      <4>2. prompts[h][i] # 0
        BY <2>1, <3>1, <3>3, <4>1, EveryPromptHasTokens
      <4> QED
        BY <3>1, <3>3, <4>1, <4>2
    <3> QED
      BY <3>1, <3>2, <3>3
  <2> QED
    BY <2>2, <2>3
<1> QED
  BY <1>1, InductiveInvariant, PTL

=============================================================================
