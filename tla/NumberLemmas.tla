---------------------------- MODULE NumberLemmas ----------------------------
(***************************************************************************)
(* Induction, recursion and division, for the proofs of the components.    *)
(*                                                                         *)
(* Induction is over a set of numbers, not over a formula: if a statement  *)
(* fails for some number, the set of those it fails for has a least one.   *)
(***************************************************************************)
EXTENDS Integers, WellFoundedInduction, TLAPS

LEMMA LeastNumber ==
  ASSUME NEW T \in SUBSET Nat, T # {}
  PROVE  \E n \in T : \A m \in T : n <= m
<1>1. PICK n \in T : \A m \in T : <<m, n>> \notin OpToRel(<, Nat)
  BY WFMin, NatLessThanWellFounded, Zenon
<1>2. ASSUME NEW m \in T PROVE n <= m
  <2>1. m \in Nat /\ n \in Nat
    OBVIOUS
  <2>2. m < n => <<m, n>> \in OpToRel(<, Nat)
    BY <2>1, Zenon DEF OpToRel
  <2>3. ~(m < n)
    BY <1>1, <2>2, Zenon
  <2> QED
    BY <2>1, <2>3
<1> QED
  BY <1>2

\* Induction over 0 .. n, for the set of the numbers that have the property.
LEMMA Induction ==
  ASSUME NEW n \in Nat, NEW P, 0 \in P,
         \A i \in 0 .. n - 1 : i \in P => i + 1 \in P
  PROVE  0 .. n \subseteq P
<1> SUFFICES ASSUME ~(0 .. n \subseteq P)
             PROVE  FALSE
  OBVIOUS
<1> DEFINE T == {i \in 0 .. n : i \notin P}
<1>1. T \in SUBSET Nat /\ T # {}
  OBVIOUS
<1>2. PICK m \in T : \A k \in T : m <= k
  BY <1>1, LeastNumber, Zenon
<1>3. m \in Nat /\ m <= n /\ m \notin P /\ m # 0
  OBVIOUS
<1>4. m - 1 \in 0 .. n - 1 /\ m - 1 \in P
  BY <1>2, <1>3
<1>5. (m - 1) + 1 \in P
  BY <1>4
<1> QED
  BY <1>3, <1>5

-----------------------------------------------------------------------------
(* Recursive functions: that the equations of the model's have solutions.  *)

Iterates(f, n, s, F) == f[0] = s /\ \A i \in 0 .. n - 1 : f[i + 1] = F[i][f[i]]

LEMMA Recursion ==
  ASSUME NEW n \in Nat, NEW S, NEW s \in S, NEW F \in [0 .. n - 1 -> [S -> S]]
  PROVE  \E f \in [0 .. n -> S] : Iterates(f, n, s, F)
<1> USE DEF Iterates
<1> DEFINE Solves(f, m) == Iterates(f, m, s, F)
           P == {m \in Nat : \E f \in [0 .. m -> S] : Solves(f, m)}
<1>1. 0 \in P
  <2>1. Solves([i \in 0 .. 0 |-> s], 0)
    OBVIOUS
  <2>2. [i \in 0 .. 0 |-> s] \in [0 .. 0 -> S]
    OBVIOUS
  <2> QED
    BY <2>1, <2>2
<1>2. ASSUME NEW m \in 0 .. n - 1, m \in P
      PROVE  m + 1 \in P
  <2> m \in Nat
    OBVIOUS
  <2>1. PICK f \in [0 .. m -> S] : Solves(f, m)
    BY <1>2
  <2> DEFINE g == [i \in 0 .. m + 1 |-> IF i = m + 1 THEN F[m][f[m]] ELSE f[i]]
  <2>2. g \in [0 .. m + 1 -> S]
    <3>1. F[m][f[m]] \in S
      OBVIOUS
    <3> QED
      BY <3>1
  <2>3. Solves(g, m + 1)
    <3>1. g[0] = s
      BY <2>1
    <3>2. ASSUME NEW i \in 0 .. m
          PROVE  g[i + 1] = F[i][g[i]]
      <4>1. g[i] = f[i]
        OBVIOUS
      <4>2. CASE i = m
        BY <4>1, <4>2
      <4>3. CASE i # m
        <5>1. i \in 0 .. m - 1 /\ g[i + 1] = f[i + 1]
          BY <4>3
        <5> QED
          BY <2>1, <4>1, <5>1
      <4> QED
        BY <4>2, <4>3
    <3>3. (m + 1) - 1 = m
      OBVIOUS
    <3> QED
      BY <3>1, <3>2, <3>3
  <2>4. m + 1 \in Nat
    OBVIOUS
  <2> HIDE DEF Solves, g
  <2> QED
    BY <2>2, <2>3, <2>4
<1>3. 0 .. n \subseteq P
  <2> HIDE DEF P
  <2> QED
    BY <1>1, <1>2, Induction
<1>4. n \in P
  <2>1. n \in 0 .. n
    OBVIOUS
  <2> HIDE DEF P
  <2> QED
    BY <1>3, <2>1
<1> QED
  BY <1>4

-----------------------------------------------------------------------------
(* Division.                                                               *)

LEMMA Division ==
  ASSUME NEW w \in Nat, NEW p \in Nat \ {0}
  PROVE  /\ w \div p \in Nat
         /\ w % p \in 0 .. p - 1
         /\ w = (p * (w \div p)) + (w % p)
         /\ w \div (2 * p) = (w \div p) \div 2
  OBVIOUS

LEMMA DivisionUnique ==
  ASSUME NEW w \in Nat, NEW p \in Nat \ {0}, NEW q \in Nat, NEW r \in 0 .. p - 1,
         w = (p * q) + r
  PROVE  w \div p = q /\ w % p = r
  OBVIOUS

=============================================================================
