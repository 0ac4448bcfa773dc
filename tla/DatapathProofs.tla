--------------------------- MODULE DatapathProofs ---------------------------
(***************************************************************************)
(* Proofs about Datapath for every width of a word.                        *)
(***************************************************************************)
EXTENDS Datapath, NumberLemmas, FiniteSetTheorems, TLAPS

-----------------------------------------------------------------------------
(* Powers of two: 2^n counts the subsets of 1 .. n.                        *)

LEMMA HalfPowerset ==
  ASSUME NEW n \in Nat
  PROVE  Cardinality(SUBSET (1 .. n + 1)) = 2 * Cardinality(SUBSET (1 .. n))
<1> DEFINE A == SUBSET (1 .. n)
           B == {X \in SUBSET (1 .. n + 1) : n + 1 \in X}
<1>1. IsFiniteSet(1 .. n + 1) /\ IsFiniteSet(1 .. n)
  BY FS_Interval
<1>2. IsFiniteSet(A) /\ IsFiniteSet(SUBSET (1 .. n + 1))
  BY <1>1, FS_SUBSET
<1>3. IsFiniteSet(B)
  BY <1>2, FS_Subset
<1>4. A \cap B = {} /\ A \cup B = SUBSET (1 .. n + 1)
  OBVIOUS
<1>5. ExistsBijection(A, B)
  <2> DEFINE f == [X \in A |-> X \cup {n + 1}]
  <2>1. \A X \in A : X \cup {n + 1} \in B
    OBVIOUS
  <2>2. \A X, Y \in A : X \cup {n + 1} = Y \cup {n + 1} => X = Y
    OBVIOUS
  <2>3. \A Y \in B : Y \ {n + 1} \in A /\ (Y \ {n + 1}) \cup {n + 1} = Y
    OBVIOUS
  <2>4. f \in Injection(A, B)
    BY <2>1, <2>2 DEF Injection, IsInjective
  <2>5. f \in Surjection(A, B)
    BY <2>1, <2>3 DEF Surjection
  <2> QED
    BY <2>4, <2>5 DEF ExistsBijection, Bijection
<1>6. Cardinality(B) = Cardinality(A)
  BY <1>2, <1>5, FS_Bijection
<1>7. Cardinality(A \cup B) = Cardinality(A) + Cardinality(B) - Cardinality(A \cap B)
  BY <1>2, <1>3, FS_Union
<1>8. Cardinality(A) \in Nat
  BY <1>2, FS_CardinalityType
<1> HIDE DEF A, B
<1>9. Cardinality(A \cap B) = 0
  BY <1>4, FS_EmptySet, Zenon
<1>10. Cardinality(A \cup B) = 2 * Cardinality(A)
  BY <1>6, <1>7, <1>8, <1>9
<1> QED
  BY <1>4, <1>10 DEF A

LEMMA PowerCounts ==
  ASSUME NEW n \in Nat
  PROVE  2^n = Cardinality(SUBSET (1 .. n)) /\ 2^n \in Nat
<1>1. IsFiniteSet(1 .. n) /\ Cardinality(1 .. n) = n
  BY FS_Interval
<1>2. Cardinality(SUBSET (1 .. n)) = 2^n /\ IsFiniteSet(SUBSET (1 .. n))
  BY <1>1, FS_SUBSET, Zenon
<1> QED
  BY <1>2, FS_CardinalityType

LEMMA PowerOfSuccessor ==
  ASSUME NEW n \in Nat
  PROVE  2^(n + 1) = 2 * 2^n
<1>1. 2^(n + 1) = Cardinality(SUBSET (1 .. n + 1))
  <2>1. n + 1 \in Nat
    OBVIOUS
  <2> QED
    BY <2>1, PowerCounts
<1>2. 2^n = Cardinality(SUBSET (1 .. n))
  BY PowerCounts
<1> QED
  BY <1>1, <1>2, HalfPowerset

LEMMA PowerPositive ==
  ASSUME NEW n \in Nat
  PROVE  2^n \in Nat \ {0} /\ 2^n > n
<1> DEFINE P == {i \in Nat : 2^i > i}
<1>1. 0 \in P
  OBVIOUS
<1>2. ASSUME NEW i \in 0 .. n - 1, i \in P
      PROVE  i + 1 \in P
  <2> i \in Nat
    OBVIOUS
  <2>1. 2^i \in Nat /\ 2^(i + 1) = 2 * 2^i
    BY PowerOfSuccessor, PowerCounts
  <2> QED
    BY <1>2, <2>1
<1>3. 0 .. n \subseteq P
  <2> HIDE DEF P
  <2> QED
    BY <1>1, <1>2, Induction
<1>4. n \in P
  BY <1>3
<1> QED
  BY <1>4, PowerCounts

LEMMA PowerOfSum ==
  ASSUME NEW m \in Nat, NEW n \in Nat
  PROVE  2^(m + n) = 2^m * 2^n
<1> DEFINE P == {i \in Nat : 2^(m + i) = 2^m * 2^i}
<1>1. 0 \in P
  BY PowerCounts
<1>2. ASSUME NEW i \in 0 .. n - 1, i \in P
      PROVE  i + 1 \in P
  <2> i \in Nat
    OBVIOUS
  <2>1. 2^i \in Nat /\ 2^(i + 1) = 2 * 2^i /\ 2^m \in Nat
    BY PowerOfSuccessor, PowerCounts
  <2>2. m + (i + 1) = (m + i) + 1 /\ m + i \in Nat
    OBVIOUS
  <2>3. 2^(m + (i + 1)) = 2 * 2^(m + i)
    BY <2>2, PowerOfSuccessor
  <2>4. 2^(m + i) = 2^m * 2^i
    BY <1>2
  <2>5. 2 * (2^m * 2^i) = 2^m * (2 * 2^i)
    BY <2>1
  <2> QED
    BY <2>1, <2>3, <2>4, <2>5
<1>3. 0 .. n \subseteq P
  <2> HIDE DEF P
  <2> QED
    BY <1>1, <1>2, Induction
<1> QED
  BY <1>3

-----------------------------------------------------------------------------
(* The numbers that bits make.                                             *)

\* What wires carry, bit by bit.
Bits == [0 .. WordBits - 1 -> 0 .. 1]

LEMMA LowBitsEquation ==
  ASSUME NEW b \in Bits
  PROVE  /\ LowBits(b) \in [0 .. WordBits -> Nat]
         /\ LowBits(b)[0] = 0
         /\ \A i \in 0 .. WordBits - 1 :
              LowBits(b)[i + 1] = LowBits(b)[i] + b[i] * 2^i
<1> USE DatapathAssumption DEF Bits
<1> DEFINE F == [i \in 0 .. WordBits - 1 |-> [v \in Nat |-> v + b[i] * 2^i]]
           G(g) == g = [i \in 0 .. WordBits |->
                          IF i = 0 THEN 0 ELSE g[i - 1] + b[i - 1] * 2^(i - 1)]
<1>1. ASSUME NEW i \in 0 .. WordBits - 1
      PROVE  2^i \in Nat /\ b[i] * 2^i \in Nat
  <2>1. i \in Nat
    OBVIOUS
  <2>2. 2^i \in Nat
    BY <2>1, PowerCounts
  <2> QED
    BY <2>2
<1>2. F \in [0 .. WordBits - 1 -> [Nat -> Nat]]
  BY <1>1
<1>3. PICK f \in [0 .. WordBits -> Nat] : Iterates(f, WordBits, 0, F)
  <2>1. WordBits \in Nat /\ 0 \in Nat
    OBVIOUS
  <2> HIDE DEF F
  <2> QED
    BY <1>2, <2>1, Recursion, Zenon
<1>4. G(f)
  <2>1. ASSUME NEW i \in 0 .. WordBits, i # 0
        PROVE  f[i] = f[i - 1] + b[i - 1] * 2^(i - 1)
    <3>1. i - 1 \in 0 .. WordBits - 1 /\ (i - 1) + 1 = i
      BY <2>1
    <3>2. f[i] = F[i - 1][f[i - 1]]
      BY <1>3, <3>1 DEF Iterates
    <3> QED
      BY <3>1, <3>2
  <2> QED
    BY <1>3, <2>1 DEF Iterates
<1>5. G(LowBits(b))
  <2>1. LowBits(b) = CHOOSE g : G(g)
    BY DEF LowBits
  <2> HIDE DEF G
  <2> QED
    BY <1>4, <2>1
<1> DEFINE g == LowBits(b)
<1> HIDE DEF g
<1>6. G(g)
  BY <1>5 DEF g
<1>7. g[0] = 0
  BY <1>6
<1>8. ASSUME NEW i \in 0 .. WordBits - 1
      PROVE  g[i + 1] = g[i] + b[i] * 2^i
  <2>1. i + 1 \in 0 .. WordBits /\ i + 1 # 0 /\ (i + 1) - 1 = i
    OBVIOUS
  <2> QED
    BY <1>6, <2>1
<1>9. 0 .. WordBits \subseteq {i \in 0 .. WordBits : g[i] \in Nat}
  <2> DEFINE P == {i \in 0 .. WordBits : g[i] \in Nat}
  <2>1. 0 \in P
    BY <1>7
  <2>2. ASSUME NEW i \in 0 .. WordBits - 1, i \in P
        PROVE  i + 1 \in P
    <3>1. g[i] \in Nat /\ i + 1 \in 0 .. WordBits
      BY <2>2
    <3>2. b[i] * 2^i \in Nat
      BY <1>1, <2>2
    <3>3. g[i + 1] \in Nat
      BY <1>8, <2>2, <3>1, <3>2
    <3> QED
      BY <3>1, <3>3
  <2> HIDE DEF P
  <2>3. 0 .. WordBits \subseteq P
    BY <2>1, <2>2, Induction
  <2> QED
    BY <2>3 DEF P
<1>10. g \in [0 .. WordBits -> Nat]
  <2>1. g = [i \in 0 .. WordBits |-> g[i]]
    BY <1>6
  <2> QED
    BY <1>9, <2>1
<1> QED
  BY <1>7, <1>8, <1>10 DEF g

-----------------------------------------------------------------------------
(* Words and their bits.                                                   *)

LEMMA WidthType == WordBits \in Nat /\ WordBits # 0 /\ 2^WordBits \in Nat \ {0}
  BY DatapathAssumption, PowerPositive

LEMMA BitType ==
  ASSUME NEW w \in Nat, NEW i \in Nat
  PROVE  Bit(w, i) \in 0 .. 1 /\ w \div 2^i = (2 * (w \div 2^(i + 1))) + Bit(w, i)
<1>1. 2^i \in Nat \ {0} /\ 2^(i + 1) = 2 * 2^i
  BY PowerPositive, PowerOfSuccessor
<1> DEFINE p == 2^i
           q == w \div p
<1>2. p \in Nat \ {0} /\ Bit(w, i) = q % 2 /\ w \div 2^(i + 1) = w \div (2 * p)
  BY <1>1 DEF Bit
<1> HIDE DEF p
<1>3. q \in Nat /\ w \div (2 * p) = q \div 2
  BY <1>2, Division
<1> HIDE DEF q
<1>4. q = (2 * (q \div 2)) + (q % 2) /\ q % 2 \in 0 .. 1
  BY <1>3, Division
<1> QED
  BY <1>2, <1>3, <1>4 DEF q, p

LEMMA LowBitsBound ==
  ASSUME NEW b \in Bits, NEW n \in 0 .. WordBits
  PROVE  LowBits(b)[n] \in Nat /\ LowBits(b)[n] < 2^n
<1> DEFINE v == LowBits(b)
           P == {i \in 0 .. WordBits : v[i] < 2^i}
<1> HIDE DEF v
<1>1. /\ v \in [0 .. WordBits -> Nat] /\ v[0] = 0
      /\ \A i \in 0 .. WordBits - 1 : v[i + 1] = v[i] + b[i] * 2^i
  BY LowBitsEquation DEF v
<1>2. 0 \in P
  BY <1>1, WidthType
<1>3. ASSUME NEW i \in 0 .. WordBits - 1, i \in P
      PROVE  i + 1 \in P
  <2>1. i \in Nat /\ i \in 0 .. WordBits /\ i + 1 \in 0 .. WordBits
    BY WidthType
  <2>2. 2^i \in Nat /\ 2^(i + 1) = 2 * 2^i
    BY <2>1, PowerOfSuccessor, PowerCounts
  <2>3. v[i] < 2^i /\ v[i] \in Nat
    BY <1>1, <1>3, <2>1
  <2>4. b[i] * 2^i \in {0, 2^i}
    BY <2>2 DEF Bits
  <2>5. v[i + 1] < 2^(i + 1)
    BY <1>1, <2>2, <2>3, <2>4
  <2> QED
    BY <2>1, <2>5
<1>4. 0 .. WordBits \subseteq P
  <2> HIDE DEF P
  <2> QED
    BY <1>2, <1>3, WidthType, Induction
<1> QED
  BY <1>1, <1>4 DEF v

LEMMA FromBitsType ==
  ASSUME NEW b \in Bits
  PROVE  FromBits(b) \in Word
<1>1. WordBits \in 0 .. WordBits
  BY WidthType
<1> QED
  BY <1>1, WidthType, LowBitsBound DEF FromBits, Word

\* The bits above the low n make a multiple of 2^n.
LEMMA HighBits ==
  ASSUME NEW b \in Bits, NEW n \in 0 .. WordBits
  PROVE  \E h \in Nat : FromBits(b) = LowBits(b)[n] + 2^n * h
<1> DEFINE v == LowBits(b)
           N(k) == WordBits - k
           P == {k \in 0 .. WordBits : \E h \in Nat : v[WordBits] = v[N(k)] + 2^N(k) * h}
<1> HIDE DEF v
<1>1. /\ v \in [0 .. WordBits -> Nat] /\ v[0] = 0
      /\ \A i \in 0 .. WordBits - 1 : v[i + 1] = v[i] + b[i] * 2^i
  BY LowBitsEquation DEF v
<1>2. 0 \in P
  <2>1. N(0) = WordBits /\ v[WordBits] = v[WordBits] + 2^WordBits * 0
    BY <1>1, WidthType
  <2> QED
    BY <2>1, WidthType
<1>3. ASSUME NEW k \in 0 .. WordBits - 1, k \in P
      PROVE  k + 1 \in P
  <2> DEFINE i == N(k + 1)
  <2>1. i \in Nat /\ i \in 0 .. WordBits - 1 /\ N(k) = i + 1 /\ k + 1 \in 0 .. WordBits
    BY WidthType
  <2>2. PICK h \in Nat : v[WordBits] = v[N(k)] + 2^N(k) * h
    BY <1>3
  <2> HIDE DEF N
  <2>3. 2^i \in Nat /\ 2^(i + 1) = 2 * 2^i
    BY <2>1, PowerOfSuccessor, PowerCounts
  <2>4. v[i + 1] = v[i] + b[i] * 2^i /\ v[i] \in Nat /\ b[i] \in 0 .. 1
    <3> HIDE DEF i
    <3>1. i \in 0 .. WordBits
      BY <2>1, WidthType
    <3> QED
      BY <1>1, <2>1, <3>1 DEF Bits
  <2>5. v[WordBits] = (v[i] + b[i] * 2^i) + (2 * 2^i) * h
    BY <2>1, <2>2, <2>3, <2>4
  <2>6. v[WordBits] = v[i] + 2^i * (b[i] + 2 * h) /\ b[i] + 2 * h \in Nat
    <3> DEFINE p == 2^i
    <3>1. p \in Nat /\ v[WordBits] = (v[i] + b[i] * p) + (2 * p) * h
      BY <2>3, <2>5
    <3> HIDE DEF p, i
    <3>2. (v[i] + b[i] * p) + (2 * p) * h = v[i] + p * (b[i] + 2 * h)
      BY <3>1, <2>4
    <3> QED
      BY <3>1, <3>2, <2>4 DEF p
  <2> QED
    BY <2>1, <2>6
<1>4. 0 .. WordBits \subseteq P
  <2> HIDE DEF P
  <2> QED
    BY <1>2, <1>3, WidthType, Induction
<1>5. WordBits - n \in P /\ N(WordBits - n) = n
  BY <1>4, WidthType
<1> QED
  BY <1>5 DEF v, FromBits

LEMMA BitOfFromBits ==
  ASSUME NEW b \in Bits, NEW i \in 0 .. WordBits - 1
  PROVE  Bit(FromBits(b), i) = b[i]
<1> DEFINE p == 2^i
           low == LowBits(b)[i]
           w == FromBits(b)
<1>1. i \in Nat /\ i \in 0 .. WordBits /\ i + 1 \in 0 .. WordBits /\ b[i] \in 0 .. 1
  BY WidthType DEF Bits
<1>2. p \in Nat \ {0} /\ 2^(i + 1) = 2 * p
  BY <1>1, PowerPositive, PowerOfSuccessor
<1>3. low \in 0 .. p - 1
  BY <1>1, <1>2, LowBitsBound
<1>4. LowBits(b)[i + 1] = low + b[i] * p
  BY LowBitsEquation
<1>5. PICK h \in Nat : w = LowBits(b)[i + 1] + 2^(i + 1) * h
  BY <1>1, HighBits
<1>6. w = (low + b[i] * p) + (2 * p) * h
  BY <1>2, <1>4, <1>5
<1>7. w \in Nat
  BY FromBitsType, WidthType DEF Word
<1>8. Bit(w, i) = (w \div p) % 2
  BY DEF Bit
<1> HIDE DEF p, low, w
<1>9. w = (p * (b[i] + 2 * h)) + low
  BY <1>1, <1>2, <1>3, <1>6
<1>10. w \div p = b[i] + 2 * h
  <2>1. b[i] + 2 * h \in Nat
    BY <1>1
  <2> QED
    BY <1>2, <1>3, <1>7, <1>9, <2>1, DivisionUnique
<1>11. (b[i] + 2 * h) % 2 = b[i]
  BY <1>1
<1> QED
  BY <1>8, <1>10, <1>11 DEF w

\* The bits of a number.
BitsOf(w) == [i \in 0 .. WordBits - 1 |-> Bit(w, i)]

LEMMA BitsOfType ==
  ASSUME NEW w \in Nat
  PROVE  BitsOf(w) \in Bits
<1>1. ASSUME NEW i \in 0 .. WordBits - 1
      PROVE  Bit(w, i) \in 0 .. 1
  <2>1. i \in Nat
    BY WidthType
  <2> QED
    BY <2>1, BitType
<1> QED
  BY <1>1 DEF BitsOf, Bits

LEMMA LowBitsOfNumber ==
  ASSUME NEW w \in Nat, NEW n \in 0 .. WordBits
  PROVE  w = LowBits(BitsOf(w))[n] + 2^n * (w \div 2^n)
<1> DEFINE b == BitsOf(w)
           v == LowBits(b)
           P == {i \in 0 .. WordBits : w = v[i] + 2^i * (w \div 2^i)}
<1> HIDE DEF b, v
<1>1. /\ v \in [0 .. WordBits -> Nat] /\ v[0] = 0
      /\ \A i \in 0 .. WordBits - 1 : v[i + 1] = v[i] + b[i] * 2^i
  BY LowBitsEquation, BitsOfType DEF v, b
<1>2. 0 \in P
  <2>1. w \div 2^0 = w
    BY PowerCounts
  <2> QED
    BY <1>1, <2>1, WidthType
<1>3. ASSUME NEW i \in 0 .. WordBits - 1, i \in P
      PROVE  i + 1 \in P
  <2>1. i \in Nat /\ i \in 0 .. WordBits /\ i + 1 \in 0 .. WordBits /\ i + 1 \in Nat
    BY WidthType
  <2>2. 2^i \in Nat \ {0} /\ 2^(i + 1) = 2 * 2^i /\ 2^(i + 1) \in Nat \ {0}
    BY <2>1, PowerOfSuccessor, PowerPositive
  <2>3. b[i] = Bit(w, i)
    BY DEF b, BitsOf
  <2> DEFINE p == 2^i
             q == w \div 2^(i + 1)
             d == w \div 2^i
  <2>4. p \in Nat /\ q \in Nat /\ d \in Nat
    BY <2>2, Division
  <2>5. d = (2 * q) + b[i] /\ b[i] \in 0 .. 1
    BY <2>1, <2>3, BitType
  <2>6. w = v[i] + p * d /\ v[i] \in Nat
    BY <1>1, <1>3, <2>1
  <2>7. v[i + 1] = v[i] + b[i] * p
    BY <1>1
  <2>8. w = v[i + 1] + (2 * p) * q
    <3> HIDE DEF p, q, d
    <3>1. p * d = b[i] * p + (2 * p) * q
      BY <2>4, <2>5
    <3> QED
      BY <2>4, <2>5, <2>6, <2>7, <3>1
  <2>9. w = v[i + 1] + 2^(i + 1) * (w \div 2^(i + 1))
    BY <2>2, <2>8
  <2> QED
    BY <2>1, <2>9
<1>4. 0 .. WordBits \subseteq P
  <2> HIDE DEF P
  <2> QED
    BY <1>2, <1>3, WidthType, Induction
<1> QED
  BY <1>4 DEF v, b

\* A word is the number its bits make.
LEMMA FromBitsOfWord ==
  ASSUME NEW w \in Word
  PROVE  FromBits(BitsOf(w)) = w
<1>1. w \in Nat /\ w < 2^WordBits /\ WordBits \in 0 .. WordBits
  BY WidthType DEF Word
<1>2. w \div 2^WordBits = 0
  <2>1. w = (2^WordBits * 0) + w /\ w \in 0 .. 2^WordBits - 1
    BY <1>1, WidthType
  <2> QED
    BY <1>1, <2>1, WidthType, DivisionUnique
<1>3. w = LowBits(BitsOf(w))[WordBits] + 2^WordBits * 0
  BY <1>1, <1>2, LowBitsOfNumber
<1>4. LowBits(BitsOf(w))[WordBits] \in Nat
  BY <1>1, BitsOfType, LowBitsBound
<1> QED
  BY <1>3, <1>4, WidthType DEF FromBits

-----------------------------------------------------------------------------
(* The adder.                                                              *)

LEMMA FullAdder ==
  ASSUME NEW x \in 0 .. 1, NEW y \in 0 .. 1, NEW c \in 0 .. 1
  PROVE  /\ FullSum(x, y, c) \in 0 .. 1 /\ FullCarry(x, y, c) \in 0 .. 1
         /\ FullSum(x, y, c) + 2 * FullCarry(x, y, c) = x + y + c
<1>1. x \in {0, 1} /\ y \in {0, 1} /\ c \in {0, 1}
  OBVIOUS
<1> QED
  BY <1>1 DEF FullSum, FullCarry, XorBit, AndBit

LEMMA CarriesEquation ==
  ASSUME NEW a \in Nat, NEW b \in Nat
  PROVE  /\ Carries(a, b) \in [0 .. WordBits -> 0 .. 1]
         /\ Carries(a, b)[0] = 0
         /\ \A i \in 0 .. WordBits - 1 :
              Carries(a, b)[i + 1] = FullCarry(Bit(a, i), Bit(b, i), Carries(a, b)[i])
<1> DEFINE F == [i \in 0 .. WordBits - 1 |->
                   [v \in 0 .. 1 |-> FullCarry(Bit(a, i), Bit(b, i), v)]]
           G(g) == g = [i \in 0 .. WordBits |->
                          IF i = 0 THEN 0
                          ELSE FullCarry(Bit(a, i - 1), Bit(b, i - 1), g[i - 1])]
<1>1. ASSUME NEW i \in 0 .. WordBits - 1, NEW v \in 0 .. 1
      PROVE  FullCarry(Bit(a, i), Bit(b, i), v) \in 0 .. 1
  <2>1. i \in Nat
    BY WidthType
  <2> QED
    BY <2>1, BitType, FullAdder
<1>2. F \in [0 .. WordBits - 1 -> [0 .. 1 -> 0 .. 1]]
  BY <1>1
<1>3. PICK f \in [0 .. WordBits -> 0 .. 1] : Iterates(f, WordBits, 0, F)
  <2>1. 0 \in 0 .. 1
    OBVIOUS
  <2> HIDE DEF F
  <2> QED
    BY <1>2, <2>1, WidthType, Recursion, Zenon
<1>4. G(f)
  <2>1. ASSUME NEW i \in 0 .. WordBits, i # 0
        PROVE  f[i] = FullCarry(Bit(a, i - 1), Bit(b, i - 1), f[i - 1])
    <3>1. i - 1 \in 0 .. WordBits - 1 /\ (i - 1) + 1 = i /\ f[i - 1] \in 0 .. 1
      BY <2>1, WidthType
    <3>2. f[i] = F[i - 1][f[i - 1]]
      BY <1>3, <3>1 DEF Iterates
    <3> QED
      BY <3>1, <3>2
  <2>2. f[0] = 0
    BY <1>3 DEF Iterates
  <2> QED
    BY <2>1, <2>2
<1>5. G(Carries(a, b))
  <2>1. Carries(a, b) = CHOOSE g : G(g)
    BY DEF Carries
  <2> HIDE DEF G
  <2> QED
    BY <1>4, <2>1
<1> DEFINE g == Carries(a, b)
<1> HIDE DEF g
<1>6. G(g)
  BY <1>5 DEF g
<1>7. g[0] = 0
  BY <1>6, WidthType
<1>8. ASSUME NEW i \in 0 .. WordBits - 1
      PROVE  g[i + 1] = FullCarry(Bit(a, i), Bit(b, i), g[i])
  <2>1. i + 1 \in 0 .. WordBits /\ i + 1 # 0 /\ (i + 1) - 1 = i
    BY WidthType
  <2> QED
    BY <1>6, <2>1
<1>9. 0 .. WordBits \subseteq {i \in 0 .. WordBits : g[i] \in 0 .. 1}
  <2> DEFINE P == {i \in 0 .. WordBits : g[i] \in 0 .. 1}
  <2>1. 0 \in P
    BY <1>7, WidthType
  <2>2. ASSUME NEW i \in 0 .. WordBits - 1, i \in P
        PROVE  i + 1 \in P
    <3>1. g[i] \in 0 .. 1 /\ i + 1 \in 0 .. WordBits
      BY <2>2, WidthType
    <3>2. g[i + 1] \in 0 .. 1
      BY <1>1, <1>8, <3>1
    <3> QED
      BY <3>1, <3>2
  <2> HIDE DEF P
  <2>3. 0 .. WordBits \subseteq P
    BY <2>1, <2>2, WidthType, Induction
  <2> QED
    BY <2>3 DEF P
<1>10. g \in [0 .. WordBits -> 0 .. 1]
  <2>1. g = [i \in 0 .. WordBits |-> g[i]]
    BY <1>6
  <2> QED
    BY <1>9, <2>1
<1> QED
  BY <1>7, <1>8, <1>10 DEF g

LEMMA AdderAdds ==
  ASSUME NEW a \in Word, NEW b \in Word
  PROVE  Adder(a, b) \in Word /\ Adder(a, b) = (a + b) % 2^WordBits
<1> DEFINE carry == Carries(a, b)
           sum == [i \in 0 .. WordBits - 1 |-> FullSum(Bit(a, i), Bit(b, i), carry[i])]
           s == LowBits(sum)
           x == LowBits(BitsOf(a))
           y == LowBits(BitsOf(b))
           P == {i \in 0 .. WordBits : s[i] + carry[i] * 2^i = x[i] + y[i]}
<1>1. a \in Nat /\ b \in Nat
  BY WidthType DEF Word
<1>2. /\ carry \in [0 .. WordBits -> 0 .. 1] /\ carry[0] = 0
      /\ \A i \in 0 .. WordBits - 1 :
           carry[i + 1] = FullCarry(Bit(a, i), Bit(b, i), carry[i])
  BY <1>1, CarriesEquation
<1> HIDE DEF carry
<1>3. ASSUME NEW i \in 0 .. WordBits - 1
      PROVE  /\ Bit(a, i) \in 0 .. 1 /\ Bit(b, i) \in 0 .. 1 /\ carry[i] \in 0 .. 1
             /\ sum[i] \in 0 .. 1 /\ carry[i + 1] \in 0 .. 1
             /\ sum[i] + 2 * carry[i + 1] = Bit(a, i) + Bit(b, i) + carry[i]
  <2>1. i \in Nat /\ carry[i] \in 0 .. 1
    BY <1>2, WidthType
  <2>2. Bit(a, i) \in 0 .. 1 /\ Bit(b, i) \in 0 .. 1
    BY <1>1, <2>1, BitType
  <2> QED
    BY <1>2, <2>1, <2>2, FullAdder
<1>4. sum \in Bits
  BY <1>3 DEF Bits
<1> HIDE DEF s, x, y
<1>5. /\ s \in [0 .. WordBits -> Nat] /\ s[0] = 0
      /\ \A i \in 0 .. WordBits - 1 : s[i + 1] = s[i] + sum[i] * 2^i
  BY <1>4, LowBitsEquation DEF s
<1>6. /\ x \in [0 .. WordBits -> Nat] /\ x[0] = 0
      /\ \A i \in 0 .. WordBits - 1 : x[i + 1] = x[i] + Bit(a, i) * 2^i
  BY <1>1, BitsOfType, LowBitsEquation DEF x, BitsOf
<1>7. /\ y \in [0 .. WordBits -> Nat] /\ y[0] = 0
      /\ \A i \in 0 .. WordBits - 1 : y[i + 1] = y[i] + Bit(b, i) * 2^i
  BY <1>1, BitsOfType, LowBitsEquation DEF y, BitsOf
<1>8. 0 \in P
  BY <1>2, <1>5, <1>6, <1>7, WidthType
<1>9. ASSUME NEW i \in 0 .. WordBits - 1, i \in P
      PROVE  i + 1 \in P
  <2>1. i \in Nat /\ i \in 0 .. WordBits /\ i + 1 \in 0 .. WordBits
    BY WidthType
  <2>2. 2^i \in Nat /\ 2^(i + 1) = 2 * 2^i
    BY <2>1, PowerOfSuccessor, PowerPositive
  <2>3. s[i] + carry[i] * 2^i = x[i] + y[i] /\ s[i] \in Nat /\ x[i] \in Nat /\ y[i] \in Nat
    BY <1>5, <1>6, <1>7, <1>9, <2>1
  <2>4. s[i + 1] = s[i] + sum[i] * 2^i
    BY <1>5
  <2>5. x[i + 1] = x[i] + Bit(a, i) * 2^i /\ y[i + 1] = y[i] + Bit(b, i) * 2^i
    BY <1>6, <1>7
  <2> HIDE DEF sum
  <2> DEFINE p == 2^i
             ai == Bit(a, i)
             bi == Bit(b, i)
             si == sum[i]
             ci == carry[i]
             di == carry[i + 1]
  <2>6. /\ p \in Nat /\ ai \in {0, 1} /\ bi \in {0, 1} /\ si \in {0, 1} /\ ci \in {0, 1} /\ di \in {0, 1}
        /\ si + 2 * di = ai + bi + ci
    BY <1>3, <2>2
  <2>7. si * p + di * (2 * p) = ai * p + bi * p + ci * p
    <3> HIDE DEF p, ai, bi, si, ci, di
    <3> QED
      BY <2>6
  <2>8. s[i + 1] + di * (2 * p) = x[i + 1] + y[i + 1]
    <3> DEFINE sp == si * p
               dp == di * (2 * p)
               ap == ai * p
               bp == bi * p
               cp == ci * p
    <3>1. /\ s[i] + cp = x[i] + y[i] /\ s[i + 1] = s[i] + sp
          /\ x[i + 1] = x[i] + ap /\ y[i + 1] = y[i] + bp
      BY <2>3, <2>4, <2>5
    <3> HIDE DEF p, ai, bi, si, ci, di
    <3>2. sp \in Nat /\ dp \in Nat /\ ap \in Nat /\ bp \in Nat /\ cp \in Nat
      BY <2>6
    <3>3. sp + dp = ap + bp + cp
      BY <2>7
    <3> HIDE DEF sp, dp, ap, bp, cp
    <3> DEFINE u == s[i]
               v == x[i]
               w == y[i]
    <3>4. u \in Nat /\ v \in Nat /\ w \in Nat /\ u + cp = v + w
      BY <2>3, <3>1
    <3> HIDE DEF u, v, w
    <3>5. (u + sp) + dp = (v + ap) + (w + bp)
      BY <3>2, <3>3, <3>4
    <3>6. s[i + 1] + dp = x[i + 1] + y[i + 1]
      BY <3>1, <3>5 DEF u, v, w
    <3> QED
      BY <3>6 DEF dp
  <2>9. s[i + 1] + carry[i + 1] * 2^(i + 1) = x[i + 1] + y[i + 1]
    BY <2>2, <2>8
  <2> QED
    BY <2>1, <2>9
<1>10. 0 .. WordBits \subseteq P
  <2> HIDE DEF P
  <2> QED
    BY <1>8, <1>9, WidthType, Induction
<1>11. s[WordBits] + carry[WordBits] * 2^WordBits = x[WordBits] + y[WordBits]
  BY <1>10, WidthType
<1>12. x[WordBits] = a /\ y[WordBits] = b
  BY FromBitsOfWord DEF x, y, FromBits
<1>13. s[WordBits] = Adder(a, b)
  BY DEF s, Adder, FromBits, carry
<1>14. Adder(a, b) \in Word
  BY <1>4, FromBitsType DEF Adder, carry
<1>15. a + b = (2^WordBits * carry[WordBits]) + Adder(a, b) /\ carry[WordBits] \in Nat
  BY <1>1, <1>2, <1>11, <1>12, <1>13, <1>14, WidthType DEF Word
<1>16. a + b \in Nat /\ Adder(a, b) \in 0 .. 2^WordBits - 1
  BY <1>1, <1>14 DEF Word
<1>17. (a + b) % 2^WordBits = Adder(a, b)
  BY <1>15, <1>16, WidthType, DivisionUnique
<1> QED
  BY <1>14, <1>17

LEMMA ComplementIs ==
  ASSUME NEW b \in Word
  PROVE  Complement(b) \in Word /\ Complement(b) = 2^WordBits - 1 - b
<1> DEFINE not == [i \in 0 .. WordBits - 1 |-> 1 - Bit(b, i)]
           v == LowBits(not)
           y == LowBits(BitsOf(b))
           P == {i \in 0 .. WordBits : v[i] + y[i] = 2^i - 1}
<1>1. b \in Nat
  BY WidthType DEF Word
<1>2. ASSUME NEW i \in 0 .. WordBits - 1
      PROVE  Bit(b, i) \in {0, 1} /\ 1 - Bit(b, i) \in {0, 1}
  <2>1. i \in Nat
    BY WidthType
  <2>2. Bit(b, i) \in 0 .. 1
    BY <1>1, <2>1, BitType
  <2> QED
    BY <2>2
<1>3. not \in Bits
  BY <1>2 DEF Bits
<1> HIDE DEF v, y
<1>4. /\ v \in [0 .. WordBits -> Nat] /\ v[0] = 0
      /\ \A i \in 0 .. WordBits - 1 : v[i + 1] = v[i] + (1 - Bit(b, i)) * 2^i
  BY <1>3, LowBitsEquation DEF v
<1>5. /\ y \in [0 .. WordBits -> Nat] /\ y[0] = 0
      /\ \A i \in 0 .. WordBits - 1 : y[i + 1] = y[i] + Bit(b, i) * 2^i
  BY <1>1, BitsOfType, LowBitsEquation DEF y, BitsOf
<1>6. 0 \in P
  BY <1>4, <1>5, WidthType
<1>7. ASSUME NEW i \in 0 .. WordBits - 1, i \in P
      PROVE  i + 1 \in P
  <2>1. i \in Nat /\ i \in 0 .. WordBits /\ i + 1 \in 0 .. WordBits
    BY WidthType
  <2>2. 2^i \in Nat /\ 2^(i + 1) = 2 * 2^i
    BY <2>1, PowerOfSuccessor, PowerPositive
  <2>3. v[i] + y[i] = 2^i - 1 /\ v[i] \in Nat /\ y[i] \in Nat
    BY <1>4, <1>5, <1>7, <2>1
  <2>4. v[i + 1] + y[i + 1] = v[i] + y[i] + 2^i
    BY <1>2, <1>4, <1>5, <2>2, <2>3
  <2>5. v[i + 1] + y[i + 1] = 2^(i + 1) - 1
    BY <2>2, <2>3, <2>4
  <2> QED
    BY <2>1, <2>5
<1>8. 0 .. WordBits \subseteq P
  <2> HIDE DEF P
  <2> QED
    BY <1>6, <1>7, WidthType, Induction
<1>9. v[WordBits] + y[WordBits] = 2^WordBits - 1
  BY <1>8, WidthType
<1>10. y[WordBits] = b
  BY FromBitsOfWord DEF y, FromBits
<1>11. Complement(b) \in Word /\ v[WordBits] = Complement(b)
  BY <1>3, FromBitsType DEF v, Complement, FromBits
<1> QED
  BY <1>1, <1>9, <1>10, <1>11, WidthType DEF Word

LEMMA SubtracterSubtracts ==
  ASSUME NEW a \in Word, NEW b \in Word
  PROVE  Subtracter(a, b) \in Word /\ Subtracter(a, b) = (a - b) % 2^WordBits
<1> DEFINE M == 2^WordBits
           minus == Adder(Complement(b), 1)
<1>1. M \in Nat /\ M > 1 /\ Word = 0 .. M - 1
  BY WidthType, PowerPositive DEF Word
<1>2. Complement(b) \in Word /\ Complement(b) = M - 1 - b /\ 1 \in Word
  BY <1>1, ComplementIs
<1>3. minus \in Word /\ minus = ((M - 1 - b) + 1) % M
  BY <1>2, AdderAdds
<1>4. Subtracter(a, b) \in Word /\ Subtracter(a, b) = (a + minus) % M
  BY <1>3, AdderAdds DEF Subtracter
<1> HIDE DEF M, minus
<1>5. (a + minus) % M = (a - b) % M
  <2>1. a \in 0 .. M - 1 /\ b \in 0 .. M - 1
    BY <1>1
  <2>2. CASE b = 0
    <3>1. minus = 0
      BY <1>1, <1>3, <2>2
    <3> QED
      BY <2>1, <2>2, <3>1
  <2>3. CASE b # 0
    <3>1. minus = M - b
      BY <1>1, <1>3, <2>1, <2>3
    <3>2. CASE a < b
      BY <1>1, <2>1, <3>1, <3>2
    <3>3. CASE a >= b
      <4>1. (a - b) % M = a - b
        BY <1>1, <2>1, <3>3
      <4>2. (a + minus) % M = a - b
        BY <1>1, <2>1, <3>1, <3>3
      <4> QED
        BY <4>1, <4>2
    <3> QED
      BY <2>1, <3>2, <3>3
  <2> QED
    BY <2>2, <2>3
<1> QED
  BY <1>4, <1>5 DEF M

-----------------------------------------------------------------------------
(* The other operations.                                                   *)

LEMMA WordBitwise ==
  ASSUME NEW b \in Bits
  PROVE  FromBits(b) \in Word /\ Ones(FromBits(b)) = {i \in 0 .. WordBits - 1 : b[i] = 1}
  BY FromBitsType, BitOfFromBits DEF Ones

LEMMA GateIs ==
  ASSUME NEW x \in 0 .. 1, NEW y \in 0 .. 1
  PROVE  /\ AndBit(x, y) \in 0 .. 1 /\ (AndBit(x, y) = 1 <=> x = 1 /\ y = 1)
         /\ OrBit(x, y) \in 0 .. 1 /\ (OrBit(x, y) = 1 <=> x = 1 \/ y = 1)
         /\ XorBit(x, y) \in 0 .. 1 /\ (XorBit(x, y) = 1 <=> (x = 1 /\ y # 1) \/ (x # 1 /\ y = 1))
<1>1. x \in {0, 1} /\ y \in {0, 1}
  OBVIOUS
<1> QED
  BY <1>1 DEF AndBit, OrBit, XorBit

LEMMA PerBitIs ==
  ASSUME NEW a \in Word, NEW b \in Word
  PROVE  /\ PerBit(AndBit, a, b) \in Word
         /\ Ones(PerBit(AndBit, a, b)) = Ones(a) \intersect Ones(b)
         /\ PerBit(OrBit, a, b) \in Word
         /\ Ones(PerBit(OrBit, a, b)) = Ones(a) \union Ones(b)
         /\ PerBit(XorBit, a, b) \in Word
         /\ Ones(PerBit(XorBit, a, b))
              = (Ones(a) \union Ones(b)) \ (Ones(a) \intersect Ones(b))
<1> DEFINE and == [i \in 0 .. WordBits - 1 |-> AndBit(Bit(a, i), Bit(b, i))]
           or == [i \in 0 .. WordBits - 1 |-> OrBit(Bit(a, i), Bit(b, i))]
           xor == [i \in 0 .. WordBits - 1 |-> XorBit(Bit(a, i), Bit(b, i))]
<1>1. ASSUME NEW i \in 0 .. WordBits - 1
      PROVE  Bit(a, i) \in 0 .. 1 /\ Bit(b, i) \in 0 .. 1
  <2>1. i \in Nat /\ a \in Nat /\ b \in Nat
    BY WidthType DEF Word
  <2> QED
    BY <2>1, BitType
<1>2. and \in Bits /\ or \in Bits /\ xor \in Bits
  BY <1>1, GateIs DEF Bits
<1>3. /\ PerBit(AndBit, a, b) = FromBits(and)
      /\ PerBit(OrBit, a, b) = FromBits(or)
      /\ PerBit(XorBit, a, b) = FromBits(xor)
  BY DEF PerBit
<1>a. ASSUME NEW i \in 0 .. WordBits - 1
      PROVE  /\ and[i] = 1 <=> Bit(a, i) = 1 /\ Bit(b, i) = 1
             /\ or[i] = 1 <=> Bit(a, i) = 1 \/ Bit(b, i) = 1
             /\ xor[i] = 1 <=> (Bit(a, i) = 1 /\ Bit(b, i) # 1) \/ (Bit(a, i) # 1 /\ Bit(b, i) = 1)
  BY <1>1, GateIs
<1> HIDE DEF and, or, xor
<1>4. {i \in 0 .. WordBits - 1 : and[i] = 1} = Ones(a) \intersect Ones(b)
  BY <1>a DEF Ones
<1>5. {i \in 0 .. WordBits - 1 : or[i] = 1} = Ones(a) \union Ones(b)
  BY <1>a DEF Ones
<1>6. {i \in 0 .. WordBits - 1 : xor[i] = 1}
        = (Ones(a) \union Ones(b)) \ (Ones(a) \intersect Ones(b))
  BY <1>a DEF Ones
<1> QED
  BY <1>2, <1>3, <1>4, <1>5, <1>6, WordBitwise

\* Shifting left by n moves the low bits up ...
LEMMA ShiftLeftLow ==
  ASSUME NEW a \in Word, NEW n \in 0 .. WordBits
  PROVE  ShiftLeft(a, n) \in Word
         /\ ShiftLeft(a, n) = 2^n * LowBits(BitsOf(a))[WordBits - n]
<1> DEFINE shl == [i \in 0 .. WordBits - 1 |-> IF i >= n THEN Bit(a, i - n) ELSE 0]
           v == LowBits(shl)
           x == LowBits(BitsOf(a))
           P == {i \in 0 .. n : v[i] = 0}
           Q == {j \in 0 .. WordBits - n : v[n + j] = 2^n * x[j]}
<1>1. a \in Nat /\ n \in Nat /\ WordBits \in Nat
  BY WidthType DEF Word
<1>2. ASSUME NEW i \in 0 .. WordBits - 1
      PROVE  Bit(a, i) \in 0 .. 1 /\ (i >= n => Bit(a, i - n) \in 0 .. 1)
  <2>1. i \in Nat
    BY <1>1
  <2>2. i >= n => i - n \in Nat
    BY <1>1, <2>1
  <2> QED
    BY <1>1, <2>1, <2>2, BitType
<1>3. shl \in Bits
  BY <1>2 DEF Bits
<1> HIDE DEF v, x
<1>4. /\ v \in [0 .. WordBits -> Nat] /\ v[0] = 0
      /\ \A i \in 0 .. WordBits - 1 : v[i + 1] = v[i] + shl[i] * 2^i
  BY <1>3, LowBitsEquation DEF v
<1>5. /\ x \in [0 .. WordBits -> Nat] /\ x[0] = 0
      /\ \A i \in 0 .. WordBits - 1 : x[i + 1] = x[i] + Bit(a, i) * 2^i
  BY <1>1, BitsOfType, LowBitsEquation DEF x, BitsOf
<1>6. v[n] = 0
  <2>1. 0 \in P
    BY <1>1, <1>4
  <2>2. ASSUME NEW i \in 0 .. n - 1, i \in P
        PROVE  i + 1 \in P
    <3>1. i \in 0 .. WordBits - 1 /\ shl[i] = 0 /\ i \in Nat /\ i + 1 \in 0 .. n
      BY <1>1
    <3>2. 2^i \in Nat
      BY <3>1, PowerPositive
    <3>3. v[i + 1] = 0
      BY <1>4, <2>2, <3>1, <3>2
    <3> QED
      BY <3>1, <3>3
  <2>3. 0 .. n \subseteq P
    <3> HIDE DEF P
    <3> QED
      BY <1>1, <2>1, <2>2, Induction
  <2> QED
    BY <1>1, <2>3
<1>7. 0 \in Q
  BY <1>1, <1>5, <1>6, PowerPositive
<1>8. ASSUME NEW j \in 0 .. (WordBits - n) - 1, j \in Q
      PROVE  j + 1 \in Q
  <2>1. /\ j \in Nat /\ j + 1 \in 0 .. WordBits - n /\ j \in 0 .. WordBits - 1
        /\ n + j \in 0 .. WordBits - 1 /\ n + j >= n /\ (n + j) - n = j
        /\ n + (j + 1) = (n + j) + 1 /\ j \in 0 .. WordBits
    BY <1>1
  <2>2. shl[n + j] = Bit(a, j)
    BY <2>1
  <2>3. 2^(n + j) = 2^n * 2^j /\ 2^n \in Nat /\ 2^j \in Nat
    BY <1>1, <2>1, PowerOfSum, PowerPositive
  <2> DEFINE p == 2^n
             q == 2^j
             bit == Bit(a, j)
  <2>4. v[n + (j + 1)] = v[n + j] + bit * (p * q)
    <3> HIDE DEF shl
    <3> QED
      BY <1>4, <2>1, <2>2, <2>3
  <2>5. v[n + j] = p * x[j] /\ x[j + 1] = x[j] + bit * q
    BY <1>5, <1>8, <2>1
  <2>6. p \in Nat /\ q \in Nat /\ bit \in 0 .. 1 /\ x[j] \in Nat
    BY <1>2, <1>5, <2>1, <2>3
  <2> HIDE DEF p, q, bit
  <2>7. v[n + (j + 1)] = p * x[j + 1]
    <3>1. p * (x[j] + bit * q) = p * x[j] + bit * (p * q)
      BY <2>6
    <3> QED
      BY <2>4, <2>5, <3>1
  <2> QED
    BY <2>1, <2>7 DEF p
<1>9. 0 .. WordBits - n \subseteq Q
  <2>1. WordBits - n \in Nat
    BY <1>1
  <2> HIDE DEF Q
  <2> QED
    BY <1>7, <1>8, <2>1, Induction
<1>10. v[WordBits] = 2^n * x[WordBits - n]
  <2>1. WordBits - n \in 0 .. WordBits - n /\ n + (WordBits - n) = WordBits
    BY <1>1
  <2>2. WordBits - n \in Q
    BY <1>9, <2>1
  <2> QED
    BY <2>1, <2>2
<1>11. v[WordBits] = ShiftLeft(a, n) /\ ShiftLeft(a, n) \in Word
  BY <1>3, FromBitsType DEF v, ShiftLeft, FromBits
<1> QED
  BY <1>10, <1>11 DEF x

\* ... and by the width or more, everything out of the word.
LEMMA ShiftLeftShifts ==
  ASSUME NEW a \in Word, NEW b \in Word
  PROVE  ShiftLeft(a, b) \in Word /\ ShiftLeft(a, b) = (a * 2^b) % 2^WordBits
<1> DEFINE M == 2^WordBits
<1>1. a \in Nat /\ b \in Nat /\ WordBits \in Nat /\ M \in Nat \ {0} /\ Word = 0 .. M - 1
  BY WidthType DEF Word
<1>2. 2^b \in Nat
  BY <1>1, PowerPositive
<1>3. CASE b <= WordBits
  <2> DEFINE n == WordBits - b
             x == LowBits(BitsOf(a))[n]
             h == a \div 2^n
             p == 2^b
             q == 2^n
  <2>1. n \in 0 .. WordBits /\ n \in Nat /\ b \in 0 .. WordBits /\ WordBits = b + n
    BY <1>1, <1>3
  <2>2. ShiftLeft(a, b) \in Word /\ ShiftLeft(a, b) = p * x
    BY <2>1, ShiftLeftLow
  <2>3. q \in Nat \ {0} /\ M = p * q /\ a = x + q * h
    BY <1>1, <2>1, PowerPositive, PowerOfSum, LowBitsOfNumber
  <2>4. h \in Nat /\ x \in Nat
    BY <1>1, <2>1, <2>3, Division, BitsOfType, LowBitsBound
  <2> HIDE DEF n, x, h, p, q
  <2>5. p \in Nat
    BY <1>2 DEF p
  <2>6. a * p = (M * h) + p * x
    <3>1. (x + q * h) * p = ((p * q) * h) + p * x
      BY <2>3, <2>4, <2>5
    <3> QED
      BY <2>3, <3>1
  <2>7. (a * p) % M = p * x
    <3>1. a * p \in Nat /\ p * x \in 0 .. M - 1
      BY <1>1, <2>2, <2>5
    <3> HIDE DEF M
    <3> QED
      BY <1>1, <2>4, <2>6, <3>1, DivisionUnique
  <2> QED
    BY <2>2, <2>7 DEF p
<1>4. CASE b > WordBits
  <2> DEFINE n == b - WordBits
             q == 2^n
  <2>1. n \in Nat /\ b = WordBits + n /\ WordBits \in 0 .. WordBits /\ 0 \in 0 .. WordBits
    BY <1>1, <1>4
  <2>2. ShiftLeft(a, b) = ShiftLeft(a, WordBits)
    <3>1. ASSUME NEW i \in 0 .. WordBits - 1
          PROVE  (IF i >= b THEN Bit(a, i - b) ELSE 0)
                   = (IF i >= WordBits THEN Bit(a, i - WordBits) ELSE 0)
      <4>1. ~(i >= b) /\ ~(i >= WordBits)
        BY <1>1, <1>4
      <4> QED
        BY <4>1
    <3> QED
      BY <3>1 DEF ShiftLeft
  <2>3. ShiftLeft(a, WordBits) = M * LowBits(BitsOf(a))[WordBits - WordBits]
    BY <2>1, ShiftLeftLow
  <2>4. LowBits(BitsOf(a))[WordBits - WordBits] = 0
    BY <1>1, BitsOfType, LowBitsEquation
  <2>5. ShiftLeft(a, b) = 0
    BY <1>1, <2>2, <2>3, <2>4
  <2>6. 2^b = M * q /\ q \in Nat
    BY <1>1, <2>1, PowerOfSum, PowerPositive
  <2> HIDE DEF n, q
  <2>7. (a * 2^b) % M = 0
    <3> DEFINE w == a * 2^b
    <3>1. w = (M * (a * q)) + 0 /\ w \in Nat /\ a * q \in Nat
      <4>1. a * (M * q) = M * (a * q)
        BY <1>1, <2>6
      <4> QED
        BY <1>1, <1>2, <2>6, <4>1
    <3> HIDE DEF M, w
    <3>2. 0 \in 0 .. M - 1
      BY <1>1
    <3>3. w % M = 0
      BY <1>1, <3>1, <3>2, DivisionUnique
    <3> QED
      BY <3>3 DEF w
  <2> QED
    BY <1>1, <2>5, <2>7
<1> QED
  BY <1>1, <1>3, <1>4

LEMMA ShiftRightLow ==
  ASSUME NEW a \in Word, NEW n \in 0 .. WordBits
  PROVE  ShiftRight(a, n) \in Word /\ ShiftRight(a, n) = a \div 2^n
<1> DEFINE shr == [i \in 0 .. WordBits - 1 |->
                     IF i + n < WordBits THEN Bit(a, i + n) ELSE 0]
           v == LowBits(shr)
           x == LowBits(BitsOf(a))
           m == WordBits - n
           Q == {j \in 0 .. m : x[n] + 2^n * v[j] = x[n + j]}
           R == {k \in 0 .. n : v[m + k] = v[m]}
<1>1. a \in Nat /\ n \in Nat /\ WordBits \in Nat /\ m \in Nat
  BY WidthType DEF Word
<1>2. ASSUME NEW i \in 0 .. WordBits - 1
      PROVE  Bit(a, i) \in 0 .. 1 /\ Bit(a, i + n) \in 0 .. 1
  <2>1. i \in Nat /\ i + n \in Nat
    BY <1>1
  <2> QED
    BY <1>1, <2>1, BitType
<1>3. shr \in Bits
  BY <1>2 DEF Bits
<1> HIDE DEF v, x
<1>4. /\ v \in [0 .. WordBits -> Nat] /\ v[0] = 0
      /\ \A i \in 0 .. WordBits - 1 : v[i + 1] = v[i] + shr[i] * 2^i
  BY <1>3, LowBitsEquation DEF v
<1>5. /\ x \in [0 .. WordBits -> Nat] /\ x[0] = 0
      /\ \A i \in 0 .. WordBits - 1 : x[i + 1] = x[i] + Bit(a, i) * 2^i
  BY <1>1, BitsOfType, LowBitsEquation DEF x, BitsOf
<1>6. 0 \in Q
  BY <1>1, <1>4, <1>5, PowerPositive
<1>7. ASSUME NEW j \in 0 .. m - 1, j \in Q
      PROVE  j + 1 \in Q
  <2>1. /\ j \in Nat /\ j + 1 \in 0 .. m /\ j \in 0 .. WordBits - 1
        /\ n + j \in 0 .. WordBits - 1 /\ j + n < WordBits /\ j + n = n + j
        /\ n + (j + 1) = (n + j) + 1 /\ j \in 0 .. WordBits /\ n \in 0 .. WordBits
    BY <1>1
  <2>2. shr[j] = Bit(a, n + j)
    BY <2>1
  <2>3. 2^(n + j) = 2^n * 2^j /\ 2^n \in Nat /\ 2^j \in Nat
    BY <1>1, <2>1, PowerOfSum, PowerPositive
  <2> DEFINE p == 2^n
             q == 2^j
             bit == Bit(a, n + j)
  <2>4. x[n + (j + 1)] = x[n + j] + bit * (p * q)
    BY <1>5, <2>1, <2>3
  <2>5. x[n] + p * v[j] = x[n + j] /\ v[j + 1] = v[j] + bit * q
    <3>1. x[n] + p * v[j] = x[n + j]
      BY <1>7
    <3> HIDE DEF shr
    <3> QED
      BY <1>4, <2>1, <2>2, <3>1
  <2>6. p \in Nat /\ q \in Nat /\ bit \in 0 .. 1 /\ v[j] \in Nat /\ x[n] \in Nat
    BY <1>2, <1>4, <1>5, <2>1, <2>3
  <2> HIDE DEF p, q, bit
  <2>7. x[n] + p * v[j + 1] = x[n + (j + 1)]
    <3>1. x[n] + p * (v[j] + bit * q) = (x[n] + p * v[j]) + bit * (p * q)
      BY <2>6
    <3> QED
      BY <2>4, <2>5, <3>1
  <2> QED
    BY <2>1, <2>7 DEF p
<1>8. m \in Q
  <2>1. 0 .. m \subseteq Q
    <3> HIDE DEF Q, m
    <3> QED
      BY <1>1, <1>6, <1>7, Induction
  <2> QED
    BY <1>1, <2>1
<1>9. 0 \in R
  BY <1>1
<1>10. ASSUME NEW k \in 0 .. n - 1, k \in R
       PROVE  k + 1 \in R
  <2>1. /\ k + 1 \in 0 .. n /\ m + k \in 0 .. WordBits - 1 /\ m + k \in Nat
        /\ ~((m + k) + n < WordBits) /\ m + (k + 1) = (m + k) + 1
        /\ m \in 0 .. WordBits
    BY <1>1
  <2>2. shr[m + k] = 0
    BY <2>1
  <2>3. 2^(m + k) \in Nat
    BY <2>1, PowerPositive
  <2>4. v[m + k] = v[m] /\ v[m] \in Nat
    BY <1>4, <1>10, <2>1
  <2>5. v[m + (k + 1)] = v[m + k] + 0 * 2^(m + k)
    <3> HIDE DEF shr, m
    <3> QED
      BY <1>4, <2>1, <2>2
  <2> QED
    BY <2>1, <2>3, <2>4, <2>5
<1>11. n \in R
  <2>1. 0 .. n \subseteq R
    <3> HIDE DEF R, m
    <3> QED
      BY <1>1, <1>9, <1>10, Induction
  <2> QED
    BY <1>1, <2>1
<1>12. v[WordBits] = v[m] /\ x[n] + 2^n * v[m] = x[WordBits] /\ v[m] \in Nat
  <2>1. m + n = WordBits /\ n + m = WordBits /\ m \in 0 .. WordBits
    BY <1>1
  <2> QED
    BY <1>4, <1>8, <1>11, <2>1
<1>13. x[WordBits] = a /\ x[n] \in Nat /\ x[n] < 2^n
  BY <1>1, FromBitsOfWord, LowBitsBound, BitsOfType DEF x, FromBits
<1>14. v[WordBits] = ShiftRight(a, n) /\ ShiftRight(a, n) \in Word
  BY <1>3, FromBitsType DEF v, ShiftRight, FromBits
<1>15. a \div 2^n = v[m]
  <2> DEFINE p == 2^n
             r == x[n]
             s == v[m]
  <2>1. p \in Nat \ {0} /\ r \in Nat /\ r < p /\ s \in Nat /\ r + p * s = a
    BY <1>1, <1>12, <1>13, PowerPositive
  <2> HIDE DEF p, r, s
  <2>2. a = (p * s) + r /\ r \in 0 .. p - 1
    BY <2>1
  <2>3. a \div p = s
    BY <1>1, <2>1, <2>2, DivisionUnique
  <2> QED
    BY <2>3 DEF p, s
<1> QED
  BY <1>12, <1>14, <1>15

LEMMA ShiftRightShifts ==
  ASSUME NEW a \in Word, NEW b \in Word
  PROVE  ShiftRight(a, b) \in Word /\ ShiftRight(a, b) = a \div 2^b
<1>1. a \in Nat /\ b \in Nat /\ WordBits \in Nat /\ a < 2^WordBits
  BY WidthType DEF Word
<1>2. CASE b <= WordBits
  <2>1. b \in 0 .. WordBits
    BY <1>1, <1>2
  <2> QED
    BY <2>1, ShiftRightLow
<1>3. CASE b > WordBits
  <2>1. ShiftRight(a, b) = ShiftRight(a, WordBits)
    <3>1. ASSUME NEW i \in 0 .. WordBits - 1
          PROVE  (IF i + b < WordBits THEN Bit(a, i + b) ELSE 0)
                   = (IF i + WordBits < WordBits THEN Bit(a, i + WordBits) ELSE 0)
      <4>1. ~(i + b < WordBits) /\ ~(i + WordBits < WordBits)
        BY <1>1, <1>3
      <4> QED
        BY <4>1
    <3> QED
      BY <3>1 DEF ShiftRight
  <2>2. ShiftRight(a, WordBits) \in Word /\ ShiftRight(a, WordBits) = a \div 2^WordBits
    <3>1. WordBits \in 0 .. WordBits
      BY <1>1
    <3> QED
      BY <3>1, ShiftRightLow
  <2>3. 2^WordBits \in Nat \ {0} /\ 2^b \in Nat \ {0} /\ a < 2^b
    <3> DEFINE n == b - WordBits
               p == 2^WordBits
               q == 2^n
    <3>1. n \in Nat /\ b = WordBits + n
      BY <1>1, <1>3
    <3>2. p \in Nat \ {0} /\ q \in Nat \ {0} /\ 2^b = p * q /\ 2^b \in Nat \ {0}
      BY <1>1, <3>1, PowerOfSum, PowerPositive
    <3> HIDE DEF n, q
    <3>3. a < p
      BY <1>1
    <3> HIDE DEF p
    <3>4. p <= p * q
      BY <3>2
    <3>5. a < p * q
      BY <1>1, <3>2, <3>3, <3>4
    <3> QED
      BY <3>2, <3>5 DEF p
  <2>4. ASSUME NEW p \in Nat \ {0}, a < p
        PROVE  a \div p = 0
    <3>1. a = (p * 0) + a /\ a \in 0 .. p - 1
      BY <1>1, <2>4
    <3> QED
      BY <1>1, <3>1, DivisionUnique
  <2> QED
    BY <1>1, <2>1, <2>2, <2>3, <2>4
<1> QED
  BY <1>1, <1>2, <1>3

-----------------------------------------------------------------------------
(* The ALU and the registers around it.                                    *)

LEMMA AluMeans ==
  ASSUME NEW op \in AluOp, NEW a \in Word, NEW b \in Word, NEW held \in Word
  PROVE  Alu(op, a, b, held) \in Word /\ Means(op, a, b, held, Alu(op, a, b, held))
<1>1. CASE op = "ADD"
  BY <1>1, AdderAdds DEF Alu, Means
<1>2. CASE op = "SUB"
  BY <1>2, SubtracterSubtracts DEF Alu, Means
<1>3. CASE op = "AND"
  BY <1>3, PerBitIs DEF Alu, Means
<1>4. CASE op = "OR"
  BY <1>4, PerBitIs DEF Alu, Means
<1>5. CASE op = "XOR"
  BY <1>5, PerBitIs DEF Alu, Means
<1>6. CASE op = "SHL"
  BY <1>6, ShiftLeftShifts DEF Alu, Means
<1>7. CASE op = "SHR"
  BY <1>7, ShiftRightShifts DEF Alu, Means
<1>8. CASE op \in {"MUL", "CMP"}
  BY <1>8 DEF Alu, Means
<1> QED
  BY <1>1, <1>2, <1>3, <1>4, <1>5, <1>6, <1>7, <1>8 DEF AluOp

\* Apart from MUL and CMP, what the output means does not depend on what it was.
LEMMA MeansNow ==
  ASSUME NEW op, NEW a, NEW b, NEW held, NEW out, Means(op, a, b, held, out)
  PROVE  Means(op, a, b, out, out)
BY DEF Means

\* What has settled with the ALU holding one word is a word, and computed.
LEMMA AluSettles ==
  ASSUME NEW op \in AluOp, NEW a \in Word, NEW b \in Word, NEW held \in Word
  PROVE  /\ Alu(op, a, b, held) \in Word
         /\ Means(op, a, b, Alu(op, a, b, held), Alu(op, a, b, held))
  BY AluMeans, MeansNow

LEMMA ZeroIsWord == 0 \in Word
  BY WidthType DEF Word

IInv == TypeOK /\ AluComputes

\* What a cycle does to registers of the right type.
LEMMA CycleMeans ==
  ASSUME TypeOK, NEW c \in Drives, Cycle(c)
  PROVE  /\ IInv'
         /\ \A r \in Reg \ {c.dst} : c.reset \/ regs'[r] = regs[r]
         /\ c.reset => regs'[c.dst] = 0
         /\ ~c.reset /\ ~c.writeEnable => regs' = regs
         /\ ~c.reset /\ c.writeEnable =>
              IF c.fromImmediate THEN regs'[c.dst] = c.immediate
              ELSE Means(c.op, regs[c.a], regs[c.b], aluOut, regs'[c.dst])
         /\ c.op \in Latched => aluOut' = aluOut
<1> DEFINE settled == Alu(c.op, regs[c.a], regs[c.b], aluOut)
           data == IF c.fromImmediate THEN c.immediate ELSE settled
<1>1. /\ c \in Control /\ c.op \in AluOp /\ c.a \in Reg /\ c.b \in Reg /\ c.dst \in Reg
      /\ c.immediate \in Word /\ c.reset \in BOOLEAN /\ c.writeEnable \in BOOLEAN
  BY DrivesAssumption DEF Control
<1>2. regs \in [Reg -> Word] /\ aluOut \in Word
  BY DEF TypeOK
<1>3. settled \in Word /\ Means(c.op, regs[c.a], regs[c.b], aluOut, settled)
  BY <1>1, <1>2, AluMeans
<1>4. /\ control' = c
      /\ regs' = NextRegs(c, data)
      /\ aluOut' = Alu(c.op, regs'[c.a], regs'[c.b], settled)
  BY DEF Cycle
<1>9. c.op \in Latched => aluOut' = aluOut
  BY <1>4 DEF Latched, Alu
<1> HIDE DEF settled
<1>5. data \in Word
  BY <1>1, <1>3
<1>6. CASE c.reset
  <2>1. regs' = [r \in Reg |-> 0]
    BY <1>4, <1>6 DEF NextRegs
  <2> QED
    BY <1>1, <1>2, <1>3, <1>4, <1>6, <2>1, <1>9, ZeroIsWord, AluSettles
       DEF IInv, TypeOK, AluComputes
<1>7. CASE ~c.reset /\ c.writeEnable
  <2>1. regs' = [regs EXCEPT ![c.dst] = data]
    BY <1>4, <1>7 DEF NextRegs
  <2>2. regs' \in [Reg -> Word]
    BY <1>2, <1>5, <2>1
  <2>3. regs'[c.dst] = data /\ \A r \in Reg \ {c.dst} : regs'[r] = regs[r]
    BY <1>1, <1>2, <2>1
  <2>4. IInv'
    BY <1>1, <1>3, <1>4, <2>2, AluSettles DEF IInv, TypeOK, AluComputes
  <2> QED
    BY <1>3, <1>7, <1>9, <2>3, <2>4
<1>8. CASE ~c.reset /\ ~c.writeEnable
  <2>1. regs' = regs
    BY <1>4, <1>8 DEF NextRegs
  <2>2. IInv'
    BY <1>1, <1>2, <1>3, <1>4, <2>1, AluSettles DEF IInv, TypeOK, AluComputes
  <2> QED
    BY <1>8, <1>9, <2>1, <2>2
<1> QED
  BY <1>1, <1>6, <1>7, <1>8

LEMMA InitIInv == Init => IInv
<1> SUFFICES ASSUME Init
             PROVE  IInv
  OBVIOUS
<1>1. 0 \in Reg
  BY DatapathAssumption DEF Reg
<1>2. TypeOK
  BY <1>1, ZeroIsWord DEF Init, TypeOK, Control, AluOp
<1>3. AluComputes
  <2>1. (0 + 0) % 2^WordBits = 0
    BY WidthType, DivisionUnique
  <2> QED
    BY <1>1, <2>1 DEF Init, AluComputes, Means
<1> QED
  BY <1>2, <1>3 DEF IInv

LEMMA NextIInv == IInv /\ [Next]_vars => IInv'
<1> SUFFICES ASSUME IInv, [Next]_vars
             PROVE  IInv'
  OBVIOUS
<1>1. ASSUME NEW c \in Drives, Cycle(c)
      PROVE  IInv'
  BY <1>1, CycleMeans DEF IInv
<1>2. CASE UNCHANGED vars
  BY <1>2 DEF vars, IInv, TypeOK, AluComputes
<1> QED
  BY <1>1, <1>2 DEF Next

LEMMA Invariance == Spec => []IInv
  BY InitIInv, NextIInv, PTL DEF Spec

\* For every width, every number of registers and every way to drive the control
\* inputs, registers and output hold words (datapath.v:4-43).
THEOREM TypeCorrect == Spec => []TypeOK
<1>1. IInv => TypeOK
  BY DEF IInv
<1> QED
  BY <1>1, Invariance, PTL

\* The gates compute arithmetic modulo 2^WordBits, for every width: the ripple-carry
\* adder, two's complement, the bitwise operations and both shifts (adder.v:56-77,
\* alu.v:32-62).
THEOREM GatesComputeArithmetic == Spec => []AluComputes
<1>1. IInv => AluComputes
  BY DEF IInv
<1> QED
  BY <1>1, Invariance, PTL

\* A cycle writes at most the selected register, from the operands before the edge,
\* and for MUL and CMP what the ALU has kept (register_file.v:20-28,
\* register.v:14-17, datapath.v:21-41, alu.v:31-39).
THEOREM WritesOneRegister == Spec => RegisterWrites
<1> DEFINE Writes ==
      LET c == control'
      IN  /\ \A r \in Reg \ {c.dst} : c.reset \/ regs'[r] = regs[r]
          /\ c.reset => regs'[c.dst] = 0
          /\ ~c.reset /\ ~c.writeEnable => regs' = regs
          /\ ~c.reset /\ c.writeEnable =>
               IF c.fromImmediate THEN regs'[c.dst] = c.immediate
               ELSE Means(c.op, regs[c.a], regs[c.b], aluOut, regs'[c.dst])
          /\ c.op \in Latched => aluOut' = aluOut
<1>1. IInv /\ [Next]_vars => [Writes]_vars
  <2> SUFFICES ASSUME IInv, Next
               PROVE  Writes
    OBVIOUS
  <2>1. PICK c \in Drives : Cycle(c)
    BY DEF Next
  <2>2. control' = c
    BY <2>1 DEF Cycle
  <2> QED
    BY <2>1, <2>2, CycleMeans DEF IInv
<1>2. RegisterWrites <=> [][Writes]_vars
  BY DEF RegisterWrites
<1> QED
  BY <1>1, <1>2, Invariance, PTL DEF Spec

=============================================================================
