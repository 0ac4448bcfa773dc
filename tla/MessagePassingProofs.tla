------------------------ MODULE MessagePassingProofs ------------------------
(***************************************************************************)
(* Proofs about MessagePassing, for any graphs and features: what a        *)
(* network predicts, and what the prediction does and does not depend on.  *)
(***************************************************************************)
EXTENDS MessagePassing, NumberLemmas, FiniteSetTheorems, FunctionTheorems, SequenceTheorems, TLAPS

-----------------------------------------------------------------------------
(* The inductive invariant: what every layer holds, as a function of the   *)
(* graph.                                                                  *)

\* Where a node's sum comes from: its edges' positions, and 0 for the node itself.
Hits(v) == {0} \union {j \in DOMAIN edges : edges[j][1] = v}
Hit(v, j) == IF j = 0 THEN v ELSE edges[j][2]

\* How often each row enters the sum at v, in no order.
Pooled(rows, v) ==
  [t \in {rows[Hit(v, j)] : j \in Hits(v)} |->
     Cardinality({j \in Hits(v) : rows[Hit(v, j)] = t})]

Convolved(rows) == [v \in Node |-> <<"linear", Pooled(rows, v)>>]

\* The rows with so many poolings left.
Layer(left) ==
  IF gnn = "SimpleGNN"
    THEN IF left = 1 THEN EachNode("nodes_lin", x) ELSE Convolved(EachNode("nodes_lin", x))
    ELSE CASE left = 2 -> x [] left = 1 -> Convolved(x) [] OTHER -> Convolved(Convolved(x))

TypeInv ==
  /\ gnn \in {"SimpleGNN", "MessagePassingGNN"}
  /\ x \in [Node -> Feature]
  /\ edges \in Graphs
  /\ step \in {"forward", "pool"}
  /\ rounds \in 0 .. (IF gnn = "SimpleGNN" THEN 1 ELSE 2)

LayerInv ==
  step = "pool" =>
    /\ feat = Layer(rounds)
    /\ Len(output) \in 0 .. N
    /\ output = [i \in 1 .. Len(output) |-> Pooled(feat, i)]

IInv == TypeInv /\ LayerInv

-----------------------------------------------------------------------------
(* Counting.                                                               *)

LEMMA IsBijection ==
  ASSUME NEW A, NEW B, NEW h \in [A -> B],
         \A a, b \in A : h[a] = h[b] => a = b,
         \A b \in B : \E a \in A : h[a] = b
  PROVE  h \in Bijection(A, B)
BY DEF Bijection, Injection, IsInjective, Surjection

\* How often each value is taken.
Counted(f, A) == [t \in {f[a] : a \in A} |-> Cardinality({a \in A : f[a] = t})]

\* What is counted under another name is counted alike.
LEMMA SameCounts ==
  ASSUME NEW A, NEW B, NEW h \in Bijection(A, B), IsFiniteSet(A), NEW f, NEW g,
         \A a \in A : f[a] = g[h[a]]
  PROVE  Counted(f, A) = Counted(g, B)
<1>1. /\ h \in [A -> B]
      /\ \A a, b \in A : h[a] = h[b] => a = b
      /\ \A b \in B : \E a \in A : h[a] = b
  BY Fun_BijectionProperties
<1>2. {f[a] : a \in A} = {g[b] : b \in B}
  BY <1>1
<1>3. ASSUME NEW t
      PROVE  Cardinality({a \in A : f[a] = t}) = Cardinality({b \in B : g[b] = t})
  <2> DEFINE X == {a \in A : f[a] = t}
             Y == {b \in B : g[b] = t}
             r == [a \in X |-> h[a]]
  <2>1. r \in [X -> Y]
    BY <1>1
  <2>2. \A a, b \in X : r[a] = r[b] => a = b
    BY <1>1
  <2>3. \A b \in Y : \E a \in X : r[a] = b
    BY <1>1
  <2>4. IsFiniteSet(X)
    BY FS_Subset
  <2> HIDE DEF X, Y, r
  <2>5. r \in Bijection(X, Y)
    BY <2>1, <2>2, <2>3, IsBijection
  <2>6. Cardinality(Y) = Cardinality(X)
    BY <2>4, <2>5, FS_Bijection DEF ExistsBijection
  <2> QED
    BY <2>6 DEF X, Y
<1> QED
  BY <1>2, <1>3 DEF Counted

LEMMA EdgeFacts ==
  ASSUME TypeInv
  PROVE  /\ Len(edges) \in Nat /\ DOMAIN edges = 1 .. Len(edges) /\ IsFiniteSet(DOMAIN edges)
         /\ \A j \in DOMAIN edges :
              /\ edges[j][1] \in Node /\ edges[j][2] \in Node
              /\ edges[j] = <<edges[j][1], edges[j][2]>>
         /\ \A v : IsFiniteSet(Hits(v))
         /\ \A v \in Node : \A j \in Hits(v) : Hit(v, j) \in Node
<1>1. edges \in Seq(Node \X Node)
  BY GraphAssumption DEF TypeInv, Node
<1>2. Len(edges) \in Nat /\ DOMAIN edges = 1 .. Len(edges)
  BY <1>1
<1>3. IsFiniteSet(DOMAIN edges)
  BY <1>2, FS_Interval
<1>4. \A j \in DOMAIN edges :
        /\ edges[j][1] \in Node /\ edges[j][2] \in Node
        /\ edges[j] = <<edges[j][1], edges[j][2]>>
  <2>1. \A j \in DOMAIN edges : edges[j] \in Node \X Node
    BY <1>1
  <2> QED
    BY <2>1
<1>5. ASSUME NEW v
      PROVE  IsFiniteSet(Hits(v))
  <2> DEFINE J == {j \in DOMAIN edges : edges[j][1] = v}
  <2>1. IsFiniteSet(J)
    BY <1>3, FS_Subset
  <2> HIDE DEF J
  <2>2. IsFiniteSet(J \cup {0})
    BY <2>1, FS_AddElement
  <2>3. Hits(v) = J \cup {0}
    BY DEF Hits, J
  <2> QED
    BY <2>2, <2>3
<1>6. \A v \in Node : \A j \in Hits(v) : Hit(v, j) \in Node
  BY <1>4 DEF Hits, Hit
<1> QED
  BY <1>2, <1>3, <1>4, <1>5, <1>6

-----------------------------------------------------------------------------
(* The mask: Targets has one position to each edge of the node.            *)

LEMMA TargetsEquation ==
  ASSUME TypeInv, NEW v \in Node
  PROVE  \E f \in [0 .. Len(edges) -> Seq(Node)] :
           /\ f[0] = <<>>
           /\ \A i \in 0 .. Len(edges) - 1 :
                f[i + 1] = IF edges[i + 1][1] = v THEN Append(f[i], edges[i + 1][2]) ELSE f[i]
           /\ Targets(v) = f[Len(edges)]
<1> DEFINE n == Len(edges)
           Take(i, s) == IF edges[i][1] = v THEN Append(s, edges[i][2]) ELSE s
           F == [i \in 0 .. n - 1 |-> [s \in Seq(Node) |-> Take(i + 1, s)]]
           G(g) == g = [k \in 0 .. n |-> IF k = 0 THEN <<>> ELSE Take(k, g[k - 1])]
<1>1. n \in Nat /\ <<>> \in Seq(Node) /\ \A i \in 1 .. n : edges[i][2] \in Node
  BY EdgeFacts
<1>2. \A i \in 1 .. n, s \in Seq(Node) : Take(i, s) \in Seq(Node)
  BY <1>1
<1> HIDE DEF n, Take
<1>3. F \in [0 .. n - 1 -> [Seq(Node) -> Seq(Node)]]
  <2>1. \A i \in 0 .. n - 1 : i + 1 \in 1 .. n
    BY <1>1
  <2> QED
    BY <1>2, <2>1
<1>4. PICK f \in [0 .. n -> Seq(Node)] : Iterates(f, n, <<>>, F)
  <2> HIDE DEF F
  <2> QED
    BY <1>1, <1>3, Recursion, Zenon
<1>5. \A i \in 0 .. n - 1 : f[i + 1] = Take(i + 1, f[i])
  <2> SUFFICES ASSUME NEW i \in 0 .. n - 1
               PROVE  f[i + 1] = Take(i + 1, f[i])
    OBVIOUS
  <2>1. f[i + 1] = F[i][f[i]]
    BY <1>4 DEF Iterates
  <2>2. f[i] \in Seq(Node)
    BY <1>1
  <2> QED
    BY <2>1, <2>2
<1>6. G(f)
  <2>1. ASSUME NEW i \in 0 .. n, i # 0
        PROVE  f[i] = Take(i, f[i - 1])
    <3>1. i - 1 \in 0 .. n - 1 /\ (i - 1) + 1 = i
      BY <1>1, <2>1
    <3> QED
      BY <1>5, <3>1
  <2>2. f[0] = <<>>
    BY <1>4 DEF Iterates
  <2> QED
    BY <2>1, <2>2
<1>7. PICK g : G(g) /\ Targets(v) = g[n]
  <2> DEFINE g == CHOOSE g : G(g)
  <2>1. Targets(v) = g[n]
    BY DEF Targets, Take, n
  <2>2. G(g)
    <3> HIDE DEF G
    <3> QED
      BY <1>6
  <2> HIDE DEF G
  <2> QED
    BY <2>1, <2>2
<1>8. g[0] = <<>> /\ \A i \in 0 .. n - 1 : g[i + 1] = Take(i + 1, g[i])
  <2>1. \A i \in 0 .. n - 1 : i + 1 \in 0 .. n /\ i + 1 # 0 /\ (i + 1) - 1 = i
    BY <1>1
  <2> QED
    BY <1>1, <1>7, <2>1
<1>9. 0 .. n \subseteq {i \in 0 .. n : g[i] = f[i]}
  <2> DEFINE P == {i \in 0 .. n : g[i] = f[i]}
  <2>1. 0 \in P
    BY <1>1, <1>4, <1>8 DEF Iterates
  <2>2. ASSUME NEW i \in 0 .. n - 1, i \in P
        PROVE  i + 1 \in P
    <3>1. g[i] = f[i] /\ i + 1 \in 0 .. n
      BY <1>1, <2>2
    <3>2. g[i + 1] = f[i + 1]
      BY <1>5, <1>8, <3>1
    <3> QED
      BY <3>1, <3>2
  <2> HIDE DEF P
  <2>3. 0 .. n \subseteq P
    BY <1>1, <2>1, <2>2, Induction
  <2> QED
    BY <2>3 DEF P
<1>10. Targets(v) = f[n]
  <2>1. n \in 0 .. n
    BY <1>1
  <2> QED
    BY <1>7, <1>9, <2>1
<1> QED
  BY <1>4, <1>5, <1>10 DEF Iterates, Take, n

\* The first edges of v up to position i, and a numbering of them.
Leaving(v, i) == {j \in 1 .. i : edges[j][1] = v}
Numbers(h, s, v, i) ==
  /\ h \in Bijection(1 .. Len(s), Leaving(v, i))
  /\ \A k \in 1 .. Len(s) : s[k] = edges[h[k]][2]

LEMMA TargetsNumbered ==
  ASSUME TypeInv, NEW v \in Node
  PROVE  /\ Targets(v) \in Seq(Node)
         /\ \E h : Numbers(h, Targets(v), v, Len(edges))
<1> DEFINE n == Len(edges)
<1>1. n \in Nat /\ \A i \in 1 .. n : edges[i][2] \in Node
  BY EdgeFacts
<1>2. PICK f \in [0 .. n -> Seq(Node)] :
        /\ f[0] = <<>>
        /\ \A i \in 0 .. n - 1 :
             f[i + 1] = IF edges[i + 1][1] = v THEN Append(f[i], edges[i + 1][2]) ELSE f[i]
        /\ Targets(v) = f[n]
  BY TargetsEquation
<1> HIDE DEF n
<1> DEFINE P == {i \in 0 .. n : \E h : Numbers(h, f[i], v, i)}
<1>3. 0 \in P
  <2>1. Len(f[0]) = 0 /\ 1 .. 0 = {} /\ Leaving(v, 0) = {}
    BY <1>2 DEF Leaving
  <2> DEFINE h == [k \in 1 .. 0 |-> 0]
  <2>2. h \in [1 .. 0 -> Leaving(v, 0)]
    OBVIOUS
  <2>3. h \in Bijection(1 .. 0, Leaving(v, 0))
    BY <2>1, <2>2, IsBijection
  <2>4. Numbers(h, f[0], v, 0)
    BY <2>1, <2>3 DEF Numbers
  <2> HIDE DEF h
  <2> QED
    BY <1>1, <2>4
<1>4. ASSUME NEW i \in 0 .. n - 1, i \in P
      PROVE  i + 1 \in P
  <2>1. i \in Nat /\ i + 1 \in 1 .. n /\ i + 1 \in 0 .. n /\ f[i] \in Seq(Node)
    BY <1>1
  <2>2. PICK h : Numbers(h, f[i], v, i)
    BY <1>4
  <2> DEFINE s == f[i]
             m == Len(s)
  <2>3. /\ m \in Nat
        /\ h \in [1 .. m -> Leaving(v, i)]
        /\ \A a, b \in 1 .. m : h[a] = h[b] => a = b
        /\ \A j \in Leaving(v, i) : \E a \in 1 .. m : h[a] = j
        /\ \A k \in 1 .. m : s[k] = edges[h[k]][2]
    BY <2>1, <2>2, Fun_BijectionProperties DEF Numbers
  <2>4. CASE edges[i + 1][1] = v
    <3> DEFINE t == Append(s, edges[i + 1][2])
               g == [k \in 1 .. m + 1 |-> IF k = m + 1 THEN i + 1 ELSE h[k]]
    <3>1. f[i + 1] = t
      BY <1>2, <2>4
    <3>2. /\ Len(t) = m + 1 /\ t[m + 1] = edges[i + 1][2]
          /\ \A k \in 1 .. m : t[k] = s[k]
      BY <1>1, <2>1, AppendProperties
    <3>3. Leaving(v, i + 1) = Leaving(v, i) \union {i + 1} /\ i + 1 \notin Leaving(v, i)
      BY <2>1, <2>4 DEF Leaving
    <3> HIDE DEF t, m, s
    <3>4. g \in [1 .. m + 1 -> Leaving(v, i + 1)]
      BY <2>3, <3>3
    <3>5. \A a, b \in 1 .. m + 1 : g[a] = g[b] => a = b
      BY <2>3, <3>3
    <3>6. \A j \in Leaving(v, i + 1) : \E a \in 1 .. m + 1 : g[a] = j
      <4> SUFFICES ASSUME NEW j \in Leaving(v, i + 1)
                   PROVE  \E a \in 1 .. m + 1 : g[a] = j
        OBVIOUS
      <4>1. CASE j = i + 1
        BY <2>3, <4>1
      <4>2. CASE j # i + 1
        <5>1. PICK a \in 1 .. m : h[a] = j
          BY <2>3, <3>3, <4>2
        <5>2. a \in 1 .. m + 1 /\ a # m + 1
          BY <2>3
        <5> QED
          BY <5>1, <5>2
      <4> QED
        BY <4>1, <4>2
    <3>7. g \in Bijection(1 .. m + 1, Leaving(v, i + 1))
      <4> HIDE DEF g
      <4> QED
        BY <3>4, <3>5, <3>6, IsBijection
    <3>8. \A k \in 1 .. m + 1 : t[k] = edges[g[k]][2]
      BY <2>3, <3>2
    <3>9. Numbers(g, f[i + 1], v, i + 1)
      <4> HIDE DEF g
      <4> QED
        BY <3>1, <3>2, <3>7, <3>8 DEF Numbers
    <3> HIDE DEF g
    <3> QED
      BY <2>1, <3>9
  <2>5. CASE edges[i + 1][1] # v
    <3>1. f[i + 1] = s
      BY <1>2, <2>5
    <3>2. Leaving(v, i + 1) = Leaving(v, i)
      BY <2>1, <2>5 DEF Leaving
    <3>3. Numbers(h, f[i + 1], v, i + 1)
      BY <2>2, <3>1, <3>2 DEF Numbers
    <3> QED
      BY <2>1, <3>3
  <2> QED
    BY <2>4, <2>5
<1>5. n \in P
  <2> HIDE DEF P
  <2>1. 0 .. n \subseteq P
    BY <1>1, <1>3, <1>4, Induction
  <2> QED
    BY <1>1, <2>1
<1>6. f[n] \in Seq(Node)
  BY <1>1
<1> QED
  BY <1>2, <1>5, <1>6 DEF n

\* What is summed at a node are the rows its edges lead to, and its own.
LEMMA SumIsPooled ==
  ASSUME TypeInv, NEW v \in Node, NEW rows
  PROVE  Sum(rows, Indexes(v)) = Pooled(rows, v)
<1> DEFINE s == Targets(v)
           m == Len(s)
           u == Append(s, v)
           L == Leaving(v, Len(edges))
<1>1. s \in Seq(Node)
  BY TargetsNumbered
<1>2. PICK h : Numbers(h, s, v, Len(edges))
  BY TargetsNumbered
<1>3. /\ m \in Nat /\ h \in [1 .. m -> L]
      /\ \A a, b \in 1 .. m : h[a] = h[b] => a = b
      /\ \A j \in L : \E a \in 1 .. m : h[a] = j
      /\ \A k \in 1 .. m : s[k] = edges[h[k]][2]
  BY <1>1, <1>2, Fun_BijectionProperties DEF Numbers
<1>4. /\ Indexes(v) = u /\ DOMAIN u = 1 .. m + 1 /\ u[m + 1] = v
      /\ \A k \in 1 .. m : u[k] = s[k]
  <2>1. u \in Seq(Node) /\ Len(u) = m + 1 /\ u[m + 1] = v /\ \A k \in 1 .. m : u[k] = s[k]
    BY <1>1, AppendProperties
  <2> HIDE DEF u, m, s
  <2>2. DOMAIN u = 1 .. m + 1
    BY <2>1
  <2> QED
    BY <2>1, <2>2 DEF Indexes, u, s
<1>5. Hits(v) = L \union {0} /\ 0 \notin L /\ \A j \in L : Hit(v, j) = edges[j][2]
  BY EdgeFacts DEF Hits, Hit, Leaving
<1> HIDE DEF s, m, u, L
<1> DEFINE A == 1 .. m + 1
           g == [k \in A |-> IF k = m + 1 THEN 0 ELSE h[k]]
           a == [k \in A |-> rows[u[k]]]
           b == [j \in Hits(v) |-> rows[Hit(v, j)]]
<1>6. g \in Bijection(A, Hits(v))
  <2>1. g \in [A -> Hits(v)]
    BY <1>3, <1>5
  <2>2. \A k, l \in A : g[k] = g[l] => k = l
    BY <1>3, <1>5
  <2>3. \A j \in Hits(v) : \E k \in A : g[k] = j
    <3> SUFFICES ASSUME NEW j \in Hits(v)
                 PROVE  \E k \in A : g[k] = j
      OBVIOUS
    <3>1. CASE j = 0
      BY <1>3, <3>1
    <3>2. CASE j # 0
      <4>1. PICK k \in 1 .. m : h[k] = j
        BY <1>3, <1>5, <3>2
      <4>2. k \in A /\ k # m + 1
        BY <1>3
      <4> QED
        BY <4>1, <4>2
    <3> QED
      BY <3>1, <3>2
  <2> HIDE DEF g, A
  <2> QED
    BY <2>1, <2>2, <2>3, IsBijection
<1>7. \A k \in A : a[k] = b[g[k]]
  <2> SUFFICES ASSUME NEW k \in A
               PROVE  a[k] = b[g[k]]
    OBVIOUS
  <2>1. CASE k = m + 1
    BY <1>4, <1>5, <2>1 DEF Hit
  <2>2. CASE k # m + 1
    <3>1. k \in 1 .. m
      BY <1>3, <2>2
    <3>2. g[k] = h[k] /\ h[k] \in L
      BY <1>3, <2>2, <3>1
    <3>3. b[g[k]] = rows[edges[h[k]][2]]
      BY <1>5, <3>2
    <3> QED
      BY <1>3, <1>4, <3>1, <3>3
  <2> QED
    BY <2>1, <2>2
<1>8. IsFiniteSet(A)
  BY <1>3, FS_Interval
<1>9. Sum(rows, u) = Counted(a, A)
  BY <1>4 DEF Sum, ToBag, Range, Counted
<1>10. Pooled(rows, v) = Counted(b, Hits(v))
  BY DEF Pooled, Counted
<1> HIDE DEF A, g, a, b
<1>11. Counted(a, A) = Counted(b, Hits(v))
  BY <1>6, <1>7, <1>8, SameCounts
<1> QED
  BY <1>4, <1>9, <1>10, <1>11

-----------------------------------------------------------------------------
(* Symmetry and reach of one pooling.                                      *)

Symmetric(rows, p) == \A v \in Node : rows[p[v]] = rows[v]

EdgesAt(v, w) == {j \in DOMAIN edges : edges[j] = <<v, w>>}

LEMMA AutomorphismFacts ==
  ASSUME TypeInv, NEW p \in Automorphisms
  PROVE  /\ p \in [Node -> Node]
         /\ \A u, v \in Node : p[u] = p[v] => u = v
         /\ \A w \in Node : \E v \in Node : p[v] = w
         /\ Symmetric(x, p)
         /\ \A v, w \in Node : ExistsBijection(EdgesAt(v, w), EdgesAt(p[v], p[w]))
<1>1. /\ p \in [Node -> Node]
      /\ \A u, v \in Node : p[u] = p[v] => u = v
      /\ \A v \in Node : x[p[v]] = x[v]
      /\ \A u, v \in Node : Multiplicity(<<p[u], p[v]>>) = Multiplicity(<<u, v>>)
  BY DEF Automorphisms
<1>2. p \in Surjection(Node, Node)
  <2>1. p \in Injection(Node, Node)
    BY <1>1 DEF Injection, IsInjective
  <2>2. IsFiniteSet(Node)
    BY GraphAssumption, FS_Interval DEF Node
  <2> QED
    BY <2>1, <2>2, FS_Injection
<1>3. \A w \in Node : \E v \in Node : p[v] = w
  BY <1>2, Fun_SurjectionProperties
<1>4. ASSUME NEW v \in Node, NEW w \in Node
      PROVE  ExistsBijection(EdgesAt(v, w), EdgesAt(p[v], p[w]))
  <2>1. /\ Cardinality(EdgesAt(v, w)) = Multiplicity(<<v, w>>)
        /\ Cardinality(EdgesAt(p[v], p[w])) = Multiplicity(<<p[v], p[w]>>)
    BY DEF EdgesAt, Multiplicity
  <2>2. IsFiniteSet(EdgesAt(v, w)) /\ IsFiniteSet(EdgesAt(p[v], p[w]))
    BY EdgeFacts, FS_Subset DEF EdgesAt
  <2> QED
    BY <1>1, <2>1, <2>2, FS_SameCardinalityBij
<1> QED
  BY <1>1, <1>3, <1>4 DEF Symmetric

\* Nodes that look alike pool alike, wherever their edges stand in edge_index.
LEMMA PooledSymmetric ==
  ASSUME TypeInv, NEW p \in Automorphisms, NEW rows, Symmetric(rows, p), NEW v \in Node
  PROVE  Pooled(rows, p[v]) = Pooled(rows, v)
<1>1. /\ p \in [Node -> Node] /\ p[v] \in Node
      /\ \A u, w \in Node : p[u] = p[w] => u = w
      /\ \A w \in Node : \E u \in Node : p[u] = w
      /\ \A u, w \in Node : ExistsBijection(EdgesAt(u, w), EdgesAt(p[u], p[w]))
  BY AutomorphismFacts
<1> DEFINE b == [w \in Node |-> CHOOSE h : h \in Bijection(EdgesAt(v, w), EdgesAt(p[v], p[w]))]
<1>2. \A w \in Node : b[w] \in Bijection(EdgesAt(v, w), EdgesAt(p[v], p[w]))
  BY <1>1 DEF ExistsBijection
<1> HIDE DEF b
<1>3. \A w \in Node :
        /\ \A j \in EdgesAt(v, w) : b[w][j] \in EdgesAt(p[v], p[w])
        /\ \A j, k \in EdgesAt(v, w) : b[w][j] = b[w][k] => j = k
        /\ \A i \in EdgesAt(p[v], p[w]) : \E j \in EdgesAt(v, w) : b[w][j] = i
  <2> SUFFICES ASSUME NEW w \in Node
               PROVE  /\ \A j \in EdgesAt(v, w) : b[w][j] \in EdgesAt(p[v], p[w])
                      /\ \A j, k \in EdgesAt(v, w) : b[w][j] = b[w][k] => j = k
                      /\ \A i \in EdgesAt(p[v], p[w]) : \E j \in EdgesAt(v, w) : b[w][j] = i
    OBVIOUS
  <2> DEFINE h == b[w]
  <2>1. h \in Bijection(EdgesAt(v, w), EdgesAt(p[v], p[w]))
    BY <1>2
  <2> HIDE DEF h
  <2>2. /\ h \in [EdgesAt(v, w) -> EdgesAt(p[v], p[w])]
        /\ \A j, k \in EdgesAt(v, w) : h[j] = h[k] => j = k
        /\ \A i \in EdgesAt(p[v], p[w]) : \E j \in EdgesAt(v, w) : h[j] = i
    BY <2>1, Fun_BijectionProperties
  <2> QED
    BY <2>2 DEF h
<1>4. \A u \in Node : \A j \in Hits(u) \ {0} :
        edges[j][2] \in Node /\ j \in EdgesAt(u, edges[j][2]) /\ Hit(u, j) = edges[j][2]
  BY EdgeFacts DEF Hits, Hit, EdgesAt
<1>5. \A u, w \in Node : \A j \in EdgesAt(u, w) : j \in Hits(u) \ {0} /\ edges[j][2] = w
  BY EdgeFacts DEF Hits, EdgesAt
<1> DEFINE h == [j \in Hits(v) |-> IF j = 0 THEN 0 ELSE b[edges[j][2]][j]]
           f == [j \in Hits(v) |-> rows[Hit(v, j)]]
           g == [j \in Hits(p[v]) |-> rows[Hit(p[v], j)]]
<1>6. 0 \in Hits(v) /\ 0 \in Hits(p[v]) /\ Hit(v, 0) = v /\ Hit(p[v], 0) = p[v]
  BY DEF Hits, Hit
<1>7. \A j \in Hits(v) \ {0} :
        /\ h[j] \in Hits(p[v]) \ {0}
        /\ h[j] = b[edges[j][2]][j]
        /\ edges[h[j]][2] = p[edges[j][2]]
  <2> SUFFICES ASSUME NEW j \in Hits(v) \ {0}
               PROVE  /\ h[j] \in Hits(p[v]) \ {0}
                      /\ h[j] = b[edges[j][2]][j]
                      /\ edges[h[j]][2] = p[edges[j][2]]
    OBVIOUS
  <2> DEFINE w == edges[j][2]
  <2>1. w \in Node /\ j \in EdgesAt(v, w) /\ h[j] = b[w][j] /\ p[w] \in Node
    BY <1>1, <1>4
  <2>2. h[j] \in EdgesAt(p[v], p[w])
    BY <1>3, <2>1
  <2> HIDE DEF w, h
  <2>3. h[j] \in Hits(p[v]) \ {0} /\ edges[h[j]][2] = p[w]
    BY <1>1, <1>5, <2>1, <2>2
  <2> QED
    BY <2>1, <2>3 DEF w
<1>8. h \in [Hits(v) -> Hits(p[v])] /\ h[0] = 0
  BY <1>6, <1>7
<1>9. \A j, k \in Hits(v) : h[j] = h[k] => j = k
  <2> SUFFICES ASSUME NEW j \in Hits(v), NEW k \in Hits(v), h[j] = h[k]
               PROVE  j = k
    OBVIOUS
  <2> HIDE DEF h
  <2>1. CASE j = 0 \/ k = 0
    BY <1>7, <1>8, <2>1
  <2>2. CASE j # 0 /\ k # 0
    <3>1. edges[j][2] = edges[k][2]
      BY <1>1, <1>4, <1>7, <2>2
    <3> DEFINE w == edges[j][2]
    <3>2. w \in Node /\ j \in EdgesAt(v, w) /\ k \in EdgesAt(v, w)
      BY <1>4, <2>2, <3>1
    <3>3. b[w][j] = b[w][k]
      BY <1>7, <2>2, <3>1
    <3> HIDE DEF w
    <3> QED
      BY <1>3, <3>2, <3>3
  <2> QED
    BY <2>1, <2>2
<1>10. \A i \in Hits(p[v]) : \E j \in Hits(v) : h[j] = i
  <2> SUFFICES ASSUME NEW i \in Hits(p[v])
               PROVE  \E j \in Hits(v) : h[j] = i
    OBVIOUS
  <2>1. CASE i = 0
    BY <1>6, <1>8, <2>1
  <2>2. CASE i # 0
    <3>1. edges[i][2] \in Node /\ i \in EdgesAt(p[v], edges[i][2])
      BY <1>1, <1>4, <2>2
    <3>2. PICK w \in Node : p[w] = edges[i][2]
      BY <1>1, <3>1
    <3>3. PICK j \in EdgesAt(v, w) : b[w][j] = i
      BY <1>3, <3>1, <3>2
    <3>4. j \in Hits(v) \ {0} /\ edges[j][2] = w
      BY <1>5, <3>3
    <3>5. h[j] = i
      BY <1>7, <3>3, <3>4
    <3> QED
      BY <3>4, <3>5
  <2> QED
    BY <2>1, <2>2
<1>11. \A j \in Hits(v) : f[j] = g[h[j]]
  <2> SUFFICES ASSUME NEW j \in Hits(v)
               PROVE  f[j] = g[h[j]]
    OBVIOUS
  <2>1. h[j] \in Hits(p[v]) /\ Hit(v, j) \in Node
    BY <1>8, EdgeFacts
  <2>2. Hit(p[v], h[j]) = p[Hit(v, j)]
    <3>1. CASE j = 0
      BY <1>6, <1>8, <3>1
    <3>2. CASE j # 0
      <4>1. h[j] \in Hits(p[v]) \ {0} /\ edges[h[j]][2] = p[edges[j][2]]
        BY <1>7, <3>2
      <4> HIDE DEF h
      <4> QED
        BY <1>1, <1>4, <3>2, <4>1
    <3> QED
      BY <3>1, <3>2
  <2> HIDE DEF h
  <2>3. rows[p[Hit(v, j)]] = rows[Hit(v, j)]
    BY <2>1 DEF Symmetric
  <2> QED
    BY <2>1, <2>2, <2>3
<1>12. Pooled(rows, v) = Counted(f, Hits(v)) /\ Pooled(rows, p[v]) = Counted(g, Hits(p[v]))
  BY DEF Pooled, Counted
<1> HIDE DEF f, g, h
<1>13. h \in Bijection(Hits(v), Hits(p[v]))
  BY <1>8, <1>9, <1>10, IsBijection
<1>14. Counted(f, Hits(v)) = Counted(g, Hits(p[v]))
  <2>1. IsFiniteSet(Hits(v))
    BY EdgeFacts
  <2> QED
    BY <1>11, <1>13, <2>1, SameCounts
<1> QED
  BY <1>12, <1>14

\* A sum draws on the rows of the node and of those it cites, and on no others.
LEMMA PooledReach ==
  ASSUME TypeInv, NEW v \in Node, NEW rows
  PROVE  DOMAIN Pooled(rows, v) = {rows[w] : w \in Cited(v)}
<1>1. DOMAIN Pooled(rows, v) = {rows[Hit(v, j)] : j \in Hits(v)}
  BY DEF Pooled
<1>2. ASSUME NEW w \in Node
      PROVE  Multiplicity(<<v, w>>) > 0 <=> \E j \in DOMAIN edges : edges[j] = <<v, w>>
  <2>1. IsFiniteSet(EdgesAt(v, w)) /\ Multiplicity(<<v, w>>) = Cardinality(EdgesAt(v, w))
    BY EdgeFacts, FS_Subset DEF EdgesAt, Multiplicity
  <2>2. Multiplicity(<<v, w>>) \in Nat /\ (Multiplicity(<<v, w>>) = 0 <=> EdgesAt(v, w) = {})
    BY <2>1, FS_CardinalityType, FS_EmptySet
  <2> QED
    BY <2>2 DEF EdgesAt
<1>3. \A j \in Hits(v) : Hit(v, j) \in Cited(v)
  <2> SUFFICES ASSUME NEW j \in Hits(v), j # 0
               PROVE  Hit(v, j) \in Cited(v)
    BY DEF Hit, Cited
  <2>1. j \in DOMAIN edges /\ edges[j] = <<v, edges[j][2]>> /\ edges[j][2] \in Node
    BY EdgeFacts DEF Hits
  <2>2. Multiplicity(<<v, edges[j][2]>>) > 0
    BY <1>2, <2>1
  <2> QED
    BY <2>1, <2>2 DEF Hit, Cited
<1>4. \A w \in Cited(v) : \E j \in Hits(v) : Hit(v, j) = w
  <2> SUFFICES ASSUME NEW w \in Cited(v)
               PROVE  \E j \in Hits(v) : Hit(v, j) = w
    OBVIOUS
  <2>1. CASE w = v
    BY <2>1 DEF Hits, Hit
  <2>2. CASE w # v
    <3>1. w \in Node /\ Multiplicity(<<v, w>>) > 0
      BY <2>2 DEF Cited
    <3>2. PICK j \in DOMAIN edges : edges[j] = <<v, w>>
      BY <1>2, <3>1
    <3>3. j # 0 /\ edges[j][1] = v /\ edges[j][2] = w
      BY <3>2, EdgeFacts
    <3>4. j \in Hits(v) /\ Hit(v, j) = w
      BY <3>2, <3>3 DEF Hits, Hit
    <3> QED
      BY <3>4
  <2> QED
    BY <2>1, <2>2
<1> QED
  BY <1>1, <1>3, <1>4

-----------------------------------------------------------------------------
(* The invariant.                                                          *)

LEMMA InitIInv == Init => IInv
BY DEF Init, IInv, TypeInv, LayerInv

\* A layer changes only with the data it is made of.
LEMMA Unchanging ==
  ASSUME UNCHANGED data
  PROVE  /\ \A left : Layer(left)' = Layer(left)
         /\ \A rows, v : Pooled(rows, v)' = Pooled(rows, v)
BY DEF data, Layer, Pooled, Hits, Hit, Convolved, EachNode

LEMMA ForwardKeeps ==
  ASSUME IInv, Forward
  PROVE  IInv'
<1>1. UNCHANGED data /\ step' = "pool" /\ output' = <<>>
  BY DEF Forward
<1>2. TypeInv'
  BY <1>1 DEF Forward, IInv, TypeInv, data
<1>3. feat' = Layer(rounds')
  BY DEF Forward, Layer, IInv, TypeInv
<1>4. Layer(rounds)' = Layer(rounds')
  BY <1>1 DEF data, Layer, Pooled, Hits, Hit, Convolved, EachNode
<1>5. Len(output') = 0 /\ output' = [i \in 1 .. 0 |-> Pooled(feat', i)]
  BY <1>1
<1> QED
  BY <1>1, <1>2, <1>3, <1>4, <1>5, GraphAssumption DEF IInv, LayerInv

LEMMA PoolKeeps ==
  ASSUME IInv, Pool
  PROVE  IInv'
<1> DEFINE n == Len(output)
           e == Sum(feat, Indexes(n + 1))
<1>1. /\ UNCHANGED data /\ step = "pool" /\ step' = step /\ rounds' = rounds /\ feat' = feat
      /\ n + 1 <= N /\ output' = Append(output, e)
  BY DEF Pool
<1>2. /\ TypeInv /\ feat = Layer(rounds) /\ n \in 0 .. N /\ N \in Nat
      /\ output = [i \in 1 .. n |-> Pooled(feat, i)]
  BY <1>1, GraphAssumption DEF IInv, LayerInv
<1>3. TypeInv'
  BY <1>1, <1>2 DEF TypeInv, data
<1>4. e = Pooled(feat, n + 1)
  <2>1. n + 1 \in Node
    BY <1>1, <1>2 DEF Node
  <2> QED
    BY <1>2, <2>1, SumIsPooled
<1>5. output' = [i \in 1 .. n + 1 |-> Pooled(feat, i)] /\ Len(output') = n + 1
  <2> DEFINE S == {Pooled(feat, i) : i \in 1 .. n + 1}
             a == Append(output, e)
  <2>1. n \in Nat /\ e \in S
    BY <1>2, <1>4
  <2>2. output \in Seq(S)
    BY <1>2, <2>1
  <2> HIDE DEF n, e, S
  <2>3. a \in Seq(S) /\ Len(a) = n + 1 /\ a[n + 1] = e /\ \A i \in 1 .. n : a[i] = output[i]
    BY <2>1, <2>2, AppendProperties DEF n
  <2> HIDE DEF a
  <2>4. a \in [1 .. n + 1 -> S]
    BY <2>3, LenProperties
  <2>5. \A i \in 1 .. n + 1 : a[i] = Pooled(feat, i)
    BY <1>2, <1>4, <2>1, <2>3
  <2>6. a = [i \in 1 .. n + 1 |-> Pooled(feat, i)]
    BY <2>4, <2>5, Zenon
  <2> QED
    BY <1>1, <2>3, <2>6 DEF a
<1> HIDE DEF n, e
<1>6. Layer(rounds)' = Layer(rounds) /\ \A i : Pooled(feat, i)' = Pooled(feat, i)
  BY <1>1 DEF data, Layer, Pooled, Hits, Hit, Convolved, EachNode
<1>7. n + 1 \in 0 .. N
  BY <1>1, <1>2
<1>8. output' = [i \in 1 .. Len(output') |-> Pooled(feat, i)']
  BY <1>5, <1>6
<1> QED
  BY <1>1, <1>2, <1>3, <1>5, <1>6, <1>7, <1>8 DEF IInv, LayerInv

\* What all nodes have pooled becomes the next layer.
LEMMA StackKeeps ==
  ASSUME IInv, Stack
  PROVE  IInv'
<1>1. /\ UNCHANGED data /\ step = "pool" /\ step' = step /\ rounds > 0 /\ rounds' = rounds - 1
      /\ Len(output) = N /\ output' = <<>> /\ feat' = EachNode("linear", output)
  BY DEF Stack
<1>2. /\ TypeInv /\ feat = Layer(rounds)
      /\ output = [i \in Node |-> Pooled(feat, i)]
  BY <1>1 DEF IInv, LayerInv, Node
<1>3. TypeInv'
  BY <1>1, <1>2 DEF TypeInv, data
<1>4. feat' = Convolved(Layer(rounds))
  BY <1>1, <1>2 DEF EachNode, Convolved
<1>5. Convolved(Layer(rounds)) = Layer(rounds - 1)
  <2> gnn \in {"SimpleGNN", "MessagePassingGNN"}
    BY <1>2 DEF TypeInv
  <2>1. rounds \in Nat /\ (gnn = "SimpleGNN" => rounds = 1) /\ (gnn # "SimpleGNN" => rounds \in {1, 2})
    BY <1>1, <1>2 DEF TypeInv
  <2> QED
    BY <2>1 DEF Layer
<1>6. Layer(rounds)' = Layer(rounds')
  BY <1>1 DEF data, Layer, Pooled, Hits, Hit, Convolved, EachNode
<1>7. Len(output') = 0 /\ output' = [i \in 1 .. 0 |-> Pooled(feat', i)]
  BY <1>1
<1> QED
  BY <1>1, <1>3, <1>4, <1>5, <1>6, <1>7, GraphAssumption DEF IInv, LayerInv

LEMMA NextIInv == IInv /\ [Next]_vars => IInv'
<1> SUFFICES ASSUME IInv, [Next]_vars
             PROVE  IInv'
  OBVIOUS
<1>1. CASE UNCHANGED vars
  <2>1. UNCHANGED <<data, step, rounds, feat, output>>
    BY <1>1 DEF vars
  <2>2. TypeInv'
    BY <2>1 DEF IInv, TypeInv, data
  <2>3. LayerInv'
    <3>1. Layer(rounds)' = Layer(rounds) /\ \A i : Pooled(feat, i)' = Pooled(feat, i)
      BY <2>1 DEF data, Layer, Pooled, Hits, Hit, Convolved, EachNode
    <3>2. [i \in 1 .. Len(output) |-> Pooled(feat, i)]' = [i \in 1 .. Len(output) |-> Pooled(feat, i)]
      BY <2>1, <3>1
    <3> QED
      BY <2>1, <3>1, <3>2 DEF IInv, LayerInv
  <2> QED
    BY <2>2, <2>3 DEF IInv
<1> QED
  BY <1>1, ForwardKeeps, PoolKeeps, StackKeeps DEF Next

-----------------------------------------------------------------------------
(* The theorems.                                                           *)

\* At every moment the rows and the sums made of them are those the graph determines,
\* however its edges are ordered.
THEOREM InductiveInvariant == Spec => []IInv
<1> QED
  BY InitIInv, NextIInv, PTL DEF Spec

\* README.md, "What A GNN Operates On": for any graph, nodes that look alike get the
\* same prediction.
THEOREM SymmetryIsKept == Spec => []SymmetriesPreserved
<1>1. ASSUME IInv
      PROVE  SymmetriesPreserved
  <2> SUFFICES ASSUME Predicted, NEW p \in Automorphisms
               PROVE  Symmetric(feat, p)
    BY DEF SymmetriesPreserved, Symmetric
  <2>1. TypeInv /\ feat = Layer(0)
    BY <1>1 DEF IInv, LayerInv, Predicted
  <2>2. p \in [Node -> Node] /\ Symmetric(x, p) /\ DOMAIN x = Node
    BY <2>1, AutomorphismFacts DEF TypeInv
  <2>3. Symmetric(EachNode("nodes_lin", x), p)
    BY <2>2 DEF Symmetric, EachNode
  <2>4. ASSUME NEW rows, Symmetric(rows, p)
        PROVE  Symmetric(Convolved(rows), p)
    <3>1. \A v \in Node : p[v] \in Node /\ Pooled(rows, p[v]) = Pooled(rows, v)
      BY <2>1, <2>2, <2>4, PooledSymmetric
    <3> QED
      BY <3>1 DEF Symmetric, Convolved
  <2> QED
    BY <2>1, <2>2, <2>3, <2>4 DEF Layer
<1> QED
  BY <1>1, InductiveInvariant, PTL

\* For any graph a prediction draws on the node and its neighbours, along two edges
\* where messages are passed twice, and on nothing beyond.
THEOREM ReachIsTwoEdges == Spec => []ReceptiveField
<1>1. ASSUME IInv
      PROVE  ReceptiveField
  <2> SUFFICES ASSUME Predicted, NEW v \in Node
               PROVE  IF gnn = "SimpleGNN"
                        THEN {t[2] : t \in DOMAIN feat[v][2]} = {x[w] : w \in Cited(v)}
                        ELSE UNION {DOMAIN t[2] : t \in DOMAIN feat[v][2]}
                               = {x[w] : w \in UNION {Cited(u) : u \in Cited(v)}}
    BY DEF ReceptiveField
  <2>1. TypeInv /\ feat = Layer(0) /\ DOMAIN x = Node
    BY <1>1 DEF IInv, LayerInv, Predicted, TypeInv
  <2>2. \A u \in Node : Cited(u) \subseteq Node
    BY DEF Cited
  <2>3. CASE gnn = "SimpleGNN"
    <3> DEFINE rows == EachNode("nodes_lin", x)
    <3>1. feat[v][2] = Pooled(rows, v)
      BY <2>1, <2>3 DEF Layer, Convolved
    <3>2. DOMAIN Pooled(rows, v) = {rows[w] : w \in Cited(v)}
      BY <2>1, PooledReach
    <3>3. \A w \in Cited(v) : rows[w][2] = x[w]
      BY <2>1, <2>2 DEF EachNode
    <3> HIDE DEF rows
    <3> QED
      BY <2>3, <3>1, <3>2, <3>3
  <2>4. CASE gnn # "SimpleGNN"
    <3> DEFINE rows == Convolved(x)
    <3>1. feat[v][2] = Pooled(rows, v)
      BY <2>1, <2>4 DEF Layer, Convolved
    <3>2. DOMAIN Pooled(rows, v) = {rows[u] : u \in Cited(v)}
      BY <2>1, PooledReach
    <3>3. \A u \in Cited(v) : DOMAIN rows[u][2] = {x[w] : w \in Cited(u)}
      <4> SUFFICES ASSUME NEW u \in Cited(v)
                   PROVE  DOMAIN rows[u][2] = {x[w] : w \in Cited(u)}
        OBVIOUS
      <4>1. u \in Node /\ rows[u][2] = Pooled(x, u)
        BY <2>2 DEF Convolved
      <4> QED
        BY <2>1, <4>1, PooledReach
    <3> HIDE DEF rows
    <3>4. UNION {DOMAIN t[2] : t \in DOMAIN feat[v][2]} = UNION {{x[w] : w \in Cited(u)} : u \in Cited(v)}
      BY <3>1, <3>2, <3>3
    <3> QED
      BY <2>4, <3>4
  <2> QED
    BY <2>3, <2>4
<1> QED
  BY <1>1, InductiveInvariant, PTL

=============================================================================
