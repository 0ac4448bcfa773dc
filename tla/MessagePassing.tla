---------------------------- MODULE MessagePassing ----------------------------
(***************************************************************************)
(* The two graph neural networks: SimpleGNN of GNNs.ipynb, which pools the *)
(* neighbours once, after a layer of its own for every node, and           *)
(* MessagePassingGNN of GNN_Message_Passing.ipynb, which passes messages   *)
(* twice. The nodes are visited one by one.                                *)
(*                                                                         *)
(* A layer's result is the term of what went into it. torch.sum does not   *)
(* see the order of its arguments: it makes a bag.                         *)
(***************************************************************************)
EXTENDS Integers, SequencesExt

CONSTANTS
  N,          \* num_nodes
  Feature,    \* rows of graph.x
  Graphs      \* the values of edge_index, sequences of <<source, target>>

ASSUME GraphAssumption ==
  N \in Nat \ {0} /\ Graphs \subseteq Seq((1 .. N) \X (1 .. N))

Node == 1 .. N

VARIABLES
  gnn,     \* the network
  x,       \* graph.x
  edges,   \* graph.edge_index
  step,    \* "forward", or "pool" from the first layer on
  rounds,  \* poolings left
  feat,    \* what the present layer reads
  output   \* what it has made so far

data == <<gnn, x, edges>>
vars == <<data, step, rounds, feat, output>>

\* A linear layer with relu, applied to every node for itself.
EachNode(layer, rows) == [v \in DOMAIN rows |-> <<layer, rows[v]>>]

Init ==
  /\ gnn \in {"SimpleGNN", "MessagePassingGNN"}
  /\ x \in [Node -> Feature]
  /\ edges \in Graphs
  /\ step = "forward"
  /\ rounds = 0 /\ feat = <<>> /\ output = <<>>

-----------------------------------------------------------------------------
\* forward, up to the first pooling
Forward ==
  /\ step = "forward"
  /\ step' = "pool"
  /\ IF gnn = "SimpleGNN"
       THEN rounds' = 1 /\ feat' = EachNode("nodes_lin", x)
       ELSE rounds' = 2 /\ feat' = x
  /\ output' = <<>>
  /\ UNCHANGED data

\* edge_index[1][edge_index[0] == i]: the targets of i's edges, in their order.
Targets(i) ==
  LET target[k \in 0 .. Len(edges)] ==
        IF k = 0 THEN <<>>
        ELSE IF edges[k][1] = i THEN Append(target[k - 1], edges[k][2]) ELSE target[k - 1]
  IN  target[Len(edges)]

\* Mutated form of Indexes: the node itself is forgotten.
IndexesOfOthers(i) == Targets(i)

\* torch.cat((neighbors_indexes, torch.tensor([i])))
Indexes(i) == Append(Targets(i), i)

\* torch.sum(rows[indexes], dim=0)
Sum(rows, indexes) == ToBag([k \in DOMAIN indexes |-> rows[indexes[k]]])

\* Mutated form of Pool: the rows are updated in place.
PoolInPlace ==
  LET i == Len(output) + 1
  IN  /\ step = "pool" /\ rounds > 0 /\ i <= N
      /\ output' = Append(output, Sum(feat, Indexes(i)))
      /\ feat' = [feat EXCEPT ![i] = <<"pooled", Sum(feat, Indexes(i))>>]
      /\ UNCHANGED <<data, step, rounds>>

\* One round of the loop over the nodes.
Pool ==
  LET i == Len(output) + 1
  IN  /\ step = "pool" /\ rounds > 0 /\ i <= N
      /\ output' = Append(output, Sum(feat, Indexes(i)))
      /\ UNCHANGED <<data, step, rounds, feat>>

\* torch.stack, and the layer on the pooled rows.
Stack ==
  /\ step = "pool" /\ rounds > 0 /\ Len(output) = N
  /\ feat' = EachNode("linear", output)
  /\ output' = <<>>
  /\ rounds' = rounds - 1
  /\ UNCHANGED <<data, step>>

Next == Forward \/ Pool \/ Stack

Spec == Init /\ [][Next]_vars

-----------------------------------------------------------------------------
Predicted == step = "pool" /\ rounds = 0

Multiplicity(e) == Cardinality({k \in DOMAIN edges : edges[k] = e})

\* The relabellings under which the graph and its features look the same.
Automorphisms ==
  { p \in [Node -> Node] :
      /\ \A u, v \in Node : p[u] = p[v] => u = v
      /\ \A v \in Node : x[p[v]] = x[v]
      /\ \A u, v \in Node : Multiplicity(<<p[u], p[v]>>) = Multiplicity(<<u, v>>) }

\* README.md, "What A GNN Operates On": the networks preserve the symmetries of the
\* graph. Nodes that look alike get the same prediction, though they are visited in
\* the order of their numbers and their edges come in the order of edge_index.
SymmetriesPreserved ==
  Predicted => \A p \in Automorphisms, v \in Node : feat[p[v]] = feat[v]

Cited(v) == {v} \union {w \in Node : Multiplicity(<<v, w>>) > 0}

\* A prediction draws on a node's own features and on those of its neighbours, along
\* two edges where messages are passed twice, and on nothing beyond.
ReceptiveField ==
  Predicted => \A v \in Node :
    IF gnn = "SimpleGNN"
      THEN {t[2] : t \in DOMAIN feat[v][2]} = {x[w] : w \in Cited(v)}
      ELSE UNION {DOMAIN t[2] : t \in DOMAIN feat[v][2]}
             = {x[w] : w \in UNION {Cited(u) : u \in Cited(v)}}
===============================================================================
