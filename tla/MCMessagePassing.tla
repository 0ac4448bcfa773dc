--------------------------- MODULE MCMessagePassing ---------------------------
(* Every graph of three nodes and up to three edges, loops and parallel edges  *)
(* included, with two kinds of features.                                      *)
EXTENDS MessagePassing

MCGraphs == UNION { [1 .. k -> Node \X Node] : k \in 0 .. 3 }
===============================================================================
