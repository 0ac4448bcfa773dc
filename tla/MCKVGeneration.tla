--------------------------- MODULE MCKVGeneration ---------------------------
(* KVGeneration on the network of terms.                                   *)
EXTENDS KVGeneration, TermNetwork

CONSTANTS a, b

\* Empty, shorter than, as long as and longer than n_positions.
MCPrompts ==
  {<<>>, <<a>>, <<b, a>>, <<b, a, a, b, a>>, <<b, a, a, b, a, a>>}

\* Negative, where torch.empty refuses; within and beyond n_positions.
MCMaxNew == {-2, 0, 1, 4}

=============================================================================
