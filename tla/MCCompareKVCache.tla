-------------------------- MODULE MCCompareKVCache --------------------------
(* CompareKVCache on the network of terms.                                 *)
EXTENDS CompareKVCache, TermNetwork

CONSTANTS a, b

\* Shorter than, as long as and longer than n_positions.
MCPrompts == {<<a>>, <<b, a>>, <<b, a, a, b>>, <<b, a, a, b, a, b>>}

\* Negative, where torch.empty refuses; within and beyond n_positions.
MCMaxNew == {-2, 0, 3}

=============================================================================
