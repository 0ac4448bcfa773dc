----------------------------- MODULE TermNetwork -----------------------------
(***************************************************************************)
(* A network for CausalNetwork whose functions build terms: two values are *)
(* equal only when the same computation gives both. For TLC's runs.        *)
(***************************************************************************)
EXTENDS Integers, Sequences

TermEmbed(token, position) == <<"embed", token, position>>
TermKeyValue(l, x) == <<"kv", l, x>>
TermBlock(l, x, rows) == <<"block", l, x, rows>>
TermLMHead(x) == <<"logits", x>>

RECURSIVE TermActivation(_, _)
TermActivation(l, s) ==
  IF l = 0
    THEN TermEmbed(s[Len(s)], Len(s) - 1)
    ELSE TermBlock(l - 1, TermActivation(l - 1, s),
           [i \in 1 .. Len(s) |->
              TermKeyValue(l - 1, TermActivation(l - 1, SubSeq(s, 1, i)))])

=============================================================================
