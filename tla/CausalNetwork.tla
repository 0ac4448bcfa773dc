--------------------------- MODULE CausalNetwork ---------------------------
(***************************************************************************)
(* The decoder-only transformer of KV_Cache/model.py, as far as text       *)
(* generation can tell: which values every activation is computed from.    *)
(* The arithmetic (layer norms, projections, softmax, MLP) is uninterpreted*)
(* so that two values are equal only when they are computed alike, and     *)
(* what is shown holds whatever the weights are.                           *)
(***************************************************************************)
EXTENDS Integers, Sequences

CONSTANTS
  Token,            \* the vocabulary
  NumLayers,        \* len(self.transformer_blocks)
  NPositions,       \* config.n_positions, the rows of wpe
  Embed(_, _),      \* wte[token] + wpe[position]
  KeyValue(_, _),   \* block l, input activation -> the (k, v) row it projects
  Block(_, _, _),   \* block l, input activation, attended rows -> its output
  LMHead(_),          \* ln_f and lm_head: the logits of an activation
  Activation(_, _)  \* reference: input of block l at the last token of a text

Layer == 0 .. NumLayers - 1

\* The non-empty texts of n tokens.
Text(n) == [1 .. n -> Token]

Prefix(s, n) == [i \in 1 .. n |-> s[i]]

\* The rows block l attends to at the last token of a text of n tokens when
\* every earlier token is processed as the last token of its own prefix.
ReferenceRows(l, s, n) ==
  [i \in 1 .. n |-> KeyValue(l, Activation(l, Prefix(s, i)))]

(***************************************************************************)
(* Activation is the forward pass without any cache, one token at a time:  *)
(* block 0 sees the embedding of the last token, and each block turns the  *)
(* last token's activation into its successor by attending to the rows of  *)
(* the whole prefix and to nothing after it.                               *)
(***************************************************************************)
ASSUME NetworkAssumption ==
  /\ NumLayers \in Nat
  /\ NPositions \in Nat
  /\ \A n \in 1 .. NPositions : \A s \in Text(n) :
       /\ Activation(0, s) = Embed(s[n], n - 1)
       /\ \A l \in Layer :
            Activation(l + 1, s) =
              Block(l, Activation(l, s), ReferenceRows(l, s, n))

\* The logits of the token that follows a text, by the reference forward pass.
ReferenceLogits(s) == LMHead(Activation(NumLayers, s))

=============================================================================
