------------------------- MODULE KVGenerationProofs -------------------------
(***************************************************************************)
(* Proofs about KVGeneration, and about CompareKVCache, which extends it,  *)
(* for every network, vocabulary, number of layers and of positions, set   *)
(* of prompts and set of budgets.                                          *)
(***************************************************************************)
EXTENDS CompareKVCache, TLAPS

-----------------------------------------------------------------------------
(* Lemmas about the operators the model is built from.                     *)

\* A prefix of a text is a text.
LEMMA PrefixText ==
  ASSUME NEW s \in Seq(Token), NEW n \in 1 .. Len(s)
  PROVE  Prefix(s, n) \in Text(n)
BY DEF Prefix, Text

\* A pass over the whole text looks at the text itself.
LEMMA PrefixWhole ==
  ASSUME NEW s \in Seq(Token)
  PROVE  Prefix(s, Len(s)) = s
BY DEF Prefix

\* The text before a token is the same in every longer text: what lets a row be
\* reused at all.
LEMMA PrefixPrefix ==
  ASSUME NEW s, NEW n \in Nat, NEW m \in 1 .. n
  PROVE  Prefix(Prefix(s, n), m) = Prefix(s, m)
BY DEF Prefix

\* Appending a token leaves every prefix of the text as it was.
LEMMA PrefixAppend ==
  ASSUME NEW s \in Seq(Token), NEW t \in Token, NEW n \in 0 .. Len(s)
  PROVE  Prefix(Append(s, t), n) = Prefix(s, n)
BY DEF Prefix

\* The reference activations of a text, one block further: what the block
\* attends to at token i are the rows of the tokens up to i.
LEMMA ReferenceBlock ==
  ASSUME NEW s \in Seq(Token), NEW n \in 1 .. Len(s), n <= NPositions,
         NEW l \in Layer
  PROVE  Activation(l + 1, Prefix(s, n)) =
           Block(l, Activation(l, Prefix(s, n)),
                 [i \in 1 .. n |-> KeyValue(l, Activation(l, Prefix(s, i)))])
<1>1. Prefix(s, n) \in Text(n)
  BY PrefixText
<1>2. n \in 1 .. NPositions
  BY NetworkAssumption
<1>3. Activation(l + 1, Prefix(s, n)) =
        Block(l, Activation(l, Prefix(s, n)), ReferenceRows(l, Prefix(s, n), n))
  BY <1>1, <1>2, NetworkAssumption
<1>4. ReferenceRows(l, Prefix(s, n), n) =
        [i \in 1 .. n |-> KeyValue(l, Activation(l, Prefix(s, i)))]
  BY PrefixPrefix DEF ReferenceRows
<1> QED
  BY <1>3, <1>4

\* What enters block 0 is the embedding of the token at its position
\* (model.py:62-64 and 81-84).
LEMMA ReferenceEmbedding ==
  ASSUME NEW s \in Seq(Token), NEW n \in 1 .. Len(s), n <= NPositions
  PROVE  Activation(0, Prefix(s, n)) = Embed(s[n], n - 1)
<1>1. Prefix(s, n) \in Text(n) /\ Prefix(s, n)[n] = s[n]
  BY PrefixText DEF Prefix
<1>2. n \in 1 .. NPositions
  BY NetworkAssumption
<1> QED
  BY <1>1, <1>2, NetworkAssumption

\* A call's cache has a row for each token it may hold (model.py:117-123).
LEMMA FreshCacheShape ==
  ASSUME NEW n
  PROVE  Shaped(FreshCache(n), n)
BY DEF Shaped, FreshCache

\* A prefill stores the rows of the whole text (model.py:197-199).
LEMMA StorePromptRows ==
  ASSUME NEW c, NEW n, Shaped(c, n), NEW l \in Layer, NEW rows, NEW k
  PROVE  /\ Shaped(StorePrompt(c, l, rows, k), n)
         /\ \A m \in Layer, r \in 1 .. n :
              StorePrompt(c, l, rows, k)[m][r] =
                IF m = l /\ r <= k THEN rows[r] ELSE c[m][r]
<1> DEFINE new == StorePrompt(c, l, rows, k)
<1>1. DOMAIN c = Layer /\ DOMAIN c[l] = 1 .. n
  BY DEF Shaped
<1>2. new[l] = [r \in 1 .. n |-> IF r <= k THEN rows[r] ELSE c[l][r]]
  BY <1>1 DEF StorePrompt
<1>3. \A m \in Layer : m # l => new[m] = [r \in 1 .. n |-> c[m][r]]
  BY <1>1 DEF StorePrompt, Shaped
<1>4. new = [m \in Layer |-> new[m]]
  BY <1>1 DEF StorePrompt
<1>5. \A m \in Layer : new[m] = [r \in 1 .. n |-> new[m][r]]
  BY <1>2, <1>3
<1>6. Shaped(new, n)
  BY <1>4, <1>5 DEF Shaped
<1> QED
  BY <1>2, <1>3, <1>6

\* A decode stores one row and leaves the others (model.py:233-235).
LEMMA StoreTokenRows ==
  ASSUME NEW c, NEW n, Shaped(c, n), NEW l \in Layer, NEW p, NEW row
  PROVE  /\ Shaped(StoreToken(c, l, p, row), n)
         /\ \A m \in Layer, r \in 1 .. n :
              StoreToken(c, l, p, row)[m][r] =
                IF m = l /\ r = p + 1 THEN row ELSE c[m][r]
<1> DEFINE new == StoreToken(c, l, p, row)
<1>1. DOMAIN c = Layer /\ DOMAIN c[l] = 1 .. n
  BY DEF Shaped
<1>2. new[l] = [r \in 1 .. n |-> IF r = p + 1 THEN row ELSE c[l][r]]
  BY <1>1 DEF StoreToken
<1>3. \A m \in Layer : m # l => new[m] = [r \in 1 .. n |-> c[m][r]]
  BY <1>1 DEF StoreToken, Shaped
<1>4. new = [m \in Layer |-> new[m]]
  BY <1>1 DEF StoreToken
<1>5. \A m \in Layer : new[m] = [r \in 1 .. n |-> new[m][r]]
  BY <1>2, <1>3
<1>6. Shaped(new, n)
  BY <1>4, <1>5 DEF Shaped
<1>7. \A r \in 1 .. n : new[l][r] = IF r = p + 1 THEN row ELSE c[l][r]
  BY <1>2, Zenon
<1>8. \A m \in Layer : m # l => \A r \in 1 .. n : new[m][r] = c[m][r]
  BY <1>3, Zenon
<1> QED
  BY <1>6, <1>7, <1>8, Zenon

-----------------------------------------------------------------------------
(* Type correctness.                                                       *)

USE DEF call, timings, vars

\* Every step preserves the types.
LEMMA TypeStep == TypeOK /\ [Next]_vars => TypeOK'
<1> SUFFICES ASSUME TypeOK, [Next]_vars
             PROVE  TypeOK'
  OBVIOUS
<1>0. NumLayers \in Nat /\ NPositions \in Nat
  BY NetworkAssumption
<1>1. CASE \E given \in Prompts, budget \in MaxNew : Generate(given, budget)
  <2> PICK given \in Prompts, budget \in MaxNew : Generate(given, budget)
    BY <1>1
  <2>1. given \in Seq(Token) /\ budget \in Int
    BY GenerationAssumption
  <2>2. TotalFor(given, budget) \in Int
    BY <1>0, <2>1 DEF TotalFor, Smaller
  <2>3. pc' \in {"loop", "raised"} /\ maxTotalTokens' \in Int
    BY <2>2 DEF Generate
  <2>4. ~useKvCache' => kvCache' = NoCache
    BY DEF Generate
  <2>5. useKvCache' /\ pc' = "loop" =>
          /\ maxTotalTokens' >= 0
          /\ Shaped(kvCache', maxTotalTokens')
    BY <2>2, FreshCacheShape DEF Generate
  <2>6. /\ inputTokens' \in Seq(Token) /\ allTokens' \in Seq(Token)
        /\ useKvCache' \in BOOLEAN
        /\ layer' \in 0 .. NumLayers
        /\ prefillCalls' \in Nat /\ decodeCalls' \in Nat
    BY <1>0, <2>1 DEF TypeOK, Generate
  <2> QED
    BY <2>3, <2>4, <2>5, <2>6 DEF TypeOK
<1>2. CASE RaiseOnEmptyText
  BY <1>0, <1>2 DEF TypeOK, RaiseOnEmptyText
<1>3. CASE BeginPrefill
  BY <1>0, <1>3 DEF TypeOK, BeginPrefill
<1>4. CASE PrefillBlock
  <2>1. Len(hs) = Len(allTokens)
    BY <1>4 DEF TypeOK, PrefillBlock
  <2>2. useKvCache => Shaped(kvCache', maxTotalTokens)
    BY <1>4, StorePromptRows DEF TypeOK, PrefillBlock
  <2>3. hs' = [i \in 1 .. Len(allTokens') |-> hs'[i]]
    BY <1>4, <2>1 DEF PrefillBlock
  <2>4. layer' \in 0 .. NumLayers
    BY <1>0, <1>4 DEF PrefillBlock, Layer
  <2>5. ~useKvCache => kvCache' = kvCache
    BY <1>4 DEF PrefillBlock
  <2> QED
    BY <1>4, <2>2, <2>3, <2>4, <2>5 DEF TypeOK, PrefillBlock
<1>5. CASE BeginDecode
  BY <1>0, <1>5 DEF TypeOK, BeginDecode, TakesPrefill
<1>6. CASE DecodeBlock
  <2>1. Shaped(kvCache', maxTotalTokens)
    BY <1>6, StoreTokenRows DEF TypeOK, DecodeBlock
  <2> QED
    BY <1>0, <1>6, <2>1 DEF TypeOK, DecodeBlock, Layer
<1>7. ASSUME NEW t \in Token, SampleToken(t)
      PROVE  TypeOK'
  BY <1>7 DEF TypeOK, SampleToken
<1>8. CASE Return
  BY <1>8 DEF TypeOK, Return
<1>9. CASE UNCHANGED vars
  BY <1>9 DEF TypeOK
<1> QED
  BY <1>1, <1>2, <1>3, <1>4, <1>5, <1>6, <1>7, <1>8, <1>9 DEF Next, Step

\* Every reachable state has the types of KVGeneration, and the cache the shape
\* that model.py:117-123 allocates.
THEOREM TypeCorrect == Spec => []TypeOK
<1>1. Init => TypeOK
  BY NetworkAssumption DEF Init, TypeOK
<1> QED
  BY <1>1, TypeStep, PTL DEF Spec

-----------------------------------------------------------------------------
(* The inductive invariant.                                                *)

\* What the loop knows of the pass it starts: there is a last token, there is
\* room for the next, and the kind of pass is the one it asked for.
PassInv ==
  /\ Len(inputTokens) <= Len(allTokens)
  /\ pc \in {"idle", "raised"} => Len(allTokens) = Len(inputTokens)
  /\ Busy => maxTotalTokens <= NPositions
  /\ pc \in {"prefill", "decode"} => HasRoom /\ allTokens # <<>>
  /\ pc = "prefill" => TakesPrefill
  /\ pc = "decode" => ~TakesPrefill

IInv == TypeOK /\ PassInv /\ ActivationsAgree /\ KVCoherent

\* Before the first call there is no pass and no cache (model.py:42-53).
LEMMA InitIInv == Init => IInv
<1> SUFFICES ASSUME Init PROVE IInv
  OBVIOUS
<1>1. TypeOK
  BY NetworkAssumption DEF Init, TypeOK
<1>2. PassInv
  BY DEF Init, PassInv, Busy
<1>3. ActivationsAgree
  BY DEF Init, ActivationsAgree
<1>4. \A l \in Layer : Written(l) = 0
  BY DEF Init, Written
<1> QED
  BY <1>1, <1>2, <1>3, <1>4 DEF IInv, KVCoherent, Init

\* The control part is preserved by every step.
LEMMA PassInvStep == TypeOK /\ PassInv /\ [Next]_vars => PassInv'
<1> SUFFICES ASSUME TypeOK, PassInv, [Next]_vars
             PROVE  PassInv'
  OBVIOUS
<1>0. NPositions \in Nat
  BY NetworkAssumption
<1>1. ASSUME NEW given \in Prompts, NEW budget \in MaxNew, Generate(given, budget)
      PROVE  PassInv'
  <2>1. given \in Seq(Token) /\ budget \in Int
    BY GenerationAssumption
  <2>2. TotalFor(given, budget) <= NPositions
    BY <1>0, <2>1 DEF TotalFor, Smaller
  <2> QED
    BY <1>1, <2>1, <2>2 DEF PassInv, Generate, Busy
<1>2. CASE RaiseOnEmptyText
  BY <1>2 DEF TypeOK, PassInv, RaiseOnEmptyText, Busy
<1>3. CASE BeginPrefill
  BY <1>3 DEF TypeOK, PassInv, BeginPrefill, Busy, HasRoom, TakesPrefill
<1>4. CASE PrefillBlock
  BY <1>4 DEF TypeOK, PassInv, PrefillBlock, Busy, HasRoom, TakesPrefill
<1>5. CASE BeginDecode
  BY <1>5 DEF TypeOK, PassInv, BeginDecode, Busy, HasRoom, TakesPrefill
<1>6. CASE DecodeBlock
  BY <1>6 DEF TypeOK, PassInv, DecodeBlock, Busy, HasRoom, TakesPrefill
<1>7. ASSUME NEW t \in Token, SampleToken(t)
      PROVE  PassInv'
  BY <1>7 DEF TypeOK, PassInv, SampleToken, Busy
<1>8. CASE Return
  BY <1>8 DEF TypeOK, PassInv, Return, Busy
<1>9. CASE UNCHANGED vars
  BY <1>9 DEF PassInv, Busy, HasRoom, TakesPrefill
<1> QED
  BY <1>1, <1>2, <1>3, <1>4, <1>5, <1>6, <1>7, <1>8, <1>9 DEF Next, Step

\* Activations and rows. Every step is looked at with the lemma that says what
\* it reads: the embeddings, the rows of this pass, or the cached ones.
LEMMA CoherenceStep == IInv /\ TypeOK' /\ [Next]_vars => ActivationsAgree' /\ KVCoherent'
<1> SUFFICES ASSUME IInv, TypeOK', [Next]_vars
             PROVE  ActivationsAgree' /\ KVCoherent'
  OBVIOUS
<1> DEFINE n == Len(allTokens)
           R(l, i) == KeyValue(l, Activation(l, Prefix(allTokens, i)))
<1>0. /\ TypeOK /\ PassInv /\ ActivationsAgree /\ KVCoherent
      /\ NPositions \in Nat /\ NumLayers \in Nat
      /\ allTokens \in Seq(Token) /\ n \in Nat
  BY NetworkAssumption DEF IInv, TypeOK
<1>w. \A l \in Layer : Written(l) \in Nat
  BY <1>0 DEF Written, PassInv, TypeOK
<1>1. ASSUME NEW given \in Prompts, NEW budget \in MaxNew, Generate(given, budget)
      PROVE  ActivationsAgree' /\ KVCoherent'
  <2>1. given \in Seq(Token) /\ budget \in Int
    BY GenerationAssumption
  <2>2. \A l \in Layer : Written(l)' = 0
    BY <1>1 DEF Generate, Written
  <2>3. useKvCache' /\ pc' \notin {"idle", "raised"} => maxTotalTokens' >= 0
    BY DEF TypeOK
  <2>4. ActivationsAgree'
    BY <1>1 DEF Generate, ActivationsAgree
  <2> QED
    BY <2>2, <2>3, <2>4 DEF KVCoherent
<1>2. CASE RaiseOnEmptyText
  <2>1. \A l \in Layer : Written(l)' = 0
    BY <1>0, <1>2 DEF RaiseOnEmptyText, Written, PassInv, TypeOK
  <2> QED
    BY <1>0, <1>2, <2>1 DEF RaiseOnEmptyText, KVCoherent, ActivationsAgree
<1>3. CASE BeginPrefill
  <2>1. n <= NPositions
    BY <1>0, <1>3 DEF BeginPrefill, PassInv, Busy, HasRoom, TypeOK
  <2>2. \A i \in 1 .. n : Embed(allTokens[i], i - 1) = Activation(0, Prefix(allTokens, i))
    BY <1>0, <2>1, ReferenceEmbedding
  <2>3. ActivationsAgree'
    BY <1>3, <2>2 DEF BeginPrefill, ActivationsAgree
  <2>4. \A l \in Layer : Written(l)' = 0
    BY <1>0, <1>3 DEF BeginPrefill, Written, TakesPrefill, Layer
  <2>5. useKvCache' => maxTotalTokens' >= 0
    BY <1>3 DEF BeginPrefill, TypeOK
  <2> QED
    BY <2>3, <2>4, <2>5 DEF KVCoherent
<1>4. CASE PrefillBlock
  <2> DEFINE rows == [i \in 1 .. Len(hs) |-> KeyValue(layer, hs[i])]
  <2>1. /\ hs = [i \in 1 .. n |-> Activation(layer, Prefix(allTokens, i))]
        /\ Len(hs) = n
        /\ layer \in Layer
    BY <1>0, <1>4 DEF PrefillBlock, ActivationsAgree
  <2>2. n <= NPositions /\ n < maxTotalTokens
    BY <1>0, <1>4 DEF PrefillBlock, PassInv, Busy, HasRoom, TypeOK
  <2>3. rows = [i \in 1 .. n |-> R(layer, i)]
    BY <2>1
  <2>4. ASSUME NEW i \in 1 .. n
        PROVE  Block(layer, hs[i], Prefix(rows, i)) =
                 Activation(layer + 1, Prefix(allTokens, i))
    <3>1. Prefix(rows, i) = [j \in 1 .. i |-> R(layer, j)]
      BY <1>0, <2>3 DEF Prefix
    <3>2. i \in 1 .. Len(allTokens) /\ i <= NPositions
      BY <1>0, <2>2
    <3>3. Activation(layer + 1, Prefix(allTokens, i)) =
            Block(layer, Activation(layer, Prefix(allTokens, i)),
                  [j \in 1 .. i |-> R(layer, j)])
      BY <1>0, <2>1, <3>2, ReferenceBlock
    <3>4. hs[i] = Activation(layer, Prefix(allTokens, i))
      BY <2>1
    <3> QED
      BY <3>1, <3>3, <3>4
  <2>5. hs' = [i \in 1 .. n |-> Activation(layer + 1, Prefix(allTokens, i))]
    BY <1>4, <2>1, <2>4 DEF PrefillBlock
  <2>6. ActivationsAgree'
    BY <1>4, <2>5 DEF PrefillBlock, ActivationsAgree
  <2>7. CASE ~useKvCache
    <3>1. \A l \in Layer : Written(l)' = 0
      BY <1>4, <2>7 DEF PrefillBlock, Written
    <3> QED
      BY <1>4, <2>6, <2>7, <3>1 DEF PrefillBlock, KVCoherent
  <2>8. CASE useKvCache
    <3>1. kvCache' = StorePrompt(kvCache, layer, rows, n) /\ Shaped(kvCache, maxTotalTokens)
      BY <1>0, <1>4, <2>1, <2>8 DEF PrefillBlock, TypeOK
    <3>2. \A l \in Layer : Written(l)' = IF l <= layer THEN n ELSE 0
      BY <1>0, <1>4, <2>1, <2>8 DEF PrefillBlock, Written, PassInv, TakesPrefill, Layer
    <3>3. \A l \in Layer : Written(l) = IF l < layer THEN n ELSE 0
      BY <1>0, <1>4, <2>1, <2>8 DEF PrefillBlock, Written, PassInv, TakesPrefill, Layer
    <3>4. ASSUME NEW l \in Layer, NEW r \in 1 .. Written(l)'
          PROVE  kvCache'[l][r] = R(l, r)
      <4>1. l <= layer /\ r \in 1 .. n /\ r \in 1 .. maxTotalTokens
        BY <1>0, <2>2, <3>2 DEF TypeOK, Layer
      <4>2. kvCache'[l][r] = IF l = layer THEN rows[r] ELSE kvCache[l][r]
        BY <1>0, <2>1, <3>1, <4>1, StorePromptRows
      <4>3. CASE l = layer
        BY <2>3, <4>1, <4>2, <4>3
      <4>4. CASE l # layer
        <5>1. r \in 1 .. Written(l)
          BY <2>1, <3>3, <4>1, <4>4 DEF Layer
        <5> QED
          BY <1>0, <4>2, <4>4, <5>1 DEF KVCoherent
      <4> QED
        BY <4>3, <4>4
    <3>5. allTokens' = allTokens /\ \A l \in Layer : Written(l)' <= maxTotalTokens'
      BY <1>0, <1>4, <2>2, <3>2 DEF PrefillBlock, TypeOK
    <3> QED
      BY <2>6, <3>4, <3>5 DEF KVCoherent
  <2> QED
    BY <1>0, <2>7, <2>8 DEF TypeOK
<1>5. CASE BeginDecode
  <2>1. n <= NPositions /\ n \in 1 .. n
    BY <1>0, <1>5 DEF BeginDecode, PassInv, Busy, HasRoom, TypeOK
  <2>2. Embed(allTokens[n], n - 1) = Activation(0, allTokens)
    BY <1>0, <2>1, ReferenceEmbedding, PrefixWhole
  <2>3. ActivationsAgree'
    BY <1>5, <2>2 DEF BeginDecode, ActivationsAgree
  <2>4. \A l \in Layer : Written(l)' = Written(l)
    BY <1>0, <1>5 DEF BeginDecode, Written, Layer
  <2>5. UNCHANGED <<kvCache, allTokens, maxTotalTokens, useKvCache>> /\ pc = "loop"
    BY <1>5 DEF BeginDecode
  <2> QED
    BY <1>0, <2>3, <2>4, <2>5 DEF KVCoherent
<1>6. CASE DecodeBlock
  <2>1. /\ hs[1] = Activation(layer, allTokens)
        /\ layer \in Layer /\ useKvCache
        /\ Shaped(kvCache, maxTotalTokens)
        /\ kvCache' = StoreToken(kvCache, layer, n - 1, KeyValue(layer, hs[1]))
        /\ hs' = <<Block(layer, hs[1], CachedRows(kvCache', layer, n - 1))>>
    BY <1>0, <1>6 DEF DecodeBlock, ActivationsAgree, TypeOK
  <2>2. n <= NPositions /\ n < maxTotalTokens /\ n \in 1 .. n /\ n # Len(inputTokens)
    BY <1>0, <1>6 DEF DecodeBlock, PassInv, Busy, HasRoom, TakesPrefill, TypeOK
  <2>3. \A l \in Layer : Written(l) = IF l < layer THEN n ELSE n - 1
    BY <1>6, <2>1, <2>2 DEF DecodeBlock, Written
  <2>4. \A l \in Layer : Written(l)' = IF l <= layer THEN n ELSE n - 1
    BY <1>6, <2>1, <2>2 DEF DecodeBlock, Written, Layer
  <2>5. KeyValue(layer, hs[1]) = R(layer, n)
    BY <1>0, <2>1, PrefixWhole
  <2>6. ASSUME NEW l \in Layer, NEW r \in 1 .. Written(l)'
        PROVE  kvCache'[l][r] = R(l, r)
    <3>1. r \in 1 .. n /\ r \in 1 .. maxTotalTokens
      BY <1>0, <2>2, <2>4 DEF TypeOK
    <3>2. kvCache'[l][r] = IF l = layer /\ r = n THEN R(layer, n) ELSE kvCache[l][r]
      BY <1>0, <2>1, <2>5, <3>1, StoreTokenRows
    <3>3. CASE l = layer /\ r = n
      BY <3>2, <3>3
    <3>4. CASE ~(l = layer /\ r = n)
      <4>1. r \in 1 .. Written(l)
        BY <1>0, <2>1, <2>3, <2>4, <3>1, <3>4 DEF Layer
      <4> QED
        BY <1>0, <3>2, <3>4, <4>1 DEF KVCoherent
    <3> QED
      BY <3>3, <3>4
  <2>7. CachedRows(kvCache', layer, n - 1) = [i \in 1 .. n |-> R(layer, i)]
    <3>1. ASSUME NEW l \in Layer, l = layer
          PROVE  Written(l)' = n
      BY <2>4, <3>1 DEF Layer
    <3>2. \A i \in 1 .. n : kvCache'[layer][i] = R(layer, i)
      BY <2>1, <2>6, <3>1
    <3> QED
      BY <1>0, <3>2 DEF CachedRows
  <2>8. hs' = <<Activation(layer + 1, allTokens)>>
    BY <1>0, <2>1, <2>2, <2>7, ReferenceBlock, PrefixWhole
  <2>9. ActivationsAgree'
    BY <1>6, <2>8 DEF DecodeBlock, ActivationsAgree
  <2>10. /\ allTokens' = allTokens /\ maxTotalTokens' = maxTotalTokens
         /\ \A l \in Layer : Written(l)' <= maxTotalTokens'
    BY <1>0, <1>6, <2>2, <2>4 DEF DecodeBlock, TypeOK
  <2> QED
    BY <2>6, <2>9, <2>10 DEF KVCoherent
<1>7. ASSUME NEW t \in Token, SampleToken(t)
      PROVE  ActivationsAgree' /\ KVCoherent'
  <2>1. ActivationsAgree'
    BY <1>7 DEF SampleToken, ActivationsAgree, EndsText
  <2>2. /\ allTokens' = Append(allTokens, t) /\ Len(allTokens') = n + 1
        /\ UNCHANGED <<kvCache, useKvCache, maxTotalTokens, inputTokens>>
        /\ n < maxTotalTokens
    BY <1>0, <1>7 DEF SampleToken, PassInv, HasRoom
  <2>3. \A l \in Layer : Written(l)' = Written(l) /\ Written(l) \in 0 .. n
    BY <1>0, <1>7, <2>2 DEF SampleToken, Written, PassInv, TakesPrefill, Layer, EndsText, TypeOK
  <2>4. \A i \in 0 .. n : Prefix(allTokens', i) = Prefix(allTokens, i)
    BY <1>0, <2>2, PrefixAppend
  <2>5. ASSUME NEW l \in Layer, NEW r \in 1 .. Written(l)'
        PROVE  kvCache'[l][r] = KeyValue(l, Activation(l, Prefix(allTokens', r)))
    <3>1. r \in 1 .. Written(l) /\ r \in 0 .. n
      BY <1>0, <2>3
    <3> QED
      BY <1>0, <2>2, <2>4, <3>1 DEF KVCoherent
  <2>6. \A l \in Layer : Written(l)' <= maxTotalTokens'
    BY <1>0, <2>2, <2>3 DEF TypeOK
  <2> QED
    BY <2>1, <2>5, <2>6 DEF KVCoherent
<1>8. CASE Return
  <2>1. \A l \in Layer : Written(l)' = Written(l)
    BY <1>0, <1>8 DEF Return, Written
  <2> QED
    BY <1>0, <1>8, <2>1 DEF Return, KVCoherent, ActivationsAgree
<1>9. CASE UNCHANGED vars
  <2>1. \A l \in Layer : Written(l)' = Written(l)
    BY <1>9 DEF Written
  <2> QED
    BY <1>0, <1>9, <2>1 DEF KVCoherent, ActivationsAgree
<1> QED
  BY <1>1, <1>2, <1>3, <1>4, <1>5, <1>6, <1>7, <1>8, <1>9 DEF Next, Step

LEMMA IInvStep == IInv /\ [Next]_vars => IInv'
BY TypeStep, PassInvStep, CoherenceStep DEF IInv

\* Types, control, activations and rows hold together in every reachable state.
THEOREM InductiveInvariant == Spec => []IInv
BY InitIInv, IInvStep, PTL DEF Spec

-----------------------------------------------------------------------------
(* The properties.                                                         *)

\* A cached row is always the row the reference forward pass computes for its
\* token and block, and it is inside the cache (model.py:193-238).
THEOREM CacheCoherent == Spec => []KVCoherent
BY InductiveInvariant, PTL DEF IInv

\* Each pass, cached or not, computes the reference activations (model.py:61-97).
THEOREM ActivationsCorrect == Spec => []ActivationsAgree
BY InductiveInvariant, PTL DEF IInv

\* No pass of a call writes a row that an earlier step of the call stored.
THEOREM RowsFinal == Spec => StoredRowsFinal
<1>1. IInv /\ [Next]_vars =>
        [Busy => \A l \in Layer : \A r \in 1 .. Written(l) :
                   kvCache'[l][r] = kvCache[l][r]]_vars
  <2> SUFFICES ASSUME IInv, [Next]_vars, Busy,
                      NEW l \in Layer, NEW r \in 1 .. Written(l)
               PROVE  kvCache'[l][r] = kvCache[l][r]
    OBVIOUS
  <2>0. /\ TypeOK /\ PassInv /\ KVCoherent
        /\ Len(allTokens) \in Nat /\ allTokens \in Seq(Token)
        /\ NumLayers \in Nat
    BY NetworkAssumption DEF IInv, TypeOK
  <2>1. useKvCache /\ r \in 1 .. Len(allTokens) /\ r \in 1 .. maxTotalTokens
    <3>1. useKvCache
      BY DEF Written
    <3>2. Written(l) \in 0 .. Len(allTokens) /\ Written(l) <= maxTotalTokens
      BY <2>0, <3>1 DEF Written, PassInv, KVCoherent, Busy, TypeOK
    <3> QED
      BY <2>0, <3>1, <3>2 DEF TypeOK
  <2>2. Shaped(kvCache, maxTotalTokens)
    BY <2>0, <2>1 DEF TypeOK, Busy
  <2>3. CASE PrefillBlock
    <3>1. l # layer
      BY <2>0, <2>1, <2>3 DEF PrefillBlock, Written, PassInv, TakesPrefill, Layer, TypeOK
    <3> QED
      BY <2>1, <2>2, <2>3, <3>1, StorePromptRows DEF PrefillBlock
  <2>4. CASE DecodeBlock
    <3>1. l = layer => r # Len(allTokens)
      BY <2>0, <2>1, <2>4 DEF DecodeBlock, Written, PassInv, TakesPrefill, Layer, TypeOK
    <3> QED
      BY <2>0, <2>1, <2>2, <2>4, <3>1, StoreTokenRows DEF DecodeBlock
  <2>5. CASE kvCache' = kvCache
    BY <2>5
  <2> QED
    BY <2>3, <2>4, <2>5
       DEF Next, Step, Generate, RaiseOnEmptyText, BeginPrefill, BeginDecode,
           SampleToken, Return
<1> QED
  BY <1>1, InductiveInvariant, PTL DEF Spec, StoredRowsFinal

\* The timings count one forward pass per generated token, at most one of them a
\* prefill when the cache is used (model.py:125-142).
THEOREM CallsAccounted == Spec => []CallAccounting
<1>1. Init => CallAccounting
  BY DEF Init, CallAccounting, Smaller
<1>2. IInv /\ CallAccounting /\ [Next]_vars => CallAccounting'
  <2> SUFFICES ASSUME IInv, CallAccounting, [Next]_vars
               PROVE  CallAccounting'
    OBVIOUS
  <2>0. TypeOK /\ PassInv
    BY DEF IInv
  <2>1. ASSUME NEW given \in Prompts, NEW budget \in MaxNew, Generate(given, budget)
        PROVE  CallAccounting'
    BY <2>1, GenerationAssumption DEF Generate, CallAccounting, Smaller
  <2>2. ASSUME NEW t \in Token, SampleToken(t)
        PROVE  CallAccounting'
    BY <2>0, <2>2 DEF SampleToken, CallAccounting, Smaller, TypeOK, PassInv, TakesPrefill
  <2>3. CASE UNCHANGED <<useKvCache, inputTokens, allTokens, timings>>
    BY <2>3 DEF CallAccounting
  <2> QED
    BY <2>1, <2>2, <2>3
       DEF Next, Step, RaiseOnEmptyText, BeginPrefill, PrefillBlock, BeginDecode,
           DecodeBlock, Return
<1> QED
  BY <1>1, <1>2, InductiveInvariant, PTL DEF Spec

\* Every step keeps the text within its bounds, and the call's end after Eos.
LEMMA StopsStep == IInv /\ IInv' /\ StopsInTime /\ [Next]_vars => StopsInTime'
<1> SUFFICES ASSUME IInv, StopsInTime, [Next]_vars
             PROVE  StopsInTime'
  OBVIOUS
<1>0. TypeOK /\ PassInv
  BY DEF IInv
<1>1. ASSUME NEW given \in Prompts, NEW budget \in MaxNew, Generate(given, budget)
      PROVE  StopsInTime'
  <2>1. given \in Seq(Token) /\ inputTokens' = given /\ allTokens' = given /\ pc' # "done"
    BY <1>1, GenerationAssumption DEF Generate
  <2>2. Prefix(given, Len(given)) = given
    BY <2>1, PrefixWhole
  <2> QED
    BY <2>1, <2>2 DEF StopsInTime
<1>2. ASSUME NEW t \in Token, SampleToken(t)
      PROVE  StopsInTime'
  <2>1. /\ allTokens \in Seq(Token) /\ inputTokens \in Seq(Token)
        /\ allTokens' = Append(allTokens, t)
        /\ UNCHANGED <<inputTokens, maxTotalTokens>>
        /\ Len(inputTokens) <= Len(allTokens)
        /\ Len(allTokens) < maxTotalTokens
        /\ Busy
        /\ maxTotalTokens \in Int
    BY <1>0, <1>2 DEF TypeOK, PassInv, SampleToken, HasRoom, Busy
  <2>2. Prefix(allTokens', Len(inputTokens)) = inputTokens
    BY <2>1, PrefixAppend DEF StopsInTime
  <2>3. \A i \in 1 .. Len(allTokens) : i > Len(inputTokens) => allTokens[i] # Eos
    BY <2>1 DEF StopsInTime
  <2>4. /\ \A i \in 1 .. Len(allTokens) : allTokens'[i] = allTokens[i]
        /\ Len(allTokens') = Len(allTokens) + 1
        /\ allTokens'[Len(allTokens')] = t
    BY <2>1
  <2>5. pc' = IF t = Eos THEN "done" ELSE "loop"
    BY <1>2 DEF SampleToken, EndsText
  <2>6. \A i \in {j \in 1 .. Len(allTokens') : j > Len(inputTokens')} :
          allTokens'[i] = Eos => i = Len(allTokens')
    BY <2>1, <2>3, <2>4
  <2> QED
    BY <2>1, <2>2, <2>4, <2>5, <2>6 DEF StopsInTime, Busy
<1>3. CASE Return
  BY <1>0, <1>3 DEF Return, StopsInTime, Busy, HasRoom, TypeOK
<1>4. CASE /\ UNCHANGED <<inputTokens, allTokens, maxTotalTokens>>
           /\ Busy' => Busy
           /\ pc' = "done" => pc = "done"
  BY <1>4 DEF StopsInTime, HasRoom
<1> QED
  BY <1>1, <1>2, <1>3, <1>4
     DEF Next, Step, RaiseOnEmptyText, BeginPrefill, PrefillBlock, BeginDecode,
         DecodeBlock, Busy

\* The prompt is kept, the budget and n_positions are respected, and Eos is the
\* last token of any text it occurs in as a generated one (model.py:124-152).
THEOREM OutputStopsInTime == Spec => []StopsInTime
<1>1. Init => StopsInTime
  BY DEF Init, StopsInTime, Prefix, Busy
<1> QED
  BY <1>1, StopsStep, InductiveInvariant, PTL DEF Spec

\* A pass ends at the logits of the whole text, cached or not (model.py:61-104).
LEMMA DrawnFromText ==
  ASSUME IInv, NEW t, SampleToken(t)
  PROVE  logits' = ReferenceLogits(allTokens)
<1>1. /\ TypeOK /\ PassInv /\ ActivationsAgree /\ layer = NumLayers
      /\ allTokens \in Seq(Token)
  BY DEF IInv, TypeOK, SampleToken
<1>2. hs[Len(hs)] = Activation(NumLayers, allTokens)
  <2>1. CASE pc = "prefill"
    <3>1. /\ hs = [i \in 1 .. Len(allTokens) |-> Activation(layer, Prefix(allTokens, i))]
          /\ Len(allTokens) \in 1 .. Len(allTokens)
      BY <1>1, <2>1 DEF ActivationsAgree, PassInv
    <3> QED
      BY <1>1, <3>1, PrefixWhole
  <2>2. CASE pc = "decode"
    <3>1. hs = <<Activation(layer, allTokens)>>
      BY <1>1, <2>2 DEF ActivationsAgree
    <3> QED
      BY <1>1, <3>1
  <2> QED
    BY <2>1, <2>2 DEF SampleToken
<1> QED
  BY <1>2 DEF SampleToken, ReferenceLogits

-----------------------------------------------------------------------------
(* The refinement.                                                         *)

USE DEF Abstract!vars

\* With the cache and without it, generate_with_metadata draws every token from
\* the reference logits of the whole text so far (model.py:106-159).
THEOREM Refinement == Spec => ImplementsTextGeneration
<1>1. Init => Abstract!Init
  BY DEF Init, Abstract!Init, Busy
<1>2. IInv /\ [Next]_vars => [Abstract!Next]_Abstract!vars
  <2> SUFFICES ASSUME IInv, [Next]_vars
               PROVE  Abstract!Next \/ UNCHANGED Abstract!vars
    OBVIOUS
  <2>0. /\ TypeOK /\ PassInv /\ ActivationsAgree
        /\ allTokens \in Seq(Token)
    BY DEF IInv, TypeOK
  <2>1. ASSUME NEW given \in Prompts, NEW budget \in MaxNew, Generate(given, budget)
        PROVE  Abstract!Next
    <3>1. Abstract!Accept(given, budget)
      BY <2>0, <2>1 DEF TypeOK, Generate, Abstract!Accept, Busy, TotalFor, Smaller, Abstract!Smaller
    <3> QED
      BY <3>1 DEF Abstract!Next
  <2>2. CASE RaiseOnEmptyText
    BY <2>2 DEF RaiseOnEmptyText, HasRoom, Busy, Abstract!Refuse, Abstract!Next
  <2>3. ASSUME NEW t \in Token, SampleToken(t)
        PROVE  Abstract!Next
    <3>1. logits' = ReferenceLogits(allTokens)
      BY <2>3, DrawnFromText
    <3>2. /\ logits' = Abstract!ReferenceLogits(allTokens)
          /\ pc \in {"prefill", "decode"}
          /\ allTokens # <<>> /\ Len(allTokens) < maxTotalTokens
          /\ allTokens' = Append(allTokens, t)
          /\ pc' = IF t = Eos THEN "done" ELSE "loop"
          /\ UNCHANGED <<inputTokens, maxTotalTokens>>
      BY <2>0, <2>3, <3>1
         DEF SampleToken, EndsText, PassInv, HasRoom, ReferenceLogits, Abstract!ReferenceLogits
    <3>3. Abstract!Emit(t)
      BY <3>2 DEF Abstract!Emit, Busy
    <3> QED
      BY <3>3 DEF Abstract!Next
  <2>4. CASE Return
    BY <2>0, <2>4 DEF Return, HasRoom, Busy, TypeOK, Abstract!Finish, Abstract!Next
  <2>5. CASE BeginPrefill \/ PrefillBlock \/ BeginDecode \/ DecodeBlock
    BY <2>5 DEF BeginPrefill, PrefillBlock, BeginDecode, DecodeBlock, Busy
  <2>6. CASE UNCHANGED vars
    BY <2>6 DEF Busy
  <2> QED
    BY <2>1, <2>2, <2>3, <2>4, <2>5, <2>6 DEF Next, Step
<1> QED
  BY <1>1, <1>2, InductiveInvariant, PTL DEF Spec, ImplementsTextGeneration, Abstract!Spec

-----------------------------------------------------------------------------
(* CompareKVCache: main.py --compare-kv-cache, whatever the seeded         *)
(* generator makes of a draw. The run without the cache makes the text of  *)
(* the run with it.                                                        *)

DriverInv ==
  /\ stage \in {"seeding", "cached", "uncached", "reported", "failed"}
  /\ prompt \in Prompts \ {<<>>}
  /\ maxNew \in MaxNew
  /\ constructible \in SUBSET BOOLEAN
  /\ draws \in Nat
  /\ cachedText \in Seq(Token)
  /\ warned \in BOOLEAN

Limit == TotalFor(prompt, maxNew)

\* After a seed, the draws made for the first d new tokens of a text are on record.
Recorded(text, d) ==
  \A k \in 0 .. d - 1 :
    <<k, ReferenceLogits(Prefix(text, Len(prompt) + k)), text[Len(prompt) + k + 1]>> \in generator

\* Seeded alike, the same draw from the same distribution gives the same token.
GeneratorInv ==
  \A e, f \in generator : e[1] = f[1] /\ e[2] = f[2] => e[3] = f[3]

\* The call under way is that of this stage, and its draws are on record.
CallInv ==
  /\ stage = "seeding" => pc = "idle"
  /\ stage = "reported" => pc = "done"
  /\ stage = "uncached" => ~useKvCache
  /\ pc = "idle" => allTokens = <<>> /\ draws = 0
  /\ pc # "idle" =>
       /\ inputTokens = prompt
       /\ maxTotalTokens = Limit
       /\ draws = Len(allTokens) - Len(prompt)
       /\ Recorded(allTokens, draws)

\* A text that is through: it goes to its limit, or to the first Eos it drew.
Complete(text) ==
  LET n == Len(prompt)
  IN  /\ n <= Len(text)
      /\ Prefix(text, n) = prompt
      /\ Len(text) > n => Len(text) <= Limit
      /\ \A i \in n + 1 .. Len(text) : text[i] = Eos => i = Len(text)
      /\ \/ Len(text) > n /\ text[Len(text)] = Eos
         \/ Len(text) >= Limit

CachedInv ==
  stage \in {"uncached", "reported"} =>
    Complete(cachedText) /\ Recorded(cachedText, Len(cachedText) - Len(prompt))

\* The uncached text is a beginning of the cached one, and the same when done, so
\* that nothing is warned of.
RetraceInv == UncachedRetracesCached /\ ~warned

CompareInv ==
  /\ IInv
  /\ StopsInTime
  /\ DriverInv
  /\ GeneratorInv
  /\ CallInv
  /\ CachedInv
  /\ RetraceInv

USE DEF args, driver, compareVars

-----------------------------------------------------------------------------
(* Texts.                                                                  *)

\* A text that another one begins with reads alike up to its length.
LEMMA PrefixReads ==
  ASSUME NEW s \in Seq(Token), NEW t \in Seq(Token),
         Len(s) <= Len(t), Prefix(t, Len(s)) = s, NEW n \in 0 .. Len(s)
  PROVE  /\ Prefix(t, n) = Prefix(s, n)
         /\ \A i \in 1 .. Len(s) : t[i] = s[i]
<1>1. \A i \in 1 .. Len(s) : t[i] = s[i]
  BY DEF Prefix
<1> QED
  BY <1>1 DEF Prefix

\* It grows by the token the other one has next.
LEMMA PrefixGrows ==
  ASSUME NEW s \in Seq(Token), NEW t \in Seq(Token), NEW x \in Token,
         Len(s) < Len(t), Prefix(t, Len(s)) = s, t[Len(s) + 1] = x
  PROVE  Prefix(t, Len(Append(s, x))) = Append(s, x)
<1>1. /\ Len(Append(s, x)) = Len(s) + 1 /\ Append(s, x) \in Seq(Token)
      /\ \A i \in 1 .. Len(s) : Append(s, x)[i] = s[i]
      /\ Append(s, x)[Len(s) + 1] = x
  OBVIOUS
<1>2. \A i \in 1 .. Len(s) : t[i] = s[i]
  BY PrefixReads
<1>3. \A i \in 1 .. Len(s) + 1 : t[i] = Append(s, x)[i]
  BY <1>1, <1>2
<1>4. Prefix(Append(s, x), Len(s) + 1) = Append(s, x)
  BY <1>1, PrefixWhole
<1> QED
  BY <1>1, <1>3, <1>4 DEF Prefix

\* One that ends like it, at its limit or at an Eos, is the whole of it.
LEMMA PrefixIsWhole ==
  ASSUME NEW s \in Seq(Token), NEW t \in Seq(Token), prompt \in Seq(Token), Limit \in Int,
         Complete(t), Len(prompt) <= Len(s), Len(s) <= Len(t), Prefix(t, Len(s)) = s,
         \/ Len(s) > Len(prompt) /\ s[Len(s)] = Eos
         \/ Len(s) >= Limit
  PROVE  s = t
<1>1. Len(s) = Len(t)
  <2>1. CASE Len(s) > Len(prompt) /\ s[Len(s)] = Eos
    <3>1. t[Len(s)] = Eos /\ Len(s) \in Len(prompt) + 1 .. Len(t)
      BY <2>1, PrefixReads
    <3> QED
      BY <3>1 DEF Complete
  <2>2. CASE Len(s) >= Limit
    BY <2>2 DEF Complete
  <2> QED
    BY <2>1, <2>2
<1> QED
  BY <1>1, PrefixWhole

\* What is on record stays so when more is.
LEMMA RecordedStays ==
  ASSUME NEW text, NEW d, Recorded(text, d), prompt' = prompt, generator \subseteq generator'
  PROVE  Recorded(text, d)'
BY DEF Recorded, ReferenceLogits

\* A finished call has a complete text (model.py:124-152).
LEMMA DoneIsComplete ==
  ASSUME IInv, StopsInTime, pc = "done", inputTokens = prompt, maxTotalTokens = Limit
  PROVE  Complete(allTokens)
<1>1. /\ allTokens \in Seq(Token) /\ inputTokens \in Seq(Token) /\ maxTotalTokens \in Int
      /\ Len(inputTokens) <= Len(allTokens)
  BY DEF IInv, TypeOK, PassInv
<1> DEFINE generated == {i \in 1 .. Len(allTokens) : i > Len(inputTokens)}
<1>2. /\ Prefix(allTokens, Len(inputTokens)) = inputTokens
      /\ generated # {} => Len(allTokens) <= maxTotalTokens
      /\ \A i \in generated : allTokens[i] = Eos => i = Len(allTokens)
      /\ \/ generated # {} /\ allTokens[Len(allTokens)] = Eos
         \/ ~HasRoom
  BY DEF StopsInTime
<1>3. generated # {} <=> Len(allTokens) > Len(inputTokens)
  <2>1. Len(allTokens) > Len(inputTokens) => Len(allTokens) \in generated
    BY <1>1
  <2>2. \A i \in generated : Len(allTokens) > Len(inputTokens)
    BY <1>1
  <2> QED
    BY <2>1, <2>2
<1>4. \A i \in Len(inputTokens) + 1 .. Len(allTokens) : i \in generated
  BY <1>1
<1> QED
  BY <1>1, <1>2, <1>3, <1>4 DEF Complete, HasRoom

-----------------------------------------------------------------------------
(* The steps.                                                              *)

\* The arguments are what main.py takes: some text, and a number.
LEMMA Arguments ==
  ASSUME CompareInv
  PROVE  /\ prompt \in Seq(Token) /\ prompt # <<>> /\ maxNew \in Int /\ Limit \in Int
         /\ allTokens \in Seq(Token) /\ inputTokens \in Seq(Token) /\ cachedText \in Seq(Token)
         /\ Len(inputTokens) <= Len(allTokens)
BY GenerationAssumption, NetworkAssumption
   DEF CompareInv, DriverInv, Limit, TotalFor, Smaller, IInv, TypeOK, PassInv

LEMMA LimitStays ==
  ASSUME UNCHANGED <<prompt, maxNew>>
  PROVE  Limit' = Limit /\ \A text : Complete(text)' <=> Complete(text)
BY DEF Limit, TotalFor, Smaller, Complete

\* What was found of the cached text is not touched any more.
LEMMA CachedStays ==
  ASSUME CachedInv, UNCHANGED <<prompt, maxNew, cachedText>>, generator \subseteq generator',
         stage' \in {"uncached", "reported"} => stage \in {"uncached", "reported"}
  PROVE  CachedInv'
<1> SUFFICES ASSUME stage \in {"uncached", "reported"}
             PROVE  Complete(cachedText)' /\ Recorded(cachedText, Len(cachedText) - Len(prompt))'
  BY DEF CachedInv
<1>1. Complete(cachedText) /\ Recorded(cachedText, Len(cachedText) - Len(prompt))
  BY DEF CachedInv
<1> QED
  BY <1>1, LimitStays, RecordedStays DEF Complete, Limit, TotalFor, Smaller, Recorded, ReferenceLogits

\* A step of the model object is one of KVGeneration.
LEMMA ObjectStep ==
  ASSUME CompareInv, [Next]_vars
  PROVE  IInv' /\ StopsInTime'
BY IInvStep, StopsStep DEF CompareInv

\* The first run is set up, or either run is over.
LEMMA StageStep ==
  ASSUME CompareInv, RunCached \/ ConstructionRaises \/ Fail \/ Report \/ UNCHANGED compareVars
  PROVE  CompareInv'
<1>1. UNCHANGED <<pc, useKvCache, inputTokens, allTokens, maxTotalTokens,
                  prompt, maxNew, constructible, generator, cachedText>>
  BY DEF RunCached, ConstructionRaises, Fail, Report, vars, call
<1>2. UNCHANGED vars
  BY DEF RunCached, ConstructionRaises, Fail, Report
<1>3. IInv' /\ StopsInTime'
  BY <1>2, ObjectStep
<1>4. draws' = draws
  BY DEF RunCached, ConstructionRaises, Fail, Report, CompareInv, CallInv
<1>5. DriverInv' /\ GeneratorInv'
  BY <1>1, <1>4 DEF RunCached, ConstructionRaises, Fail, Report, CompareInv, DriverInv, GeneratorInv
<1>6. CallInv'
  <2>1. Recorded(allTokens, draws)' <=> Recorded(allTokens, draws)
    BY <1>1, <1>4 DEF Recorded, ReferenceLogits
  <2>2. stage' = "reported" => pc = "done"
    BY DEF RunCached, ConstructionRaises, Fail, Report, CompareInv, CallInv
  <2>3. stage' = "seeding" => stage = "seeding"
    BY DEF RunCached, ConstructionRaises, Fail, Report
  <2>4. stage' = "uncached" => stage = "uncached"
    BY DEF RunCached, ConstructionRaises, Fail, Report
  <2> QED
    BY <1>1, <1>4, <2>1, <2>2, <2>3, <2>4, LimitStays DEF CompareInv, CallInv
<1>7. stage' \in {"uncached", "reported"} => stage \in {"uncached", "reported"}
  BY DEF RunCached, ConstructionRaises, Fail, Report
<1>8. CachedInv'
  BY <1>1, <1>7, CachedStays DEF CompareInv
<1>9. UncachedRetracesCached'
  BY <1>1, <1>7 DEF CompareInv, RetraceInv, UncachedRetracesCached, Prefix
<1>10. ~warned'
  <2>1. CASE Report
    BY <2>1 DEF Report, CompareInv, RetraceInv, UncachedRetracesCached
  <2>2. CASE ~Report
    BY <2>2 DEF RunCached, ConstructionRaises, Fail, CompareInv, RetraceInv
  <2> QED
    BY <2>1, <2>2
<1> QED
  BY <1>3, <1>5, <1>6, <1>8, <1>9, <1>10 DEF CompareInv, RetraceInv

\* generate_with_metadata is entered with the prompt and the budget of the command line.
LEMMA CallGenerateStep ==
  ASSUME CompareInv, CallGenerate
  PROVE  CompareInv'
<1>1. /\ Generate(prompt, maxNew) /\ pc = "idle" /\ stage \in {"cached", "uncached"}
      /\ UNCHANGED <<stage, prompt, maxNew, constructible, draws, generator, cachedText, warned>>
  BY DEF CallGenerate
<1>2. Next
  BY <1>1 DEF Next, CompareInv, DriverInv
<1>3. IInv' /\ StopsInTime'
  BY <1>2, ObjectStep
<1>4. DriverInv' /\ GeneratorInv'
  BY <1>1 DEF CompareInv, DriverInv, GeneratorInv
<1>5. /\ allTokens' = prompt /\ inputTokens' = prompt /\ maxTotalTokens' = Limit
      /\ pc' \in {"loop", "raised"} /\ useKvCache' = useKvCache /\ draws = 0
  BY <1>1 DEF Generate, Limit, CompareInv, CallInv
<1>6. CallInv'
  <2>1. draws' = Len(allTokens') - Len(prompt')
    BY <1>1, <1>5, Arguments
  <2>2. Recorded(allTokens, draws)'
    BY <1>1, <1>5 DEF Recorded
  <2> QED
    BY <1>1, <1>5, <2>1, <2>2, LimitStays DEF CompareInv, CallInv
<1>7. CachedInv'
  BY <1>1, CachedStays DEF CompareInv
<1>8. RetraceInv'
  <2>1. stage = "uncached" => Len(prompt) <= Len(cachedText) /\ Prefix(cachedText, Len(prompt)) = prompt
    BY DEF CompareInv, CachedInv, Complete
  <2>2. stage' = "uncached" \/ stage' = "cached"
    BY <1>1
  <2> QED
    BY <1>1, <1>5, <2>1, <2>2 DEF CompareInv, RetraceInv, UncachedRetracesCached, Prefix
<1> QED
  BY <1>3, <1>4, <1>6, <1>7, <1>8 DEF CompareInv

\* Before the uncached run has its next token, the cached text goes on, too; and the
\* uncached run ends only with the cached text.
LEMMA RetraceEnds ==
  ASSUME CompareInv, stage = "uncached", pc # "idle",
         \/ Len(allTokens) > Len(prompt) /\ allTokens[Len(allTokens)] = Eos
         \/ ~HasRoom
  PROVE  allTokens = cachedText
<1>1. Complete(cachedText) /\ Len(allTokens) <= Len(cachedText) /\ Prefix(cachedText, Len(allTokens)) = allTokens
  BY DEF CompareInv, CachedInv, RetraceInv, UncachedRetracesCached
<1>2. inputTokens = prompt /\ maxTotalTokens = Limit
  BY DEF CompareInv, CallInv
<1>3. (Len(allTokens) > Len(prompt) /\ allTokens[Len(allTokens)] = Eos) \/ Len(allTokens) >= Limit
  BY <1>2, Arguments DEF HasRoom
<1> QED
  BY <1>1, <1>2, <1>3, Arguments, PrefixIsWhole

LEMMA RetraceGoesOn ==
  ASSUME CompareInv, stage = "uncached", pc \in {"prefill", "decode"}
  PROVE  Len(allTokens) < Len(cachedText)
<1>1. Complete(cachedText) /\ Len(allTokens) <= Len(cachedText) /\ Prefix(cachedText, Len(allTokens)) = allTokens
  BY DEF CompareInv, CachedInv, RetraceInv, UncachedRetracesCached
<1>2. inputTokens = prompt /\ maxTotalTokens = Limit /\ HasRoom
  BY DEF CompareInv, CallInv, IInv, PassInv
<1>3. ~(Len(allTokens) > Len(prompt) /\ allTokens[Len(allTokens)] = Eos)
  <2> SUFFICES ASSUME Len(allTokens) > Len(prompt), allTokens[Len(allTokens)] = Eos PROVE FALSE
    OBVIOUS
  <2>1. Len(allTokens) \in {i \in 1 .. Len(allTokens) : i > Len(inputTokens)}
    BY <1>2, Arguments
  <2>2. Busy
    BY DEF Busy
  <2> QED
    BY <2>1, <2>2 DEF CompareInv, StopsInTime
<1>4. Len(allTokens) # Len(cachedText)
  <2> SUFFICES ASSUME Len(allTokens) = Len(cachedText) PROVE FALSE
    OBVIOUS
  <2>1. allTokens = cachedText
    BY <1>1, Arguments, PrefixWhole
  <2> QED
    BY <1>1, <1>2, <1>3, <2>1, Arguments DEF Complete, HasRoom
<1> QED
  BY <1>1, <1>4, Arguments

\* A pass, or the return: the text stays.
LEMMA ForwardStep ==
  ASSUME CompareInv, Forward
  PROVE  CompareInv'
<1>1. /\ UNCHANGED <<stage, prompt, maxNew, constructible, draws, generator, cachedText, warned>>
      /\ UNCHANGED <<useKvCache, inputTokens, allTokens, maxTotalTokens>>
      /\ pc \in {"loop", "prefill", "decode"} /\ pc' \in {"loop", "prefill", "decode", "done"}
  BY DEF Forward, BeginPrefill, PrefillBlock, BeginDecode, DecodeBlock, Return, call
<1>2. Next
  BY DEF Forward, Next, Step
<1>3. IInv' /\ StopsInTime'
  BY <1>2, ObjectStep
<1>4. DriverInv' /\ GeneratorInv'
  BY <1>1 DEF CompareInv, DriverInv, GeneratorInv
<1>5. CallInv'
  <2>1. Recorded(allTokens, draws)' <=> Recorded(allTokens, draws)
    BY <1>1 DEF Recorded, ReferenceLogits
  <2> QED
    BY <1>1, <2>1, LimitStays DEF CompareInv, CallInv
<1>6. CachedInv'
  BY <1>1, CachedStays DEF CompareInv
<1>7. RetraceInv'
  <2>1. pc' = "done" => ~HasRoom
    BY <1>1 DEF Forward, BeginPrefill, PrefillBlock, BeginDecode, DecodeBlock, Return
  <2>2. stage = "uncached" /\ pc' = "done" => allTokens = cachedText
    BY <1>1, <2>1, RetraceEnds
  <2>3. stage # "reported"
    BY <1>1 DEF CompareInv, CallInv
  <2> QED
    BY <1>1, <2>2, <2>3 DEF CompareInv, RetraceInv, UncachedRetracesCached, Prefix
<1> QED
  BY <1>3, <1>4, <1>5, <1>6, <1>7 DEF CompareInv

\* A token is drawn: seeded alike, the uncached run draws what the cached one drew,
\* because both draw from the logits of the same text.
LEMMA DrawStep ==
  ASSUME CompareInv, NEW token \in Token, Draw(token)
  PROVE  CompareInv'
<1> DEFINE n == Len(prompt)
           d == draws
<1>1. /\ UNCHANGED <<stage, prompt, maxNew, constructible, cachedText, warned>>
      /\ UNCHANGED <<useKvCache, inputTokens, maxTotalTokens>>
      /\ pc \in {"prefill", "decode"} /\ pc' = (IF token = Eos THEN "done" ELSE "loop")
      /\ allTokens' = Append(allTokens, token)
      /\ draws' = d + 1
      /\ \A e \in generator : e[1] = d /\ e[2] = logits' => e[3] = token
      /\ generator' = generator \union {<<d, logits', token>>}
      /\ SampleToken(token)
  BY DEF Draw, SampleToken, EndsText, call
<1>2. IInv' /\ StopsInTime'
  <2>1. Next
    BY <1>1 DEF Next, Step
  <2> QED
    BY <2>1, ObjectStep
<1>3. logits' = ReferenceLogits(allTokens)
  BY <1>1, DrawnFromText DEF CompareInv
<1>4. /\ inputTokens = prompt /\ maxTotalTokens = Limit /\ d = Len(allTokens) - n
      /\ Recorded(allTokens, d) /\ d \in Nat /\ n \in Nat /\ Len(allTokens) = n + d
  BY <1>1, Arguments DEF CompareInv, CallInv, DriverInv
<1>5. DriverInv'
  BY <1>1 DEF CompareInv, DriverInv
<1>6. GeneratorInv'
  BY <1>1 DEF CompareInv, GeneratorInv
<1>7. Recorded(allTokens, draws)'
  <2> SUFFICES ASSUME NEW k \in 0 .. d
               PROVE  <<k, ReferenceLogits(Prefix(allTokens', n + k)), allTokens'[n + k + 1]>> \in generator'
    <3>1. 0 .. draws' - 1 = 0 .. d /\ prompt' = prompt
      BY <1>1, <1>4
    <3> QED
      BY <3>1 DEF Recorded, ReferenceLogits
  <2>1. Prefix(allTokens', n + k) = Prefix(allTokens, n + k)
    BY <1>1, <1>4, Arguments, PrefixAppend
  <2>2. CASE k < d
    <3>1. allTokens'[n + k + 1] = allTokens[n + k + 1]
      BY <1>1, <1>4, <2>2, Arguments
    <3>2. k \in 0 .. d - 1
      BY <1>4, <2>2
    <3>3. <<k, ReferenceLogits(Prefix(allTokens, n + k)), allTokens[n + k + 1]>> \in generator
      BY <1>4, <3>2 DEF Recorded
    <3> QED
      BY <1>1, <2>1, <3>1, <3>3
  <2>3. CASE k = d
    <3>1. Prefix(allTokens, n + k) = allTokens
      BY <1>4, <2>3, Arguments, PrefixWhole
    <3>2. allTokens'[n + k + 1] = token
      BY <1>1, <1>4, <2>3, Arguments
    <3> QED
      BY <1>1, <1>3, <2>1, <2>3, <3>1, <3>2
  <2> QED
    BY <1>4, <2>2, <2>3
<1>8. CallInv'
  <2>1. Len(allTokens') = Len(allTokens) + 1
    BY <1>1, Arguments
  <2> QED
    BY <1>1, <1>4, <1>7, <2>1, LimitStays DEF CompareInv, CallInv
<1>9. CachedInv'
  BY <1>1, CachedStays DEF CompareInv
<1>10. RetraceInv'
  <2>1. ~warned' /\ stage # "reported"
    BY <1>1 DEF CompareInv, RetraceInv, CallInv
  <2> SUFFICES ASSUME stage = "uncached"
               PROVE  /\ Len(allTokens') <= Len(cachedText)
                      /\ Prefix(cachedText, Len(allTokens')) = allTokens'
                      /\ pc' = "done" => allTokens' = cachedText
    BY <1>1, <2>1 DEF RetraceInv, UncachedRetracesCached, Prefix
  <2>2. Len(allTokens) < Len(cachedText) /\ Prefix(cachedText, Len(allTokens)) = allTokens
    BY <1>1, RetraceGoesOn DEF CompareInv, RetraceInv, UncachedRetracesCached
  <2>3. <<d, ReferenceLogits(allTokens), cachedText[Len(allTokens) + 1]>> \in generator
    <3>1. Recorded(cachedText, Len(cachedText) - n)
      BY DEF CompareInv, CachedInv
    <3>2. d \in 0 .. (Len(cachedText) - n) - 1
      BY <1>4, <2>2, Arguments
    <3>3. Len(prompt) + d = Len(allTokens)
      BY <1>4
    <3> QED
      BY <2>2, <3>1, <3>2, <3>3 DEF Recorded
  <2>4. cachedText[Len(allTokens) + 1] = token
    BY <1>1, <1>3, <2>3
  <2>5. Prefix(cachedText, Len(allTokens')) = allTokens'
    BY <1>1, <2>2, <2>4, Arguments, PrefixGrows
  <2>6. Len(allTokens') = Len(allTokens) + 1 /\ allTokens'[Len(allTokens')] = token /\ allTokens' \in Seq(Token)
    BY <1>1, Arguments
  <2>7. pc' = "done" => allTokens' = cachedText
    <3> SUFFICES ASSUME token = Eos PROVE allTokens' = cachedText
      BY <1>1
    <3>1. Len(allTokens') > Len(prompt) /\ allTokens'[Len(allTokens')] = Eos
      BY <1>4, <2>6
    <3>2. Complete(cachedText)
      BY DEF CompareInv, CachedInv
    <3>3. Len(prompt) <= Len(allTokens') /\ Len(allTokens') <= Len(cachedText)
      BY <1>4, <2>2, <2>6, Arguments
    <3> QED
      BY <2>5, <2>6, <3>1, <3>2, <3>3, Arguments, PrefixIsWhole
  <2> QED
    BY <2>2, <2>5, <2>6, <2>7, Arguments
<1> QED
  BY <1>2, <1>5, <1>6, <1>8, <1>9, <1>10 DEF CompareInv

\* What every new object begins with, at the start or between the runs.
LEMMA FreshObject == (Init => IInv /\ StopsInTime)'
<1>1. Init => StopsInTime
  BY DEF Init, StopsInTime, Prefix, Busy
<1> QED
  BY <1>1, InitIInv, PTL

\* The second run begins afresh, and keeps the text of the first.
LEMMA RunUncachedStep ==
  ASSUME CompareInv, RunUncached
  PROVE  CompareInv'
<1>1. Init'
  BY DEF RunUncached, Init
<1>2. IInv' /\ StopsInTime'
  BY <1>1, FreshObject
<1>3. /\ stage = "cached" /\ pc = "done" /\ cachedText' = allTokens /\ stage' = "uncached"
      /\ draws' = 0 /\ useKvCache' = FALSE /\ pc' = "idle" /\ allTokens' = <<>>
      /\ UNCHANGED <<prompt, maxNew, constructible, generator, warned>>
  BY DEF RunUncached, SeededDraws
<1>4. DriverInv' /\ GeneratorInv'
  BY <1>3, Arguments DEF CompareInv, DriverInv, GeneratorInv
<1>5. CallInv'
  BY <1>3 DEF CallInv
<1>6. CachedInv'
  <2>1. /\ inputTokens = prompt /\ maxTotalTokens = Limit /\ draws = Len(allTokens) - Len(prompt)
        /\ Recorded(allTokens, draws)
    BY <1>3 DEF CompareInv, CallInv
  <2>2. Complete(allTokens)
    BY <1>3, <2>1, DoneIsComplete DEF CompareInv
  <2>3. Complete(cachedText)'
    BY <1>3, <2>2 DEF Complete, Limit, TotalFor, Smaller
  <2>4. Recorded(cachedText, Len(cachedText) - Len(prompt))'
    BY <1>3, <2>1 DEF Recorded, ReferenceLogits
  <2> QED
    BY <2>3, <2>4 DEF CachedInv
<1>7. RetraceInv'
  <2>1. Prefix(cachedText', 0) = <<>>
    BY DEF Prefix
  <2>2. Len(allTokens') = 0 /\ Len(allTokens') <= Len(cachedText')
    BY <1>3, Arguments
  <2> QED
    BY <1>3, <2>1, <2>2 DEF CompareInv, RetraceInv, UncachedRetracesCached, Prefix
<1> QED
  BY <1>2, <1>4, <1>5, <1>6, <1>7 DEF CompareInv

-----------------------------------------------------------------------------
(* The theorems.                                                           *)

LEMMA CompareInitInv ==
  ASSUME CompareInit
  PROVE  CompareInv
<1>1. IInv
  BY InitIInv DEF CompareInit
<1>2. StopsInTime
  BY DEF CompareInit, Init, StopsInTime, Prefix, Busy
<1>3. /\ stage = "seeding" /\ prompt \in Prompts \ {<<>>} /\ maxNew \in MaxNew /\ draws = 0
      /\ constructible \in SUBSET BOOLEAN
      /\ generator = {} /\ cachedText = <<>> /\ warned = FALSE /\ pc = "idle" /\ allTokens = <<>>
  BY DEF CompareInit, Init
<1>4. DriverInv
  <2>1. cachedText \in Seq(Token) /\ draws \in Nat
    BY <1>3
  <2>2. warned \in BOOLEAN
    BY <1>3
  <2> QED
    BY <1>3, <2>1, <2>2 DEF DriverInv
<1>5. GeneratorInv /\ CallInv /\ CachedInv
  BY <1>3 DEF GeneratorInv, CallInv, CachedInv
<1>6. RetraceInv
  BY <1>3 DEF RetraceInv, UncachedRetracesCached
<1> QED
  BY <1>1, <1>2, <1>4, <1>5, <1>6 DEF CompareInv

LEMMA CompareStep ==
  ASSUME CompareInv, [CompareNext]_compareVars
  PROVE  CompareInv'
<1>1. ASSUME NEW token \in Token, Draw(token) PROVE CompareInv'
  BY <1>1, DrawStep
<1> QED
  BY <1>1, StageStep, CallGenerateStep, ForwardStep, RunUncachedStep DEF CompareNext

\* The object, the generator and the two texts stay in step through both runs
\* (main.py:78-106).
THEOREM CompareInvariant == CompareSpec => []CompareInv
<1>1. CompareInit => CompareInv
  BY CompareInitInv
<1>2. CompareInv /\ [CompareNext]_compareVars => CompareInv'
  BY CompareStep
<1> QED
  BY <1>1, <1>2, PTL DEF CompareSpec

\* Every variable of the comparison keeps its type.
THEOREM CompareTypeCorrect == CompareSpec => []CompareTypeOK
<1>1. CompareInv => CompareTypeOK
  BY DEF CompareInv, IInv, DriverInv, CompareTypeOK
<1> QED
  BY <1>1, CompareInvariant, PTL

\* With the same seed the run without the cache makes, token by token, the text of
\* the run with it, and stops where that one stopped (main.py:78-92).
THEOREM CacheMakesNoDifference == CompareSpec => []UncachedRetracesCached
<1>1. CompareInv => UncachedRetracesCached
  BY DEF CompareInv, RetraceInv
<1> QED
  BY <1>1, CompareInvariant, PTL

\* The warning that the two texts differ is never printed (main.py:105-106).
THEOREM NeverWarned == CompareSpec => []~warned
<1>1. CompareInv => ~warned
  BY DEF CompareInv, RetraceInv
<1> QED
  BY <1>1, CompareInvariant, PTL

=============================================================================
