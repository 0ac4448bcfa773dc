------------------------------ MODULE MCBackends ------------------------------
(* Request bodies of every shape the handlers tell apart, over a window of   *)
(* four positions and a default budget of three tokens.                      *)
EXTENDS Backends, InputText

Words == {"", " ", "a"}
Texts == { <<"text", w>> : w \in Words }
Dicts == { <<"dict", t, c>> : t \in {<<"text", "">>, <<"text", "a">>} \union {<<"other">>},
                              c \in {<<"text", " ">>, <<"text", "a">>} \union {<<"other">>, <<"list", <<<<"text", "a">>, <<"other">>>>>>} }
Items == Texts \union Dicts \union {<<"other">>, <<"list", <<<<"text", "a">>, <<"text", " ">>>>>>}

Responses ==
  [route : {"responses"}, stream : {FALSE}, instructions : Texts \union {<<"other">>},
   input : Items \union { <<"list", <<i, j>>>> : i \in Items, j \in Texts }, budget : {Null, 1}, n : {1}]

\* Ids of a whole token, of half a token, and of one whose text is two tokens.
Token == <<"int", 0>>
Half == <<"int", 1>>
Double == <<"int", 2>>

\* Two halves read as one token, and one left over reads as one.
MCRetokenized(ids) ==
  LET Count(id) == Cardinality({i \in DOMAIN ids : ids[i] = id})
  IN  Count(Token) + (Count(Half) + 1) \div 2 + 2 * Count(Double)

Completions ==
  [route : {"completions"}, stream : {FALSE}, budget : {Null, 1, 2}, n : {1, 2},
   prompt : { <<"text", k>> : k \in 0 .. 5 }
     \union { <<"list", s>> : s \in
                { << >>, <<Token, Token>>, <<Half, Half>>, <<Token, Double, Double>>, <<Token, <<"text", 1>>>>, <<<<"list", <<Token>>>>, <<"list", << >>>>>>,
                  <<<<"list", <<Token, Token, Token>>>>, <<"list", <<Token>>>>>>,
                  <<<<"list", <<<<"text", 1>>>>>>>>, <<<<"other">>>> }
                \union { <<<<"text", j>>, <<"text", k>>>> : j, k \in {2, 4} } }
     \union {<<"other">>}]

MCRequests ==
  Responses \union { [r EXCEPT !.stream = TRUE] : r \in Responses } \union Completions
===============================================================================
