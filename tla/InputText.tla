------------------------------ MODULE InputText ------------------------------
(***************************************************************************)
(* The prompt that server.py makes of the `input` and the `instructions`   *)
(* of a request, as a sequence of its words. For TLC's runs: the items     *)
(* are nested, and so is the operator that reads them.                     *)
(*                                                                         *)
(* An item of `input` is <<"text", word>>, <<"list", items>>,              *)
(* <<"dict", text, content>> or <<"other">>, which stands for null too.    *)
(***************************************************************************)
EXTENDS SequencesExt

\* extract_text_from_input_item; a `text` hides the `content`, even an empty one.
RECURSIVE Extract(_)
Extract(item) ==
  CASE item[1] = "text" -> SelectSeq(<<item[2]>>, LAMBDA w : w # "")
    [] item[1] = "list" -> FlattenSeq([i \in DOMAIN item[2] |-> Extract(item[2][i])])
    [] item[1] = "dict" /\ item[2][1] = "text" -> Extract(item[2])
    [] item[1] = "dict" /\ item[2][1] # "text" /\ item[3][1] \in {"text", "list"} -> Extract(item[3])
    [] OTHER -> <<>>

\* build_prompt: strings and lists are taken, anything else is not there; blank
\* parts go.
PromptWords(r) ==
  LET texts == IF r.input[1] \in {"text", "list"} THEN Extract(r.input) ELSE <<>>
  IN  SelectSeq(Extract(r.instructions) \o texts, LAMBDA w : w # " ")

===============================================================================
