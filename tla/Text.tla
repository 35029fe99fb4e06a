-------------------------------- MODULE Text ---------------------------------
(***************************************************************************)
(* External: texts and what strconv makes of them.  A text is tagged with  *)
(* what it spells: <<"int", n>>, <<"bool", b>> or <<"str", s>> (anything   *)
(* else).                                                                  *)
(***************************************************************************)
EXTENDS Integers, Sequences

EmptyText == <<"str", "">>

\* strconv.ParseBool takes 0 and 1 too.
IsBool(text) == text[1] = "bool" \/ (text[1] = "int" /\ text[2] \in {0, 1})
BoolOf(text) == text \in {<<"bool", TRUE>>, <<"int", 1>>}

IsInt(text) == text[1] = "int"
=============================================================================
