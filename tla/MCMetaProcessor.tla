--------------------------- MODULE MCMetaProcessor ---------------------------
(***************************************************************************)
(* Sessions for TLC: one of statements of every shape, one that has        *)
(* commands between the lines of a statement, and one for each form of a   *)
(* command, which the user repeats.                                        *)
(***************************************************************************)
EXTENDS MetaProcessor

CONSTANT id

Code ==
  {id, "template", ";", ",", "\\", "//", "'", "(", ")", "{", "}", "/*", "*/", "#if", "#endif"}

Pairs ==
  {<<"template", "{">>, <<id, ",">>, <<id, "}">>, <<"/*", "'">>, <<"/*", "*/">>, <<"}", ";">>,
   <<"{", "//">>, <<"(", "'">>, <<",", ")">>}

Statements == {<<t>> : t \in Code} \cup Pairs \cup {<<".", "@">>}

Names == {<<n>> : n \in Named \cup {"?", "!", "@", ">", "&", "1", "9", id}}

Rests ==
  {<<>>} \cup
  {<<t>> : t \in {id, "undo", "stats", "string", ">", "&", "0", "1", "9", "space", ")", ";", "//"}} \cup
  {<<id, t>> : t \in {id, "0", "//", ";", ")", "space"}} \cup
  {<<t, "1">> : t \in {"undo", "trace", "O", ">", "(", "string"}} \cup
  {<<id, "(", id, ")">>, <<id, id, "(", id, ")">>, <<id, id, "(", id, ")", ";">>,
   <<id, id, "(", "(", ")", ")">>, <<id, id, "(", ")", "(", ")">>, <<id, "space", id>>,
   <<"stats", "2", ">", id>>, <<"&", ">", ">", id>>, <<"1", ">", "&", "2">>, <<"2", ">", "&", "1">>}

Commands ==
  {<<".">> \o n \o r : n \in Names, r \in Rests}
    \cup {<<".">> \o n \o <<"space">> \o r : n \in Names, r \in Rests}

Mixed ==
  {<<".", "q">>, <<".", "@">>, <<".", "rawInput">>, <<".", "rawInput", "space", "0">>, <<".", "debug">>,
   <<".", "O", "space", "2">>, <<"{">>, <<"}">>, <<"/*">>, <<"*/">>, <<>>}

MCSession == {<<"statements">>, <<"mixed">>} \cup Commands

MCVocabulary(s) ==
  CASE s = <<"statements">> -> Statements
    [] s = <<"mixed">> -> Mixed
    [] OTHER -> {s}

=============================================================================
