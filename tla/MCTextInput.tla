----------------------------- MODULE MCTextInput -----------------------------
(***************************************************************************)
(* Sessions for TLC: editing a line, going through the history, searching  *)
(* it, and lines that are longer than a row of the terminal.               *)
(***************************************************************************)
EXTENDS TextInput

MCCharacter == {"a", "A", "-", "b", "c", "d", "f", "l", "u", "^C", ".q", "$"}
MCUpper == [c \in MCCharacter |-> IF c = "a" THEN "A" ELSE c]
MCLower == [c \in MCCharacter |-> IF c = "A" THEN "a" ELSE c]

MCPrompt == <<"$">>

MCSession == {"edit", "words", "history", "search", "empty", "display"}

Ctrls(S) == {Ctrl(c) : c \in S}
Specials(S) == {Special(c) : c \in S}
Chars(S) == {Char(c) : c \in S}

MCKeys(s) ==
  CASE s = "edit" -> Chars({"a", "-"}) \cup Ctrls({"a", "k", "u", "y", "t", "h", "_"}) \cup Specials({"Left", "Del"})
    [] s = "words" -> Chars({"b", "c", "d", "f", "l", "u"}) \cup Ctrls({"w", "a", "e", "y", "h"}) \cup Specials({"Esc", "Up", "Left"})
    [] s = "history" -> Chars({"a"}) \cup Ctrls({"c", "o", "_", "d", "u"}) \cup Specials({"Up", "Down", "Enter"})
    [] s = "search" -> Chars({"a", "-"}) \cup Ctrls({"r", "s", "g", "h", "q", "x"}) \cup Specials({"Up", "Down", "Enter"})
    [] s = "empty" -> Chars({"a"}) \cup Ctrls({"r", "s", "o", "c"}) \cup Specials({"Up", "Down", "Enter"})
    [] s = "display" -> Chars({"a"}) \cup Ctrls({"a", "f", "b", "o", "i", "z", "l", "n"}) \cup Specials({"Ins", "Up", "Enter", "Home", "End", "Right"})

MCEntries(s) ==
  CASE s \in {"edit", "empty"} -> <<>>
    [] s = "words" -> <<<<"a", "-", "A">>, <<"-", "a", "A", "-", "a">>>>
    [] s = "history" -> <<<<"a">>, <<"-">>, <<"a", "-">>>>
    [] s = "search" -> <<<<"a">>, <<"-">>, <<"a", "-">>>>
    [] s = "display" -> <<<<"-">>, <<"-", "-", "-", "-", "-", "-">>>>

MCMaxKeys(s) == CASE s = "edit" -> 5 [] s = "words" -> 5 [] s = "history" -> 7 [] s = "search" -> 7 [] s = "empty" -> 5 [] s = "display" -> 5

=============================================================================
