--------------------------- MODULE InputValidator ---------------------------
(***************************************************************************)
(* Whether a statement goes on on the next line (InputValidator.cpp).  The *)
(* brackets, block comments and conditionals that are open are kept from   *)
(* line to line; the rest of a line is tokens.  "'" stands for a quote     *)
(* without its partner, a literal is a word.                               *)
(***************************************************************************)
EXTENDS Integers, Sequences, SequencesExt, FiniteSets

(* tok::l_xxx, with tok::less for a template. *)
Opening == {"(", "[", "{", "/*", "#if"}
Closing == {")", "]", "}", "*/", "#endif"}
Brace == {")", "]", "}"}

ClosesBrace(t, open) == <<open, t>> \in {<<"(", ")">>, <<"[", "]">>, <<"{", "}">>}

(* What is known in the middle of a line: m_ParenStack, lastNonSpaceTok, and *)
(* whether the line is at its end or does not match.                         *)
Scan(stack, last) == [stack |-> stack, last |-> last, at |-> "line"]

Top(stack) == IF stack = <<>> THEN "unknown" ELSE Last(stack)

InBlockComment(stack) == Top(stack) = "/*"

(* The last brace of a template ends it. *)
CloseBrace(stack, t) ==
  IF t = "}" /\ Len(stack) = 2 /\ stack[1] = "<" THEN <<>> ELSE Front(stack)

(* Mutant: comments nest. *)
InCommentNested(v, t) ==
  CASE t = "*/" -> [v EXCEPT !.stack = Front(@), !.last = t]
    [] t = "/*" -> [v EXCEPT !.stack = Append(@, t), !.last = t]
    [] OTHER -> [v EXCEPT !.last = t]

(* A quote is lexed in a comment, too, and takes the rest of the line. *)
InComment(v, t) ==
  CASE t = "*/" -> [v EXCEPT !.stack = Front(@), !.last = t]
    [] t = "'" -> [v EXCEPT !.at = "end"]
    [] OTHER -> [v EXCEPT !.last = t]

Mismatch(v) == [v EXCEPT !.at = "mismatch"]

Closed(v, t, matches, stack) ==
  IF matches THEN [v EXCEPT !.stack = stack, !.last = t] ELSE Mismatch(v)

(* The switch of validate(). *)
InCode(v, t) ==
  CASE t \in Opening -> [v EXCEPT !.stack = Append(@, t), !.last = t]
    [] t \in Brace -> Closed(v, t, ClosesBrace(t, Top(v.stack)), CloseBrace(v.stack, t))
    [] t = "*/" -> Mismatch(v)
    [] t = "#endif" -> Closed(v, t, Top(v.stack) = "#if", Front(v.stack))
    [] t = ";" -> [v EXCEPT !.stack = IF @ = <<"<">> THEN <<>> ELSE @, !.last = t]
    [] t = "//" -> [v EXCEPT !.at = "end", !.last = "unknown"]
    [] t = "'" -> [v EXCEPT !.at = "end"]
    [] OTHER -> [v EXCEPT !.last = t]

Step(v, t) ==
  IF v.at # "line" THEN v
  ELSE IF InBlockComment(v.stack) THEN InComment(v, t) ELSE InCode(v, t)

(* template is looked for at the begin of a statement only. *)
Begin(stack, line) ==
  IF stack = <<>> /\ line # <<>>
  THEN Scan(IF line[1] = "template" THEN <<"<">> ELSE <<>>, IF line[1] = "'" THEN "unknown" ELSE line[1])
  ELSE Scan(stack, "unknown")

ScanLine(stack, line) == FoldLeft(Step, Begin(stack, line), line)

Goes(last) == last \in {"\\", ","}

(* A comma or backslash before a mismatch continues the line, too. *)
ResultOf(v) ==
  IF Goes(v.last) \/ (v.stack # <<>> /\ v.at # "mismatch") THEN "kIncomplete"
  ELSE IF v.at = "mismatch" THEN "kMismatch" ELSE "kComplete"

-----------------------------------------------------------------------------
(***************************************************************************)
(* The reference: what is open in a text of lines, found by erasing pairs  *)
(* that match, without regard to how it was read.                          *)
(***************************************************************************)

(* What the text is read as: in code, in a block comment, or behind // or a *)
(* quote; and the brackets that count.                                       *)
Read(r, t) ==
  LET code == r.in = "code"
      comment == r.in = "comment"
  IN [in |-> CASE code /\ t = "/*" -> "comment"
               [] comment /\ t = "*/" -> "code"
               [] code /\ t \in {"//", "'"} -> "rest"
               [] r.in = "rest" /\ t = "\n" -> "code"
               [] OTHER -> r.in,
      brackets |-> IF (code /\ t \in Opening \cup Closing) \/ (comment /\ t = "*/")
                   THEN Append(r.brackets, t) ELSE r.brackets,
      quoted |-> r.quoted \/ (comment /\ t = "'")]

Reading(text) ==
  FoldLeft(Read, [in |-> "code", brackets |-> <<>>, quoted |-> FALSE], text)

Partner(open, t) == ClosesBrace(t, open) \/ <<open, t>> \in {<<"/*", "*/">>, <<"#if", "#endif">>}

Erased[s \in Seq(Opening \cup Closing)] ==
  LET pairs == {i \in 1..(Len(s) - 1) : Partner(s[i], s[i + 1])}
      i == CHOOSE i \in pairs : TRUE
  IN IF pairs = {} THEN s ELSE Erased[SubSeq(s, 1, i - 1) \o SubSeq(s, i + 2, Len(s))]

Unmatched(text) == Erased[Reading(text).brackets]

(* No bracket closes what was not opened. *)
WellFormed(text) == \A i \in DOMAIN Unmatched(text) : Unmatched(text)[i] \in Opening

(* A quote within a comment, which the lexer takes for one of the code. *)
QuoteInComment(text) == Reading(text).quoted

=============================================================================
