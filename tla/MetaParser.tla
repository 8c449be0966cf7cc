----------------------------- MODULE MetaParser -----------------------------
(***************************************************************************)
(* The language of the commands that begin with a dot (MetaParser.cpp): a  *)
(* line of tokens is parsed by alternatives that are tried one after the   *)
(* other.  Each looks at the token cache and takes tokens from it; one     *)
(* that fails does not put back what it has taken.                         *)
(***************************************************************************)
EXTENDS Integers, Sequences, SequencesExt, FiniteSets

CONSTANT Word  \* identifiers that are no command

(* Identifiers that the parser knows, and the token kinds. *)
Named ==
  {"L", "x", "T", "q", "U", "I", "O", "O2", "rawInput", "debug", "printDebug",
   "dynamicExtensions", "help", "fileEx", "files", "class", "namespace", "g",
   "typedef", "storeState", "compareState", "stats", "undo", "trace"}

Constant == {"0", "1", "2", "9"}

ValueOf == [c \in Constant |-> CASE c = "0" -> 0 [] c = "1" -> 1 [] c = "2" -> 2 [] c = "9" -> 9]

(* The rest is punctuation, a string literal and comments, its own kind. *)
KindOf(w) ==
  IF w \in Named \cup Word THEN "ident"
  ELSE IF w \in Constant THEN "constant" ELSE w

Token(w) == [kind |-> KindOf(w), text |-> <<w>>]

Eof == [kind |-> "eof", text |-> <<>>]

(* MetaLexer::Lex *)
Lex(line) == [i \in DOMAIN line |-> Token(line[i])]

-----------------------------------------------------------------------------
(***************************************************************************)
(* The token cache s: what is left of the line.                            *)
(***************************************************************************)

LookAhead(s, n) == IF n < Len(s) THEN s[n + 1] ELSE Eof

CurTok(s) == LookAhead(s, 0)

Is(s, kind) == CurTok(s).kind = kind

IsIdent(s, names) == Is(s, "ident") /\ CurTok(s).text[1] \in names

ConsumeToken(s) == IF s = <<>> THEN <<>> ELSE Tail(s)

IsSpace(t) == t.kind = "space"

SkipWhitespace(s) ==
  LET from == CHOOSE n \in 1 .. Len(s) + 1 :
        (\A i \in 1 .. n - 1 : IsSpace(s[i])) /\ (n <= Len(s) => ~IsSpace(s[n]))
  IN SubSeq(s, from, Len(s))

Skip(s) == SkipWhitespace(ConsumeToken(s))

TextOf(s) == FlattenSeq([i \in DOMAIN s |-> s[i].text])

(* What is merged: without the space at its end. *)
Merged(s) ==
  LET n == Len(s)
  IN [kind |-> "raw_ident",
      text |-> TextOf(IF n > 1 /\ IsSpace(s[n]) THEN Front(s) ELSE s)]

(* Where the tokens end that are merged: the first one is taken unseen. *)
EndOfMerge(s, stopAt) ==
  CHOOSE n \in 1 .. Len(s) :
    /\ n = Len(s) \/ s[n + 1].kind = stopAt
    /\ \A i \in 2 .. n : s[i].kind # stopAt

MergeUpTo(s, stopAt) ==
  IF CurTok(s).kind \in {stopAt, "eof", "comment"} THEN s
  ELSE LET n == EndOfMerge(s, stopAt)
       IN <<Merged(SubSeq(s, 1, n))>> \o SubSeq(s, n + 1, Len(s))

(* Takes a token and the space behind it, and merges what follows into one *)
(* token, up to stopAt.                                                    *)
ConsumeAnyStringToken(s, stopAt) == MergeUpTo(Skip(s), stopAt)

RawText(s) == IF Is(s, "raw_ident") THEN CurTok(s).text ELSE <<>>

IdentText(s) == IF Is(s, "ident") THEN CurTok(s).text ELSE <<>>

-----------------------------------------------------------------------------
(***************************************************************************)
(* The alternatives.  The result of one: whether it matched, what it left  *)
(* of the line, and the call it made of MetaSema.                          *)
(***************************************************************************)

NoCall == [act |-> "none", args |-> <<>>]

Failed(s) == [ok |-> FALSE, s |-> s, call |-> NoCall]

Parsed(s, act, args) == [ok |-> TRUE, s |-> s, call |-> [act |-> act, args |-> args]]

(* .L file // comment: the comment is declared, too. *)
isLCommand(s) ==
  LET t == ConsumeAnyStringToken(s, "comment")
      u == IF Is(t, "raw_ident") THEN ConsumeToken(t) ELSE t
      v == IF Is(t, "raw_ident") /\ Is(u, "comment") THEN ConsumeAnyStringToken(u, "eof") ELSE u
  IN IF IsIdent(s, {"L"}) THEN Parsed(v, "L", <<RawText(t)>>) ELSE Failed(s)

(* .x file(args): without a semicolon at the end. *)
Length(s) == IF s # <<>> /\ Last(s).kind = ";" THEN Len(s) - 1 ELSE Len(s)

(* How many parentheses from i on have no opening one. *)
Nesting(s, i, n) ==
  Cardinality({j \in i..n : s[j].kind = ")"}) - Cardinality({j \in i..n : s[j].kind = "("})

(* Where the arguments begin, or 0.  The walk back from the last token stops *)
(* behind the second one.                                                    *)
ArgumentsBegin(s, n) ==
  LET at == {i \in 3..n : Nesting(s, i, n) = 0}
  IN IF at = {} THEN 0 ELSE CHOOSE i \in at : \A j \in at : j <= i

(* The line is nothing but a semicolon or a parenthesis: an index becomes   *)
(* negative, and the parser does not return.                                *)
Runaway(s, n) == n = 0 \/ (n = 1 /\ s[1].kind = ")")

XCall(s, n) ==
  LET i == IF s[n].kind = ")" THEN ArgumentsBegin(s, n) ELSE 0
  IN IF i = 0 THEN Parsed(s, "x", <<TextOf(s), <<"(", ")">>>>)
     ELSE LET t == SubSeq(s, i, Len(s))
          IN Parsed(t, "x", <<TextOf(SubSeq(s, 1, i - 1)), TextOf(t)>>)

isXCommand(s) ==
  LET t == Skip(s)
  IN IF ~IsIdent(s, {"x"}) THEN Failed(s)
     ELSE IF t = <<>> THEN Failed(t)
     ELSE IF Runaway(t, Length(t)) THEN Parsed(t, "runaway", <<>>)
     ELSE XCall(t, Length(t))

(* .T input output *)
isTCommand(s) ==
  LET t == ConsumeAnyStringToken(s, "space")
      u == ConsumeAnyStringToken(t, "eof")
  IN IF ~IsIdent(s, {"T"}) THEN Failed(s)
     ELSE IF ~Is(t, "raw_ident") THEN Failed(t)
     ELSE IF ~Is(u, "raw_ident") THEN Failed(u)
     ELSE Parsed(u, "T", <<RawText(t), RawText(u)>>)

isAtCommand(s) == IF Is(s, "@") THEN Parsed(Skip(s), "@", <<>>) ELSE Failed(s)

isqCommand(s) == IF IsIdent(s, {"q"}) THEN Parsed(s, "q", <<>>) ELSE Failed(s)

isUCommand(s) ==
  LET t == ConsumeAnyStringToken(s, "eof")
  IN IF ~IsIdent(s, {"U"}) THEN Failed(s)
     ELSE IF ~Is(t, "raw_ident") THEN Failed(t)
     ELSE Parsed(t, "U", <<RawText(t)>>)

(* .I, .class and .typedef take the rest of the line, or nothing. *)
TakesRest(s, name) ==
  LET t == ConsumeAnyStringToken(s, "eof")
  IN IF IsIdent(s, {name}) THEN Parsed(t, name, <<RawText(t)>>) ELSE Failed(s)

isICommand(s) == TakesRest(s, "I")

isClassCommand(s) == TakesRest(s, "class")

isTypedefCommand(s) == TakesRest(s, "typedef")

(* .O, .O 2 and .O2 *)
isOCommand(s) ==
  LET t == ConsumeAnyStringToken(s, "eof")
      number == Len(RawText(t)) = 1 /\ RawText(t)[1] \in Constant
  IN IF IsIdent(s, {"O2"})
     THEN IF Is(t, "raw_ident") THEN Failed(t) ELSE Parsed(t, "O", <<<<"2">>>>)
     ELSE IF ~IsIdent(s, {"O"}) THEN Failed(s)
     ELSE IF Is(t, "raw_ident") /\ ~number THEN Failed(t)
     ELSE Parsed(t, "O", <<RawText(t)>>)

(* .rawInput, .printDebug, .dynamicExtensions: a switch, or a toggle. .debug *)
(* and .undo: a number, or none.                                             *)
Mode(s, name) ==
  LET t == Skip(s)
  IN IF IsIdent(s, {name})
     THEN Parsed(t, name, <<IF Is(t, "constant") THEN CurTok(t).text ELSE <<>>>>)
     ELSE Failed(s)

israwInputCommand(s) == Mode(s, "rawInput")

isdebugCommand(s) == Mode(s, "debug")

isprintDebugCommand(s) == Mode(s, "printDebug")

isdynamicExtensionsCommand(s) == Mode(s, "dynamicExtensions")

isundoCommand(s) == Mode(s, "undo")

(* Commands that do not look at the rest of the line. *)
Bare(s, name) == IF IsIdent(s, {name}) THEN Parsed(s, name, <<>>) ELSE Failed(s)

ishelpCommand(s) == IF Is(s, "?") THEN Parsed(s, "help", <<>>) ELSE Bare(s, "help")

isfileExCommand(s) == Bare(s, "fileEx")

isfilesCommand(s) == Bare(s, "files")

(* Mutant: it is an error if a token follows, and the token is left. *)
isNamespaceCommandByToken(s) ==
  LET t == Skip(s)
  IN IF ~IsIdent(s, {"namespace"}) THEN Failed(s)
     ELSE IF t # <<>> THEN Failed(t) ELSE Parsed(t, "namespace", <<>>)

isNamespaceCommand(s) ==
  LET t == ConsumeAnyStringToken(s, "eof")
  IN IF ~IsIdent(s, {"namespace"}) THEN Failed(s)
     ELSE IF Is(t, "raw_ident") THEN Failed(t) ELSE Parsed(t, "namespace", <<>>)

isgCommand(s) ==
  LET t == Skip(s)
  IN IF IsIdent(s, {"g"}) THEN Parsed(t, "g", <<IdentText(t)>>) ELSE Failed(s)

isShellCommand(s) ==
  LET t == ConsumeAnyStringToken(s, "eof")
  IN IF ~Is(s, "!") THEN Failed(s)
     ELSE IF Is(t, "raw_ident") THEN Parsed(t, "!", <<RawText(t)>>)
     ELSE Parsed(t, "none", <<>>)

(* .storeState "name", .compareState "name" *)
StateCommand(s, name) ==
  LET t == Skip(s)
  IN IF ~IsIdent(s, {name}) THEN Failed(s)
     ELSE IF ~Is(t, "string") THEN Failed(t)
     ELSE Parsed(ConsumeToken(t), name, <<CurTok(t).text>>)

isstoreStateCommand(s) == StateCommand(s, "storeState")

iscompareStateCommand(s) == StateCommand(s, "compareState")

(* .stats what filter; .trace is the same, and takes one token more. *)
Statistics(s, name) ==
  LET t == Skip(s)
      u == Skip(t)
  IN IF ~IsIdent(s, {name}) THEN Failed(s)
     ELSE IF ~Is(t, "ident") THEN Failed(t)
     ELSE Parsed(u, "stats", <<IdentText(t), IdentText(u)>>)

isstatsCommand(s) == Statistics(s, "stats")

istraceCommand(s) == Statistics(s, "trace")

(* [1|2|&] > [>] [&1|&2|file] *)
Redirection(s, fd, both) ==
  LET append == LookAhead(s, 1).kind = ">"
      t == IF append THEN ConsumeToken(s) ELSE s
      amp == LookAhead(t, 1).kind = "&"
      number == LookAhead(t, 2)
      dup == amp /\ number.kind = "constant" /\ number.text[1] \in {"1", "2"}
      scope == IF fd = "2" THEN "stderr"
               ELSE IF fd = "" /\ (both \/ amp) THEN "both" ELSE "stdout"
      u == IF dup THEN ConsumeToken(ConsumeToken(t))
           ELSE IF LookAhead(t, 1) = Eof THEN t ELSE ConsumeAnyStringToken(t, "eof")
      file == IF dup THEN <<"&", number.text[1]>> ELSE RawText(u)
  IN Parsed(IF Is(u, "raw_ident") THEN ConsumeToken(u) ELSE u, "redirect",
            <<<<scope>>, file, IF append THEN <<"append">> ELSE <<>>>>)

isRedirectCommand(s) ==
  LET fd == IF Is(s, "constant") /\ LookAhead(s, 1).kind = ">" THEN CurTok(s).text[1] ELSE ""
      t == IF fd # "" THEN ConsumeToken(s) ELSE s
      both == Is(t, "&")
      u == IF both THEN ConsumeToken(t) ELSE t
  IN IF fd \notin {"", "1", "2"} THEN Parsed(s, "none", <<>>)
     ELSE IF Is(u, ">") THEN Redirection(u, fd, both) ELSE Failed(u)

-----------------------------------------------------------------------------
Alternative(name, s) ==
  CASE name = "L" -> isLCommand(s)
    [] name = "x" -> isXCommand(s)
    [] name = "T" -> isTCommand(s)
    [] name = "@" -> isAtCommand(s)
    [] name = "q" -> isqCommand(s)
    [] name = "U" -> isUCommand(s)
    [] name = "I" -> isICommand(s)
    [] name = "O" -> isOCommand(s)
    [] name = "rawInput" -> israwInputCommand(s)
    [] name = "debug" -> isdebugCommand(s)
    [] name = "printDebug" -> isprintDebugCommand(s)
    [] name = "dynamicExtensions" -> isdynamicExtensionsCommand(s)
    [] name = "help" -> ishelpCommand(s)
    [] name = "fileEx" -> isfileExCommand(s)
    [] name = "files" -> isfilesCommand(s)
    [] name = "class" -> isClassCommand(s)
    [] name = "namespace" -> isNamespaceCommand(s)
    [] name = "g" -> isgCommand(s)
    [] name = "typedef" -> isTypedefCommand(s)
    [] name = "!" -> isShellCommand(s)
    [] name = "storeState" -> isstoreStateCommand(s)
    [] name = "compareState" -> iscompareStateCommand(s)
    [] name = "stats" -> isstatsCommand(s)
    [] name = "undo" -> isundoCommand(s)
    [] name = ">" -> isRedirectCommand(s)
    [] name = "trace" -> istraceCommand(s)

Order ==
  <<"L", "x", "T", "@", "q", "U", "I", "O", "rawInput", "debug", "printDebug",
    "dynamicExtensions", "help", "fileEx", "files", "class", "namespace", "g", "typedef",
    "!", "storeState", "compareState", "stats", "undo", ">", "trace">>

(* The first alternative that matches what the failed ones left. *)
isCommand(s) ==
  FoldLeft(LAMBDA r, name : IF r.ok THEN r ELSE Alternative(name, r.s), Failed(s), Order)

isCommandSymbol(s) == Is(s, ".")

isMetaCommand(line) ==
  LET s == Lex(line)
  IN IF isCommandSymbol(s) THEN isCommand(ConsumeToken(s)) ELSE Failed(s)

=============================================================================
