------------------------------- MODULE Editor -------------------------------
(***************************************************************************)
(* Editing of one line: Editor.cpp.  A command is a function of the state  *)
(* of the editor, so that commands can call each other as they do in the   *)
(* code: it returns the state, and whether it succeeded.                   *)
(***************************************************************************)
EXTENDS Integers, Sequences, SequencesExt, FiniteSets, FiniteSetsExt

CONSTANTS
  Character,       \* what a line can consist of, with "^C" and ".q", see TextInput
  Alnum,           \* characters of a word
  Upper, Lower,    \* toupper and tolower, functions on characters
  MaxUndoBufSize   \* 100 in the code

ASSUME EditorAssumption ==
  /\ {"^C", ".q"} \subseteq Character
  /\ Upper \in [Character -> Character] /\ Lower \in [Character -> Character]
  /\ MaxUndoBufSize \in Nat

End == 1000   \* Range::End(), more than any line
None == -1    \* static_cast<size_t>(-1): not in the history

(***************************************************************************)
(* Range: what has to be displayed again, from start up to end, and which  *)
(* prompts.                                                                *)
(***************************************************************************)
Span(a, b) == [start |-> a, end |-> b, prompts |-> {}]
Empty == Span(0, 0)
AllText == Span(0, End)
AllWithPrompt == [AllText EXCEPT !.prompts = {"prompt", "editor"}]

IsEmpty(r) == r.start = r.end /\ r.prompts = {}

Extend(r, with) ==
  IF IsEmpty(r) THEN with
  ELSE IF IsEmpty(with) THEN r
  ELSE [start |-> Min({r.start, with.start}), end |-> Max({r.end, with.end}),
        prompts |-> r.prompts \cup with.prompts]

(***************************************************************************)
(* The state of the editor.  hist is the history, oldest line first, and   *)
(* R what has changed.  stem and base are for the properties only: the     *)
(* entry, counted from the oldest, that the line was taken from, and the   *)
(* line before a series of cuts, if nothing else has been done between     *)
(* them.                                                                    *)
(***************************************************************************)
EditorState(hist) ==
  [line |-> <<>>, cursor |-> 0, hist |-> hist, notInHist |-> <<>>, paste |-> <<>>,
   search |-> <<>>, cur |-> None, replay |-> None, mode |-> "input", overwrite |-> FALSE,
   cutDir |-> 0, undo |-> <<>>, prompt |-> <<>>, R |-> Empty, stem |-> 0, base |-> {}]

Done(e) == [e |-> e, ok |-> TRUE]
Error(e) == [e |-> e, ok |-> FALSE]

Shown(e, r) == [e EXCEPT !.R = Extend(@, r)]

Searching(e) == e.mode \in {"fwd", "bkw"}

(* Indices count from the newest line. *)
PosOf(e, i) == Len(e.hist) - i
HistLine(e, i) == IF i = None \/ e.hist = <<>> THEN <<>> ELSE e.hist[PosOf(e, i)]

(* History::ModifyLine *)
ModifyLine(e) == [e EXCEPT !.hist[PosOf(e, e.cur)] = e.line]

-----------------------------------------------------------------------------
(* Characters of the line are numbered from 0, as the cursor. *)
IsAlnum(e, i) == e.line[i + 1] \in Alnum

FindNextWord(e) ==
  LET n == Len(e.line)
      from == e.cursor + 1
  IN Min({n} \cup {i \in from..(n - 1) :
                     ~IsAlnum(e, i) /\ \E j \in from..(i - 1) : IsAlnum(e, j)})

FindPrevWord(e) ==
  LET from == e.cursor - 2
  IN Max({0} \cup {i + 1 : i \in {i \in 0..from :
                     ~IsAlnum(e, i) /\ \E j \in (i + 1)..from : IsAlnum(e, j)}})

PushUndo(e) ==
  LET old == IF Len(e.undo) > MaxUndoBufSize THEN Tail(e.undo) ELSE e.undo
  IN [e EXCEPT !.undo = Append(old, [line |-> e.line, cursor |-> e.cursor, stem |-> e.stem])]

ClearPasteBuf(e) == [e EXCEPT !.cutDir = 0]

(* Mutant: what is cut backwards is added at the end, too. *)
AddToPasteBufAtEnd(e, dir, text) ==
  [e EXCEPT !.cutDir = dir, !.paste = IF e.cutDir = dir THEN @ \o text ELSE text,
            !.base = IF e.cutDir = dir THEN @ ELSE {e.line}]

(* Cuts in one direction add up. *)
AddToPasteBuf(e, dir, text) ==
  [e EXCEPT !.cutDir = dir,
            !.paste = IF e.cutDir # dir THEN text
                      ELSE IF dir < 0 THEN text \o @ ELSE @ \o text,
            !.base = IF e.cutDir = dir THEN @ ELSE {e.line}]

Between(e, a, b) == SubSeq(e.line, a + 1, b)

Erase(e, a, b) ==
  [e EXCEPT !.line = SubSeq(@, 1, a) \o SubSeq(@, b + 1, Len(@))]

InsertText(line, at, text) == SubSeq(line, 1, at) \o text \o SubSeq(line, at + 1, Len(line))

(* What a cut does: it takes the text from a to b, and puts the cursor at a. *)
Cut(e, dir, a, b, r) ==
  LET cut == AddToPasteBuf(e, dir, Between(e, a, b))
  IN Done(Shown([Erase(cut, a, b) EXCEPT !.cursor = a], r))

-----------------------------------------------------------------------------
(***************************************************************************)
(* Search in the history.                                                  *)
(***************************************************************************)
SetHistSearchModePrompt(e) ==
  Shown([e EXCEPT !.prompt = <<e.mode>> \o e.search],
        [Empty EXCEPT !.prompts = {"editor"}])

CancelSpecialInputMode(e) ==
  IF e.mode = "input" THEN e
  ELSE Shown([e EXCEPT !.prompt = <<>>, !.mode = "input"], [Empty EXCEPT !.prompts = {"editor"}])

HasPart(text, part) ==
  \E i \in 0..(Len(text) - Len(part)) : SubSeq(text, i + 1, i + Len(part)) = part

UpdateHistSearch(e) ==
  LET from == Max({e.cur, 0})
      range == IF e.mode = "fwd" THEN 0..from ELSE from..(Len(e.hist) - 1)
      hits == {i \in range : HasPart(HistLine(e, i), e.search)}
      i == IF e.mode = "fwd" THEN Max(hits) ELSE Min(hits)
  IN IF e.search = <<>> THEN Done(e)
     ELSE IF hits = {} THEN Error([e EXCEPT !.cur = None])
     ELSE Done(Shown([e EXCEPT !.cur = i, !.line = HistLine(e, i), !.stem = PosOf(e, i),
                               !.cursor = Len(HistLine(e, i))], AllText))

Undo(e) ==
  IF e.undo = <<>> THEN Done(e)
  ELSE LET last == Last(e.undo)
       IN Done(Shown([e EXCEPT !.line = last.line, !.cursor = last.cursor, !.stem = last.stem,
                               !.undo = Front(@)], AllText))

(* ^G *)
CancelAndRevert(e) == Undo(CancelSpecialInputMode(e))

-----------------------------------------------------------------------------
ProcessChar(e, c) ==
  LET f == ClearPasteBuf(PushUndo(e))
      n == Len(f.line)
  IN IF Searching(e)
     THEN UpdateHistSearch(SetHistSearchModePrompt([e EXCEPT !.search = Append(@, c)]))
     ELSE IF f.overwrite
     THEN Done(Shown([f EXCEPT !.line = IF f.cursor < n THEN [@ EXCEPT ![f.cursor + 1] = c]
                                        ELSE Append(@, c)],
                     Span(f.cursor, f.cursor + 1)))
     ELSE Done(Shown([f EXCEPT !.line = InsertText(@, f.cursor, <<c>>), !.cursor = @ + 1],
                     Span(f.cursor, End)))

MoveTo(e, to) == Done([e EXCEPT !.cursor = to])

ProcessMove(e, m) ==
  LET f == CancelSpecialInputMode(ClearPasteBuf(e))
      n == Len(f.line)
  IN CASE m = "Right" /\ Searching(e) -> Done(CancelAndRevert(e).e)
       [] m = "End" -> MoveTo(f, n)
       [] m = "Front" -> MoveTo(f, 0)
       [] m = "Right" /\ ~Searching(e) -> IF f.cursor < n THEN MoveTo(f, f.cursor + 1) ELSE Error(f)
       [] m = "Left" -> IF f.cursor > 0 THEN MoveTo(f, f.cursor - 1) ELSE Error(f)
       [] m = "NextWord" -> MoveTo(f, FindNextWord(f))
       [] m = "PrevWord" -> MoveTo(f, FindPrevWord(f))

(* Commands while searching.  What is no command of the search ends it. *)
SearchAgain(e, to) ==
  LET r == UpdateHistSearch([e EXCEPT !.cur = to])
  IN IF r.ok THEN r ELSE Error([r.e EXCEPT !.cur = e.cur])

ProcessSearch(e, cmd) ==
  LET mode == IF cmd = "ReverseSearch" THEN "bkw" ELSE "fwd"
      turned == SetHistSearchModePrompt([e EXCEPT !.mode = mode])
  IN CASE cmd \in {"ReverseSearch", "ForwardSearch"} /\ mode # e.mode -> Done(turned)
       [] cmd = "DelLeft" ->
            IF e.search = <<>> THEN Error(e)
            ELSE UpdateHistSearch(SetHistSearchModePrompt([e EXCEPT !.search = Front(@)]))
       [] cmd = "ReverseSearch" /\ mode = e.mode ->
            IF e.cur + 1 >= Len(e.hist) THEN Error(e) ELSE SearchAgain(e, e.cur + 1)
       [] cmd = "ForwardSearch" /\ mode = e.mode ->
            IF e.cur = 0 THEN Error(e) ELSE SearchAgain(e, Max({e.cur - 1, 0}))
       [] OTHER -> Error(CancelSpecialInputMode(e))

-----------------------------------------------------------------------------
(***************************************************************************)
(* The history.  An entry that is left is replaced by what the line has    *)
(* become.                                                                 *)
(***************************************************************************)

TakeLine(e, line, cur) ==
  LET f == Shown([e EXCEPT !.line = line, !.cur = cur,
                           !.stem = IF cur = None THEN 0 ELSE PosOf(e, cur)], AllText)
  IN Done(ProcessMove(f, "End").e)

HistOlder(e) ==
  LET f == IF e.cur = None THEN [e EXCEPT !.notInHist = e.line] ELSE ModifyLine(e)
  IN IF e.cur + 1 >= Len(e.hist) THEN Error(e)
     ELSE TakeLine(f, HistLine(f, e.cur + 1), e.cur + 1)

HistNewer(e) ==
  IF e.cur = None THEN Error(e)
  ELSE IF e.cur = 0
  THEN TakeLine([ModifyLine(e) EXCEPT !.notInHist = <<>>], e.notInHist, None)
  ELSE TakeLine(e, HistLine(e, e.cur - 1), e.cur - 1)

DelLeft(e) ==
  IF e.cursor = 0 THEN Error(e)
  ELSE Cut(e, -1, e.cursor - 1, e.cursor, Span(e.cursor - 1, End))

Del(e) ==
  IF e.cursor = Len(e.line) THEN Error(e)
  ELSE Cut(e, 1, e.cursor, e.cursor + 1, Span(e.cursor, End))

Paste(e) ==
  Done(ClearPasteBuf(Shown([e EXCEPT !.line = InsertText(@, e.cursor, e.paste),
                                     !.cursor = @ + Len(e.paste)], Span(e.cursor, End))))

(* With one character, and the cursor behind it, the character before the   *)
(* line is read and written: the commands that do this are left out.        *)
SwapsOutside(e) == e.cursor = 1 /\ Len(e.line) = 1

(* A search for nothing, repeated, gets to entry 0 of an empty history,     *)
(* which ModifyLine would write: left out, too.                             *)
ModifiesNoEntry(e) == e.cur = 0 /\ e.hist = <<>>

SwapThisAndLeft(e) ==
  LET at == Min({e.cursor, Len(e.line) - 1})
      line == [e.line EXCEPT ![at + 1] = e.line[at], ![at] = e.line[at + 1]]
  IN IF e.cursor < 1 THEN Error(e)
     ELSE Done(ProcessMove(Shown([e EXCEPT !.line = line], Span(at - 1, End)), "Right").e)

ToUpperMoveNextWord(e) ==
  LET line == [e.line EXCEPT ![e.cursor + 1] = Upper[@]]
      f == Shown([e EXCEPT !.line = line], Span(e.cursor, e.cursor + 1))
  IN IF e.cursor >= Len(e.line) THEN Error(e) ELSE Done(ProcessMove(f, "NextWord").e)

(* The range is from the cursor, and as long as the number of the last      *)
(* character.                                                               *)
WordTo(e, case) ==
  LET to == FindNextWord(e)
      line == [i \in DOMAIN e.line |-> IF i - 1 \in e.cursor..(to - 1) THEN case[e.line[i]] ELSE e.line[i]]
  IN Done(Shown([e EXCEPT !.line = line, !.cursor = to], Span(e.cursor, e.cursor + to)))

StartSearch(e, mode) ==
  UpdateHistSearch(SetHistSearchModePrompt([PushUndo(e) EXCEPT !.search = <<>>, !.mode = mode]))

(* Completions are shown below the line. *)
Complete(e, found) ==
  LET f == [ProcessMove(e, "End").e EXCEPT !.cursor = e.cursor]
  IN Done(IF found THEN Shown(f, AllWithPrompt) ELSE f)

(* Mutant: the next line still belongs to the entry. *)
EnterKeepsEntry(e) == Done(CancelSpecialInputMode([e EXCEPT !.replay = None]))

Enter(e) == Done(CancelSpecialInputMode([e EXCEPT !.replay = None, !.cur = None]))

TextModifying ==
  {"Del", "DelLeft", "CutToEnd", "CutToFront", "CutPrevWord", "CutNextWord", "Paste",
   "SwapThisAndLeft", "WordToUpper", "WordToLower", "ToUpperMoveNextWord", "ReverseSearch",
   "ForwardSearch", "HistOlder", "HistNewer", "HistReplay", "HistComplete", "Complete",
   "CompleteFound"}

ProcessCommandInInput(e, cmd) ==
  LET n == Len(e.line) IN
  CASE cmd = "Del" -> Del(e)
    [] cmd = "DelLeft" -> DelLeft(e)
    [] cmd = "CutToEnd" -> Cut(e, 1, e.cursor, n, Span(e.cursor, End))
    [] cmd = "CutToFront" -> Cut(e, -1, 0, e.cursor, AllText)
    [] cmd = "CutNextWord" -> Cut(e, 1, e.cursor, FindNextWord(e), Span(e.cursor, End))
    [] cmd = "CutPrevWord" -> Cut(e, -1, FindPrevWord(e), e.cursor, Span(FindPrevWord(e), End))
    [] cmd = "Paste" -> Paste(e)
    [] cmd = "SwapThisAndLeft" -> SwapThisAndLeft(e)
    [] cmd = "WordToUpper" -> WordTo(e, Upper)
    [] cmd = "WordToLower" -> WordTo(e, Lower)
    [] cmd = "ToUpperMoveNextWord" -> ToUpperMoveNextWord(e)
    [] cmd = "ReverseSearch" -> StartSearch(e, "bkw")
    [] cmd = "ForwardSearch" -> StartSearch(e, "fwd")
    [] cmd = "HistOlder" -> HistOlder(e)
    [] cmd = "HistNewer" -> HistNewer(e)
    [] cmd = "HistReplay" -> IF e.cur = None THEN Error(e) ELSE Done([e EXCEPT !.replay = e.cur])
    [] cmd = "Complete" -> Complete(e, FALSE)
    [] cmd = "CompleteFound" -> Complete(e, TRUE)
    [] cmd = "Enter" -> Enter(e)
    [] cmd = "ToggleOverwriteMode" -> Done([e EXCEPT !.overwrite = ~@])
    [] cmd = "Undo" -> Undo(e)
    [] cmd \in {"ClearScreen", "Esc", "Ignore"} -> Done(e)
    [] cmd = "HistComplete" -> Error(e)

(* They change the line and do not end a series of cuts. *)
AmidCuts == {"WordToUpper", "WordToLower", "ReverseSearch", "ForwardSearch", "Undo"}

ProcessCommand(e, cmd) ==
  LET g == IF cmd \in AmidCuts THEN [e EXCEPT !.base = {}] ELSE e
      f == IF cmd \in TextModifying THEN PushUndo(g) ELSE g
  IN IF Searching(f) THEN ProcessSearch(f, cmd) ELSE ProcessCommandInInput(f, cmd)

-----------------------------------------------------------------------------
(* The line was taken: Editor::ResetText. *)
ResetText(e) ==
  LET added == e.line # <<>>
      hist == IF added THEN Append(e.hist, e.line) ELSE e.hist
      replay == IF e.replay = None THEN None ELSE IF added THEN e.replay ELSE e.replay - 1
      f == [e EXCEPT !.hist = hist, !.line = <<>>, !.cursor = 0, !.cutDir = 0, !.search = <<>>,
                     !.undo = <<>>, !.stem = 0]
      g == CancelSpecialInputMode(f)
  IN IF e.replay = None THEN g
     ELSE [g EXCEPT !.replay = replay, !.line = HistLine(g, replay),
                    !.stem = IF replay = None THEN 0 ELSE PosOf(g, replay)]

=============================================================================
