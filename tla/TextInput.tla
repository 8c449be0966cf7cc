------------------------------ MODULE TextInput ------------------------------
(***************************************************************************)
(* Reading a line from a terminal: TextInput::ReadInput, ProcessNewInput   *)
(* and TakeInput with the key bindings, as UserInterface uses them.        *)
(***************************************************************************)
EXTENDS TerminalDisplay

CONSTANTS
  Session,      \* names of sessions
  Keys(_),      \* the keys of a session
  Entries(_),   \* its history, oldest line first
  MaxKeys(_),   \* bound: keys pressed in it
  MaxLine,      \* bound: length of a line
  Prompt

VARIABLES
  session, e, d,
  state,       \* "none", "reading", "eol", "eof", "over": fLastReadResult
  escPending,  \* BOOLEAN: KeyBinding::fEscPending
  pressed,     \* keys pressed
  astray       \* history: the line was replaced, and fCurHistEntry was not

(* What a cell of the terminal can show. *)
Glyph == Character \cup {Blank, "bkw", "fwd"}

ASSUME TextInputAssumption ==
  /\ Prompt \in Seq(Glyph)
  /\ MaxLine \in Nat \ {0} /\ 2 * MaxLine < End
  /\ \A s \in Session :
       /\ MaxKeys(s) \in Nat
       /\ Len(Prompt) + 1 + MaxKeys(s) + MaxLine <= Cells
       /\ Entries(s) \in Seq({l \in Seq(Character) : Len(l) <= MaxLine})
  /\ \A s \in Session : \A k \in Keys(s) :
       /\ k.kind \in {"char", "ctrl", "special"}
       /\ k.kind = "char" => k.key \in Character

vars == <<session, e, d, state, escPending, pressed, astray>>

-----------------------------------------------------------------------------
(***************************************************************************)
(* KeyBinding.  A key is a character, a character with the control key, or *)
(* a special key.                                                          *)
(***************************************************************************)
Char(c) == [kind |-> "char", key |-> c]
Ctrl(c) == [kind |-> "ctrl", key |-> c]
Special(c) == [kind |-> "special", key |-> c]

Cmd(id) == [kind |-> "command", id |-> id]
MoveCmd(id) == [kind |-> "move", id |-> id]
Bad == [kind |-> "error", id |-> "error"]

CtrlCommand(c, esc) ==
  CASE c = "a" -> MoveCmd("Front")
    [] c = "b" -> MoveCmd("Left")
    [] c \in {"c", "d", "z"} -> [kind |-> "control", id |-> c]
    [] c = "e" -> MoveCmd("End")
    [] c \in {"f", "g"} -> MoveCmd("Right")
    [] c = "h" -> Cmd(IF esc THEN "CutPrevWord" ELSE "DelLeft")
    [] c = "i" -> Cmd("Complete")
    [] c \in {"j", "m"} -> Cmd("Enter")
    [] c = "k" -> Cmd("CutToEnd")
    [] c = "l" -> Cmd("ClearScreen")
    [] c = "n" -> Cmd("HistNewer")
    [] c = "o" -> Cmd("HistReplay")
    [] c = "p" -> Cmd("HistOlder")
    [] c = "r" -> Cmd("ReverseSearch")
    [] c = "s" -> Cmd("ForwardSearch")
    [] c = "t" -> Cmd("SwapThisAndLeft")
    [] c = "u" -> Cmd("CutToFront")
    [] c = "w" -> Cmd("CutPrevWord")
    [] c = "y" -> Cmd("Paste")
    [] c = "_" -> Cmd("Undo")
    [] OTHER -> Bad

EscCommand(c) ==
  CASE c = "b" -> MoveCmd("PrevWord")
    [] c = "c" -> Cmd("ToUpperMoveNextWord")
    [] c = "d" -> Cmd("CutNextWord")
    [] c = "f" -> MoveCmd("NextWord")
    [] c = "l" -> Cmd("WordToLower")
    [] c = "u" -> Cmd("WordToUpper")
    [] OTHER -> Bad

SpecialCommand(c, esc) ==
  CASE c = "Home" -> MoveCmd("Front")
    [] c = "End" -> MoveCmd("End")
    [] c = "Up" -> Cmd("HistOlder")
    [] c = "Down" -> Cmd("HistNewer")
    [] c = "Left" -> MoveCmd("Left")
    [] c = "Right" -> MoveCmd("Right")
    [] c = "Del" -> Cmd(IF esc THEN "CutPrevWord" ELSE "Del")
    [] c = "Ins" -> Cmd("ToggleOverwriteMode")
    [] c = "Enter" -> Cmd("Enter")
    [] c = "Esc" -> Cmd(IF esc THEN "Esc" ELSE "Ignore")
    [] OTHER -> Cmd("Ignore")

ToCommand(k) ==
  CASE k.kind = "ctrl" -> CtrlCommand(k.key, escPending)
    [] k.kind = "special" -> SpecialCommand(k.key, escPending)
    [] OTHER -> IF escPending THEN EscCommand(k.key) ELSE [kind |-> "char", id |-> k.key]

-----------------------------------------------------------------------------
(* Editor::Process *)
Process(cmd) ==
  CASE cmd.kind = "char" -> ProcessChar(e, cmd.id)
    [] cmd.kind = "move" -> ProcessMove(e, cmd.id)
    [] cmd.kind = "command" -> ProcessCommand(e, cmd.id)
    [] OTHER -> Error(e)

(* TabCompletion::Complete may find something. *)
Outcomes(cmd) == IF cmd = Cmd("Complete") THEN {cmd, Cmd("CompleteFound")} ELSE {cmd}

(* Ctrl-D deletes, as long as there is a line. *)
Meant(cmd) ==
  IF cmd = [kind |-> "control", id |-> "d"] /\ e.line # <<>> THEN Cmd("Del") ELSE cmd

(* ^C: the line goes into the history with "^C" at its end, and a new one  *)
(* begins.  MaxLine bounds the entry.                                       *)
Interrupt ==
  LET f == [e EXCEPT !.line = @ \o <<"^C">>, !.R = AllText]
      g == ResetText(f)
      shown == NextRow(DisplayNewInput(d, f, Prompt))
  IN /\ Len(e.line) < MaxLine
     /\ e' = [g EXCEPT !.R = Empty]
     /\ d' = NotifyTextChange(shown, g, Prompt, AllWithPrompt)
     /\ astray' = TRUE
     /\ UNCHANGED state

(* ^Z: the program is stopped, and the line is shown in a new row when it  *)
(* goes on.                                                                 *)
Suspend ==
  /\ e' = [e EXCEPT !.R = Empty]
  /\ d' = NotifyTextChange(NextRow(d), e, Prompt, AllWithPrompt)
  /\ UNCHANGED <<state, astray>>

(* ^D without a line: the line ".q" is taken, and the input is at its end. *)
AtEOF ==
  LET f == [e EXCEPT !.line = <<".q">>]
  IN /\ e' = f
     /\ d' = DisplayNewInput(NotifyTextChange(d, f, Prompt, AllWithPrompt), f, Prompt)
     /\ state' = "eof"
     /\ UNCHANGED astray

(* Commands that put another line in the place of the current one, and do  *)
(* not say so to fCurHistEntry: undo, ^G, and a search for nothing.         *)
LeavesEntry(cmd, f) ==
  /\ f.cur # None
  /\ \/ cmd = Cmd("Undo") /\ ~Searching(e)
     \/ cmd = MoveCmd("Right") /\ Searching(e)
     \/ Searching(f) /\ f.search = <<>> /\ f.cur # e.cur

(* What a command of the editor does: it is shown, and Enter and ^O end the *)
(* line.  Completions scroll the terminal, and ^L clears it.                 *)
Edit(cmd) ==
  \E c \in Outcomes(cmd) :
    LET r == Process(c)
        ends == r.ok /\ cmd \in {Cmd("Enter"), Cmd("HistReplay")}
        shown == CASE c = Cmd("CompleteFound") /\ ~Searching(e) -> BlankTerminal
                   [] cmd = Cmd("ClearScreen") /\ ~Searching(e) ->
                        NotifyTextChange([BlankTerminal EXCEPT !.writeLen = d.writeLen], e, Prompt, AllWithPrompt)
                   [] OTHER -> d
    IN /\ Len(r.e.line) <= MaxLine
       /\ e' = r.e
       /\ d' = DisplayNewInput(shown, r.e, Prompt)
       /\ state' = IF ends THEN "eol" ELSE "reading"
       /\ astray' = IF r.e.cur = None THEN FALSE ELSE astray \/ LeavesEntry(cmd, r.e)

(* TextInput::ReadInput begins: the prompt is drawn, and the line if there *)
(* is one.                                                                  *)
ReadInput ==
  LET f == [e EXCEPT !.R = Empty]
  IN /\ state = "none"
     /\ state' = "reading"
     /\ e' = f
     /\ d' = NotifyTextChange([d EXCEPT !.writePos = 0, !.writeLen = 0], f, Prompt, AllWithPrompt)
     /\ UNCHANGED <<session, escPending, pressed, astray>>

(* TextInput::ProcessNewInput and DisplayNewInput *)
ProcessNewInput(k) ==
  LET cmd == Meant(ToCommand(k))
  IN /\ state = "reading" /\ pressed < MaxKeys(session)
     /\ ~(cmd = Cmd("SwapThisAndLeft") /\ SwapsOutside(e))
     /\ ~(cmd = Cmd("HistNewer") /\ ModifiesNoEntry(e))
     /\ pressed' = pressed + 1
     /\ escPending' = (k = Special("Esc") /\ ~escPending)
     /\ CASE cmd = [kind |-> "control", id |-> "c"] -> Interrupt
          [] cmd = [kind |-> "control", id |-> "z"] -> Suspend
          [] cmd = [kind |-> "control", id |-> "d"] -> AtEOF
          [] OTHER -> Edit(cmd)
     /\ UNCHANGED session

(* TextInput::TakeInput *)
TakeInput ==
  /\ state \in {"eol", "eof"}
  /\ state' = IF state = "eol" THEN "none" ELSE "over"
  /\ e' = ResetText(e)
  /\ d' = NextRow(d)
  /\ astray' = (astray \/ (e.line = <<>> /\ e.replay # None))
  /\ UNCHANGED <<session, escPending, pressed>>

Init ==
  /\ session \in Session
  /\ e = EditorState(Entries(session)) /\ d = BlankTerminal
  /\ state = "none" /\ escPending = FALSE /\ pressed = 0 /\ astray = FALSE

Next ==
  \/ ReadInput
  \/ \E k \in Keys(session) : ProcessNewInput(k)
  \/ TakeInput

Spec == Init /\ [][Next]_vars

-----------------------------------------------------------------------------
(* The entries of the history, no entry, and 0 although there is none. *)
Indices(f) == None..Max({0, Len(f.hist) - 1})

(* The cursor, the entries and the undo buffer of Editor stay in range; only *)
(* a search for nothing can take entry 0 of an empty history.                *)
TypeOK ==
  /\ session \in Session
  /\ e.line \in Seq(Character) /\ e.cursor \in 0..Len(e.line)
  /\ e.cur \in Indices(e) /\ e.replay \in Indices(e)
  /\ e.mode \in {"input", "bkw", "fwd"}
  /\ Len(e.undo) <= MaxUndoBufSize + 1
  /\ state = "reading" => e.R.start <= Len(e.line)
  /\ d.screen \in [0..Cells -> Glyph]
  /\ state \in {"none", "reading", "eol", "eof", "over"}
  /\ escPending \in BOOLEAN /\ astray \in BOOLEAN

(* What the terminal has to show. *)
Wanted == Prompt \o e.prompt \o e.line

(* While a line is read, the terminal shows the prompts and the line and    *)
(* nothing else, whichever part of them was written again, with the cursor  *)
(* where it is in the line.  A blank at the begin of a row is what wrapping *)
(* has left, and what a line before this one has left stays.                *)
DisplayShows ==
  state = "reading" =>
    /\ d.writePos = CursorCell(e, Prompt)
    /\ \A i \in 1..Len(Wanted) :
         d.screen[i - 1] = Wanted[i] \/ (d.screen[i - 1] = Blank /\ (i - 1) % Width = 0)
    /\ \A i \in Len(Wanted)..Cells : d.screen[i] = Blank \/ i \in d.old

(* After cuts in one direction, pasting restores the line. *)
PasteRestores ==
  state = "reading" /\ e.cutDir # 0 =>
    \A line \in e.base : InsertText(e.line, e.cursor, e.paste) = line

(* "fCurHistEntry; // the current line stems from a hist entry, -1 if not" *)
StemsFromEntry == state = "reading" /\ e.cur # None => e.stem = PosOf(e, e.cur)

(* The same, as long as nothing else has replaced the line. *)
EntryIsStem == ~astray => StemsFromEntry

(* The members of Editor agree: the line, the cursor and the entry of the    *)
(* history that the line will replace.                                       *)
EntryOK == TypeOK /\ EntryIsStem

=============================================================================
