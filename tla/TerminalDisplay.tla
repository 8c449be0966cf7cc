--------------------------- MODULE TerminalDisplay ---------------------------
(***************************************************************************)
(* What the terminal shows of the line: TerminalDisplay.cpp.  Cells are    *)
(* numbered from the begin of the prompt, row by row; a text that ends at  *)
(* the end of a row moves the terminal to the next one.                    *)
(***************************************************************************)
EXTENDS Editor

CONSTANTS Width, Cells   \* columns, and the cells that are looked at

ASSUME TerminalAssumption == Width \in Nat \ {0} /\ Cells \in Nat

Blank == " "

Row(i) == i \div Width

(* old is for the properties only: cells that show a line before this one. *)
Terminal(screen) ==
  [screen |-> screen, writePos |-> 0, writeLen |-> 0,
   old |-> {i \in DOMAIN screen : screen[i] # Blank}]

BlankTerminal == Terminal([i \in 0..Cells |-> Blank])

(* After "\n" in the cell writePos: what was below stays, and fWritePos and *)
(* fWriteLen start from the new row.                                        *)
NextRow(d) ==
  LET shift == (Row(d.writePos) + 1) * Width
  IN Terminal([i \in 0..Cells |-> IF i + shift <= Cells THEN d.screen[i + shift] ELSE Blank])

Move(d, to) == [d EXCEPT !.writePos = to]

(* WriteRawString and ActOnEOL, which wraps by writing a space. *)
WriteRaw(d, text) ==
  LET from == d.writePos
      to == from + Len(text)
      wrapped == text # <<>> /\ to % Width = 0
  IN [d EXCEPT !.writePos = to,
               !.screen = [i \in 0..Cells |->
                             IF i \in from..(to - 1) THEN text[i - from + 1]
                             ELSE IF wrapped /\ i = to THEN Blank ELSE @[i]]]

(* Mutant: what is left of a longer text stays. *)
EraseNothing(d, wrote) == d

(* Cells from the write position to the end of its row, and rows below it. *)
EraseFrom(d, wrote) ==
  [d EXCEPT !.screen = [i \in 0..Cells |->
     IF \/ wrote < d.writeLen /\ i >= d.writePos /\ Row(i) = Row(d.writePos)
        \/ Row(i) > Row(wrote) /\ Row(i) <= Row(d.writeLen)
     THEN Blank ELSE @[i]]]

(* numToEOL and the loop: the text from the cell where it belongs. *)
WriteWrappedTextPart(d, text, textOffset, writeOffset, requested) ==
  LET available == Len(text) - textOffset
      n == Min({available, requested})
      all == requested \in {End, available}
      written == WriteRaw(d, SubSeq(text, textOffset + 1, textOffset + n))
  IN IF all THEN EraseFrom(written, writeOffset + textOffset + available) ELSE written

WriteWrapped(d, e, prompt, r) ==
  LET plen == Len(prompt)
      elen == Len(e.prompt)
      d1 == IF "prompt" \in r.prompts
            THEN WriteWrappedTextPart(Move(d, 0), prompt, 0, 0, plen) ELSE d
      d2 == IF r.prompts # {} /\ elen > 0
            THEN WriteWrappedTextPart(Move(d1, plen), e.prompt, 0, plen, elen) ELSE d1
      offset == IF r.prompts # {} THEN 0 ELSE r.start
      length == IF r.prompts # {} \/ r.end = End THEN End ELSE r.end - r.start
      d3 == WriteWrappedTextPart(Move(d2, plen + elen + offset), e.line, offset, plen + elen, length)
  IN [d3 EXCEPT !.writeLen = plen + elen + Len(e.line)]

CursorCell(e, prompt) == Len(prompt) + Len(e.prompt) + e.cursor

NotifyTextChange(d, e, prompt, r) ==
  Move(WriteWrapped(d, e, prompt, r), CursorCell(e, prompt))

(* TextInput::UpdateDisplay and NotifyCursorChange *)
DisplayNewInput(d, e, prompt) ==
  Move(IF IsEmpty(e.R) THEN d ELSE WriteWrapped(d, e, prompt, e.R), CursorCell(e, prompt))

=============================================================================
