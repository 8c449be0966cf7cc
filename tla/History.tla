------------------------------- MODULE History -------------------------------
(***************************************************************************)
(* The history file: History::AppendToFile of several processes on one     *)
(* file.  A process may be killed between any two steps, and start again.  *)
(***************************************************************************)
EXTENDS Integers, Sequences, SequencesExt, FiniteSets

CONSTANTS
  Proc,
  MaxDepth,     \* fMaxDepth; 0: nothing is written
  PruneLength,  \* fPruneLength; -1: kPruneLengthDefault
  MaxLines      \* bound: lines that a process adds

NPrune ==
  IF PruneLength = -1 THEN (MaxDepth * 8) \div 10
  ELSE IF PruneLength > MaxDepth THEN MaxDepth - 1 ELSE PruneLength

(* The line count is checked every MaxDepth - NPrune lines: with a prune    *)
(* length of MaxDepth the code divides by zero.                              *)
ASSUME PruneAssumption ==
  /\ MaxDepth \in Nat /\ PruneLength \in Nat \cup {-1}
  /\ MaxDepth > 0 => PruneLength # MaxDepth

ASSUME ProcAssumption == IsFiniteSet(Proc) /\ MaxLines \in Nat

VARIABLES
  file,    \* Seq(line), or gone: the file with the name of the history
  inode,   \* which file that is
  gone,    \* BOOLEAN: there is none
  pc,      \* [Proc -> step of AppendToFile]
  added,   \* [Proc -> lines added by it]
  num,     \* [Proc -> fNumHistFileLines]
  tmp,     \* [Proc -> its file _prune<pid>]
  handle,  \* [Proc -> the file it has open]
  log,     \* history: lines, in the order in which they were written
  raced    \* history: two processes were in AppendToFile at once

vars == <<file, inode, gone, pc, added, num, tmp, handle, log, raced>>

Line(p) == <<p, added[p]>>

Go(p, step) == pc' = [pc EXCEPT ![p] = step]

Busy == {p \in Proc : pc[p] \notin {"idle", "dead"}}

-----------------------------------------------------------------------------
(* AddLine: into the entries, and into the file. *)
AddLine(p) ==
  /\ pc[p] = "idle" /\ added[p] < MaxLines
  /\ added' = [added EXCEPT ![p] = @ + 1]
  /\ IF MaxDepth = 0 THEN UNCHANGED pc ELSE Go(p, "count")
  /\ raced' = (raced \/ (MaxDepth # 0 /\ Busy # {}))
  /\ UNCHANGED <<file, inode, gone, num, tmp, handle, log>>

(* The lines of the file are counted from time to time only. *)
CountLines(p) ==
  /\ pc[p] = "count"
  /\ num' = [num EXCEPT ![p] = IF @ < MaxDepth /\ @ % (MaxDepth - NPrune) = 0
                               THEN Len(file) ELSE @]
  /\ Go(p, IF num'[p] >= MaxDepth THEN "prune" ELSE "append")
  /\ UNCHANGED <<file, inode, gone, added, tmp, handle, log, raced>>

(* How many lines are skipped: numLines >= nPrune is true for ever if nPrune *)
(* is 0.                                                                     *)
Skipped(p) == IF NPrune = 0 THEN Len(file) ELSE num[p] - NPrune + 1

(* Mutant: the new line comes first. *)
PruneCopyLineFirst(p) ==
  /\ pc[p] = "prune"
  /\ tmp' = [tmp EXCEPT ![p] = <<Line(p)>> \o SubSeq(file, Skipped(p) + 1, Len(file))]
  /\ Go(p, "unlink")
  /\ UNCHANGED <<file, inode, gone, added, num, handle, log, raced>>

(* The end of the file and the new line go to a file of this process. *)
PruneCopy(p) ==
  /\ pc[p] = "prune"
  /\ tmp' = [tmp EXCEPT ![p] = Append(SubSeq(file, Skipped(p) + 1, Len(file)), Line(p))]
  /\ Go(p, "unlink")
  /\ UNCHANGED <<file, inode, gone, added, num, handle, log, raced>>

Unlink(p) ==
  /\ pc[p] = "unlink"
  /\ file' = <<>> /\ gone' = TRUE
  /\ Go(p, "rename")
  /\ UNCHANGED <<inode, added, num, tmp, handle, log, raced>>

Rename(p) ==
  /\ pc[p] = "rename"
  /\ file' = tmp[p] /\ gone' = FALSE /\ inode' = inode + 1
  /\ num' = [num EXCEPT ![p] = NPrune]
  /\ tmp' = [tmp EXCEPT ![p] = <<>>]
  /\ log' = Append(log, Line(p))
  /\ Go(p, "idle")
  /\ UNCHANGED <<added, handle, raced>>

(* The file is opened, and created if it is not there. *)
OpenToAppend(p) ==
  /\ pc[p] = "append"
  /\ gone' = FALSE /\ inode' = IF gone THEN inode + 1 ELSE inode
  /\ handle' = [handle EXCEPT ![p] = inode']
  /\ Go(p, "write")
  /\ UNCHANGED <<file, added, num, tmp, log, raced>>

(* The line is written into the file that was opened. *)
WriteLine(p) ==
  /\ pc[p] = "write"
  /\ file' = IF handle[p] = inode /\ ~gone THEN Append(file, Line(p)) ELSE file
  /\ num' = [num EXCEPT ![p] = @ + 1]
  /\ log' = Append(log, Line(p))
  /\ Go(p, "idle")
  /\ UNCHANGED <<inode, gone, added, tmp, handle, raced>>

Kill(p) ==
  /\ pc[p] # "dead"
  /\ Go(p, "dead")
  /\ UNCHANGED <<file, inode, gone, added, num, tmp, handle, log, raced>>

(* History::History, ReadFile *)
Start(p) ==
  /\ pc[p] = "dead"
  /\ num' = [num EXCEPT ![p] = Len(file)]
  /\ tmp' = [tmp EXCEPT ![p] = <<>>]
  /\ Go(p, "idle")
  /\ UNCHANGED <<file, inode, gone, added, handle, log, raced>>

Init ==
  /\ file = <<>> /\ inode = 0 /\ gone = TRUE
  /\ pc = [p \in Proc |-> "dead"]
  /\ added = [p \in Proc |-> 0] /\ num = [p \in Proc |-> 0]
  /\ tmp = [p \in Proc |-> <<>>] /\ handle = [p \in Proc |-> 0]
  /\ log = <<>> /\ raced = FALSE

Next ==
  \E p \in Proc :
    \/ AddLine(p) \/ CountLines(p) \/ PruneCopy(p) \/ Unlink(p) \/ Rename(p)
    \/ OpenToAppend(p) \/ WriteLine(p) \/ Kill(p) \/ Start(p)

Spec == Init /\ [][Next]_vars

(* Processes are interchangeable, for TLC. *)
ProcSymmetry == Permutations(Proc)

-----------------------------------------------------------------------------
LineType == Proc \X (1..MaxLines)

(* The steps of AppendToFile keep the types of its variables; a file that is *)
(* not there has no lines.                                                   *)
TypeOK ==
  /\ file \in Seq(LineType) /\ (gone => file = <<>>)
  /\ inode \in Nat /\ num \in [Proc -> Nat]
  /\ pc \in [Proc -> {"idle", "count", "prune", "unlink", "rename", "append", "write", "dead"}]
  /\ added \in [Proc -> 0..MaxLines] /\ handle \in [Proc -> Nat]
  /\ tmp \in [Proc -> Seq(LineType)] /\ raced \in BOOLEAN

(* Whatever the processes do to each other's lines, and whenever they are   *)
(* killed: no line is in the file twice, and the lines of a process are in  *)
(* the order in which they were typed.                                      *)
KeepsOrder ==
  \A i, j \in DOMAIN file :
    i < j /\ file[i][1] = file[j][1] => file[i][2] < file[j][2]

(* As long as no two processes write at once only old lines are lost, also   *)
(* when one is killed while it writes: the file is the end of what was       *)
(* written.                                                                  *)
LosesOldOnly == ~raced /\ Busy = {} => IsSuffix(file, log)

(* Each process counts the lines again before it has added MaxDepth - NPrune *)
(* of them: as long as no two processes write at once, so much can be in the *)
(* file beyond MaxDepth, and a depth of 0 writes nothing.                    *)
Bounded ==
  IF MaxDepth = 0 THEN file = <<>>
  ELSE ~raced =>
    Len(file) <= MaxDepth + (Cardinality(Proc) - 1) * (MaxDepth - NPrune - 1)

(* What AppendToFile promises of the file that all processes share, whenever *)
(* one of them counts, prunes, renames or is killed.                         *)
HistoryKept == TypeOK /\ KeepsOrder /\ LosesOldOnly /\ Bounded

=============================================================================
