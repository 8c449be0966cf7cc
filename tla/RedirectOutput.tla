--------------------------- MODULE RedirectOutput ---------------------------
(***************************************************************************)
(* Redirection of stdout and stderr at the prompt (MetaProcessor.cpp): .>  *)
(* .2> .&> to a file or to a stream, and the same without an argument to   *)
(* undo the last one.                                                      *)
(*                                                                         *)
(* The state is m_Stack, m_Bak and m_CurStdOut, and the descriptor table   *)
(* of the process, on which dup, dup2, open and close work.  A descriptor  *)
(* that is not in use can be handed out again: the lowest is.  The object  *)
(* exists as long as its stack is not empty (setStdStream).                *)
(***************************************************************************)
EXTENDS Integers, Sequences, SequencesExt, FiniteSetsExt

CONSTANTS
  File,     \* files to redirect to
  BadFile,  \* one that cannot be opened
  MaxFD,    \* bound: size of the descriptor table
  MaxStack  \* bound: redirections at a time

ASSUME RedirectAssumption == MaxFD \in Nat /\ (File \cup {BadFile}) \cap Int = {}

STDOUT == 1
STDERR == 2
Stream == {STDOUT, STDERR}
Scope == (SUBSET Stream) \ {{}}  \* RedirectionScope without kSTDSTRM
FD == 3..MaxFD
InvalidFD == -1
Closed == 0

(* What a descriptor writes to: a file, or what stdout and stderr were when *)
(* the process started.                                                    *)
Target == Stream \cup File \cup {BadFile}

VARIABLES
  fds,     \* [Stream \cup FD -> Target \cup {Closed}]: the descriptor table
  stack,   \* Seq(Redirect): m_Stack
  bak,     \* [Stream -> FD \cup {InvalidFD}]: m_Bak
  cur,     \* FD \cup {InvalidFD}: m_CurStdOut
  prompt,  \* BOOLEAN: a line is being read (MaybeRedirectOutputRAII)
  tty,     \* BOOLEAN: stdout is a terminal
  streams, \* BOOLEAN: the user redirects to &1 and &2, too
  failing  \* BOOLEAN: the user redirects to BadFile, too

modes == <<tty, streams, failing>>
vars == <<fds, stack, bak, cur, prompt, modes>>

(* target is history: what the redirection was meant for. *)
Redirect == [fd : FD \cup {InvalidFD}, scope : SUBSET Stream, close : BOOLEAN, target : Target]

-----------------------------------------------------------------------------
(***************************************************************************)
(* System calls, on a descriptor table t.                                  *)
(***************************************************************************)

(* The lowest descriptor that is free. *)
Lowest(t) ==
  LET free == {d \in FD : t[d] = Closed}
  IN IF free = {} THEN InvalidFD ELSE Min(free)

Opened(t, d, to) == IF d = InvalidFD THEN t ELSE [t EXCEPT ![d] = to]

(* dup2() fails if `from` is not open. *)
Dup2(t, from, to) ==
  IF from \in FD /\ t[from] # Closed THEN [t EXCEPT ![to] = t[from]] ELSE t

-----------------------------------------------------------------------------
(***************************************************************************)
(* The members of RedirectOutput, on a record of fds and bak.              *)
(***************************************************************************)

(* Mutant: a second backup replaces the first. *)
DupAlways(o, s) ==
  LET d == Lowest(o.fds)
  IN [fds |-> Opened(o.fds, d, o.fds[s]), bak |-> [o.bak EXCEPT ![s] = d]]

DupOnce(o, s) ==
  LET d == Lowest(o.fds)
  IN IF o.bak[s] # InvalidFD THEN o
     ELSE [fds |-> Opened(o.fds, d, o.fds[s]), bak |-> [o.bak EXCEPT ![s] = d]]

(* Restores a stream from its backup and closes the backup. *)
CloseBak(o, s) ==
  IF o.bak[s] = InvalidFD THEN o
  ELSE [fds |-> [Dup2(o.fds, o.bak[s], s) EXCEPT ![o.bak[s]] = Closed],
        bak |-> [o.bak EXCEPT ![s] = InvalidFD]]

For(stk, s) == {i \in DOMAIN stk : s \in stk[i].scope}

(* Mutant: the first redirection for the stream. *)
LastFirst(stk, s) == Min(For(stk, s))

(* The last redirection for the stream; there is one. *)
LastFor(stk, s) == Max(For(stk, s))

(* Mutant: the backup is kept open. *)
RestoreKeepingBak(o, stk, s) ==
  IF o.bak[s] = InvalidFD THEN o
  ELSE IF For(stk, s) # {}
       THEN [o EXCEPT !.fds = Dup2(@, stk[LastFor(stk, s)].fd, s)]
       ELSE [o EXCEPT !.fds = Dup2(@, o.bak[s], s), !.bak[s] = InvalidFD]

Restore(o, stk, s) ==
  IF o.bak[s] = InvalidFD THEN o
  ELSE IF For(stk, s) # {}
       THEN [o EXCEPT !.fds = Dup2(@, stk[LastFor(stk, s)].fd, s)]
       ELSE CloseBak(o, s)

(* The descriptor restore() returns. *)
Restored(o, stk, s) ==
  IF o.bak[s] = InvalidFD \/ For(stk, s) = {} THEN InvalidFD ELSE stk[LastFor(stk, s)].fd

(* op for the streams of a scope, stdout first. *)
Both(op(_, _), o, S) ==
  LET out == IF STDOUT \in S THEN op(o, STDOUT) ELSE o
  IN IF STDERR \in S THEN op(out, STDERR) ELSE out

(* ~Redirect of the entries at the positions I. *)
CloseEntries(t, stk, I) ==
  [d \in DOMAIN t |-> IF \E i \in I : stk[i].close /\ stk[i].fd = d THEN Closed ELSE t[d]]

(* ~RedirectOutput. *)
Destroyed(o, stk) ==
  LET b == Both(CloseBak, o, Stream)
  IN [b EXCEPT !.fds = CloseEntries(@, stk, DOMAIN stk)]

-----------------------------------------------------------------------------
(* The end of setStdStream: an object whose stack is empty goes. *)
Leave(o, stk, c) ==
  LET d == IF stk = <<>> THEN Destroyed(o, stk) ELSE o
  IN /\ fds' = d.fds /\ bak' = d.bak
     /\ stack' = stk
     /\ cur' = IF stk = <<>> THEN InvalidFD ELSE c

(* The end of redirect(): both streams of the scope are redone. *)
Redo(o, stk, S) ==
  LET R(x, s) == Restore(x, stk, s)
      c == IF STDOUT \in S THEN Restored(o, stk, STDOUT) ELSE cur
  IN Leave(Both(R, o, S), stk, c)

CanPush == ~prompt /\ Len(stack) < MaxStack

(* .> file: the file is opened, and what the streams were is saved. *)
AddFile(f, S) ==
  LET d == Lowest(fds)
      o == [fds |-> Opened(fds, d, f), bak |-> bak]
  IN /\ CanPush /\ d # InvalidFD
     /\ Redo(Both(DupOnce, o, S), Append(stack, [fd |-> d, scope |-> S, close |-> TRUE, target |-> f]), S)
     /\ UNCHANGED <<prompt, modes>>

(* The file cannot be opened. *)
AddBadFile(S) ==
  /\ CanPush /\ failing
  /\ stack' = Append(stack, [fd |-> InvalidFD, scope |-> S, close |-> FALSE, target |-> BadFile])
  /\ UNCHANGED <<fds, bak, cur, prompt, modes>>

(* .>&1 and the like: the backup of the stream is shared. *)
AddStream(s, S) ==
  LET o == DupOnce([fds |-> fds, bak |-> bak], s)
  IN /\ CanPush /\ streams /\ o.bak[s] # InvalidFD
     /\ Redo(Both(DupOnce, o, S), Append(stack, [fd |-> o.bak[s], scope |-> S, close |-> FALSE, target |-> s]), S)
     /\ UNCHANGED <<prompt, modes>>

(* Mutant: the entry loses its whole scope. *)
ClearedWhole(S) ==
  [i \in DOMAIN stack |->
     IF \E s \in S : s \in stack[i].scope /\ i = LastFor(stack, s)
     THEN [stack[i] EXCEPT !.scope = {}] ELSE stack[i]]

(* The last redirection for each stream of S no longer is one. *)
Cleared(S) ==
  [i \in DOMAIN stack |->
     [stack[i] EXCEPT !.scope = {s \in @ : ~(s \in S /\ i = LastFor(stack, s))}]]

Removed(S) == {i \in DOMAIN stack : Cleared(S)[i].scope = {}}

(* erase() of the entry at position i. *)
EraseFirst(stk, i) == RemoveAt(stk, i)

(* erase() of what was at position j before an earlier entry was erased.     *)
(* That iterator is invalid.  The last entry is always the second one to go, *)
(* so the iterator points behind the last; libstdc++ then drops the last.    *)
EraseSecond(stk, j) == IF j \in DOMAIN stk THEN RemoveAt(stk, j) ELSE Front(stk)

(* The iterators in Remove were collected from back to front; it is walked   *)
(* in reverse.  At most one entry per stream goes.                           *)
Erased(S) ==
  LET i == Min(Removed(S))
      j == Max(Removed(S))
  IN IF Removed(S) = {} THEN Cleared(S)
     ELSE IF i = j THEN EraseFirst(Cleared(S), i)
     ELSE EraseSecond(EraseFirst(Cleared(S), i), j)

(* .> without an argument. *)
Unredirect(S) ==
  LET o == [fds |-> CloseEntries(fds, stack, Removed(S)), bak |-> bak]
  IN /\ ~prompt /\ stack # <<>>
     /\ Redo(o, Erased(S), S)
     /\ UNCHANGED <<prompt, modes>>

(* ~MetaProcessor; another one may follow in the same process. *)
Exit ==
  /\ ~prompt /\ stack # <<>>
  /\ Leave(Destroyed([fds |-> fds, bak |-> bak], stack), <<>>, InvalidFD)
  /\ UNCHANGED <<prompt, modes>>

-----------------------------------------------------------------------------
(* The prompt is written to the terminal, and stdout is redirected again     *)
(* when the line has been read (resetStdOut).                                *)

ReadLine ==
  /\ ~prompt /\ prompt' = TRUE
  /\ fds' = IF tty /\ stack # <<>> THEN Dup2(fds, bak[STDOUT], STDOUT) ELSE fds
  /\ UNCHANGED <<stack, bak, cur, modes>>

LineRead ==
  /\ prompt /\ prompt' = FALSE
  /\ fds' = IF tty /\ stack # <<>> THEN Dup2(fds, cur, STDOUT) ELSE fds
  /\ UNCHANGED <<stack, bak, cur, modes>>

-----------------------------------------------------------------------------
Init ==
  /\ fds = [d \in Stream \cup FD |-> IF d \in Stream THEN d ELSE Closed]
  /\ stack = <<>> /\ bak = [s \in Stream |-> InvalidFD] /\ cur = InvalidFD
  /\ prompt = FALSE
  /\ tty \in BOOLEAN /\ streams \in BOOLEAN /\ failing \in BOOLEAN

Next ==
  \/ \E S \in Scope :
       \/ \E f \in File : AddFile(f, S)
       \/ AddBadFile(S)
       \/ \E s \in Stream : AddStream(s, S)
       \/ Unredirect(S)
  \/ Exit \/ ReadLine \/ LineRead

Spec == Init /\ [][Next]_vars

(* Files are interchangeable, for TLC. *)
FileSymmetry == Permutations(File)

-----------------------------------------------------------------------------
(* The variables have the types of the C++ members, and an entry without a   *)
(* scope is removed at once.                                                 *)
TypeOK ==
  /\ fds \in [Stream \cup FD -> Target \cup {Closed}]
  /\ stack \in Seq(Redirect) /\ \A i \in DOMAIN stack : stack[i].scope # {}
  /\ bak \in [Stream -> FD \cup {InvalidFD}]
  /\ cur \in FD \cup {InvalidFD}
  /\ {prompt, tty, streams, failing} \subseteq BOOLEAN

Backups == {bak[s] : s \in Stream} \ {InvalidFD}
Closing == {i \in DOMAIN stack : stack[i].close}

(* A descriptor is open as long as one thing owns it: a backup, or the entry *)
(* that opened a file.  None leaks, none is closed twice or by somebody else,*)
(* whatever fails and in whatever order redirections are undone.             *)
FDsOwned ==
  /\ {d \in FD : fds[d] # Closed} = Backups \cup {stack[i].fd : i \in Closing}
  /\ \A i \in Closing : stack[i].fd \notin Backups
  /\ \A i, j \in Closing : stack[i].fd = stack[j].fd => i = j
  /\ bak[STDOUT] = bak[STDERR] => bak[STDOUT] = InvalidFD

(* What the streams were is never lost: a stream either still is what it     *)
(* was, or its backup is.  So leaving cling, or undoing everything, puts     *)
(* both back.                                                                *)
OriginalsKept ==
  \A s \in Stream : IF bak[s] = InvalidFD THEN fds[s] = s ELSE fds[bak[s]] = s

(* Both: descriptors are owned, and the owner of a backup can restore its    *)
(* stream (setStdStream, restore; MetaProcessor.cpp:47).                     *)
DescriptorsKept == FDsOwned /\ OriginalsKept

(* The prompt appears on the terminal, whatever stdout is redirected to. *)
PromptOnTerminal == prompt /\ tty => fds[STDOUT] = STDOUT

Goes(s) == IF For(stack, s) = {} THEN s ELSE stack[LastFor(stack, s)].target

(* "Find the last redirect for the scope, and restore redirection to it":    *)
(* outside the prompt each stream goes where its last redirection says.      *)
Follows == (prompt /\ tty) \/ \A s \in Stream : fds[s] = Goes(s)

(* Without redirections to streams and with files that open, it does.        *)
StreamsFollow == ~streams /\ ~failing => Follows

(* Output goes where the user sent it: the objects of m_Stack, the backups   *)
(* and the descriptor for the prompt agree in setStdStream and restore.      *)
StreamsGo == TypeOK /\ PromptOnTerminal /\ StreamsFollow

(* What the redirections for the stream are meant for, the last one last. *)
TargetsOf(stk, s) ==
  LET targets[n \in 0..Len(stk)] ==
        IF n = 0 THEN <<>>
        ELSE IF s \in stk[n].scope THEN Append(targets[n - 1], stk[n].target)
        ELSE targets[n - 1]
  IN  targets[Len(stk)]

(* One stack of entries with scopes does what two stacks would do. *)
Promise == INSTANCE Redirections WITH redirections <- [s \in Stream |-> TargetsOf(stack, s)]
TwoStacks == Promise!Spec

=============================================================================
