---------------------------- MODULE UnloadPoints ----------------------------
(***************************************************************************)
(* .L, .U and .undo (MetaSema.cpp).  Before a file is loaded, the last     *)
(* transaction is remembered as its unload point; .U reverts what came     *)
(* after it.  .L of a file that is loaded unloads it first.                *)
(*                                                                         *)
(* The history of transactions is a stack, as TransactionLog promises.     *)
(* The two maps of MetaSema hold addresses of transactions, which go back  *)
(* to the pool, or to the heap, when they are reverted.  The next          *)
(* transaction may get an address that the maps still know.                *)
(***************************************************************************)
EXTENDS Naturals, Sequences, SequencesExt, FiniteSets

CONSTANTS
  File,     \* files and libraries to load
  Lib,      \* those that are libraries
  Address,  \* where transactions may lie
  None,     \* no file, or no address
  MaxLen    \* bound: length of the history

ASSUME UnloadAssumption ==
  /\ Lib \subseteq File
  /\ None \notin File \cup Address
  /\ MaxLen \in Nat

VARIABLES
  history, \* Seq(Entry): m_Transactions, oldest first
  point,   \* [File -> Address \cup {None}]: m_FEToTransaction
  fileOf,  \* [Address -> File \cup {None}]: m_TransactionToFE
  libs,    \* SUBSET Lib: m_LoadedLibraries
  job,     \* Job: the command at work
  reused,  \* BOOLEAN: a transaction got an address that a map knows
  gone     \* SUBSET File: their unload points have been unloaded

hist == <<reused, gone>>
vars == <<history, point, fileOf, libs, job, hist>>

(* Where a transaction lies and which file it was loaded from, and history:  *)
(* the files that were registered when it came.                              *)
Entry == [t : Address, of : File \cup {None}, since : SUBSET File]

(* `until` is the unload point, `load` says that .L called .U. *)
Job == [at : {"prompt", "unload", "load"}, file : File \cup {None},
        until : Address \cup {None}, load : BOOLEAN]

AtPrompt == [at |-> "prompt", file |-> None, until |-> None, load |-> FALSE]

-----------------------------------------------------------------------------
Live == {history[i].t : i \in DOMAIN history}

(* The maps know the address. *)
Named(a) == fileOf[a] # None \/ \E f \in File : point[f] = a

(* Where the next transaction may lie: the pool hands out what was reverted, *)
(* and the heap may do so, too.                                              *)
Free == Address \ Live

(* Mutant: the unload point is taken to be there. *)
HasTransactionAssumed(t) == TRUE

(* interpreterHasTransaction: addresses are compared. *)
InterpreterHasTransaction(t) == t \in Live

(* Files that are registered with an unload point that has not been reverted.*)
Registered == {f \in File : point[f] # None} \ gone

(* A transaction is committed. *)
Commit(f) ==
  /\ Len(history) < MaxLen
  /\ \E a \in Free :
       /\ history' = Append(history, [t |-> a, of |-> f, since |-> Registered])
       /\ reused' = (reused \/ Named(a))

(* Interpreter::unload(1): the first transaction stays. *)
Unload ==
  IF Len(history) = 1 THEN UNCHANGED <<history, gone>>
  ELSE /\ history' = Front(history)
       /\ gone' = gone \cup {f \in File : point[f] = Last(history).t}

-----------------------------------------------------------------------------
(* A line is typed. *)
Line ==
  /\ job = AtPrompt
  /\ Commit(None)
  /\ UNCHANGED <<point, fileOf, libs, job, gone>>

(* One round of .undo n: no other step can come between the rounds. *)
Undo ==
  /\ job = AtPrompt
  /\ Unload
  /\ UNCHANGED <<point, fileOf, libs, job, reused>>

AfterUnload(f, l) ==
  IF l THEN [at |-> "load", file |-> f, until |-> None, load |-> TRUE] ELSE AtPrompt

(* The entry of the file goes, whether or not its unload point was found. *)
Forget(f, l) == point' = [point EXCEPT ![f] = None] /\ job' = AfterUnload(f, l)

(* .U f, and the begin of .L f. *)
UCommand(f, l) ==
  /\ job = AtPrompt
  /\ IF point[f] # None /\ InterpreterHasTransaction(point[f])
     THEN /\ job' = [at |-> "unload", file |-> f, until |-> point[f], load |-> l]
          /\ UNCHANGED point
     ELSE Forget(f, l)
  /\ UNCHANGED <<history, fileOf, libs, hist>>

(* A file loaded right after the transaction is no longer registered. *)
PointsWithout(t) ==
  IF fileOf[t] = None THEN point ELSE [point EXCEPT ![fileOf[t]] = None]

(* A round of the loop: the last transaction is reverted. *)
RevertOne ==
  /\ job.at = "unload" /\ Last(history).t # job.until
  /\ point' = PointsWithout(Last(history).t)
  /\ Unload
  /\ UNCHANGED <<fileOf, libs, job, reused>>

LibsWithout(f) == libs \ {f}

(* The unload point is the last transaction. *)
Unloaded ==
  /\ job.at = "unload" /\ Last(history).t = job.until
  /\ libs' = LibsWithout(job.file)
  /\ Forget(job.file, job.load)
  /\ UNCHANGED <<history, fileOf, hist>>

(* Mutant: the point is taken after the file was loaded. *)
PointAfterLoad == Last(history').t

(* Mutant: the first transaction is taken instead of the last one. *)
PointFirst == Head(history).t

(* The last transaction before the file was loaded. *)
PointBeforeLoad == Last(history).t

(* Mutant: the file is found by its own transaction, not by the one before. *)
RegisterLoaded(f, t) ==
  /\ point' = [point EXCEPT ![f] = t]
  /\ fileOf' = [fileOf EXCEPT ![Last(history').t] = f]
  /\ gone' = gone \ {f}

(* registerUnloadPoint: an entry that is there is kept. *)
RegisterUnloadPoint(f, t) ==
  IF point[f] = None
  THEN /\ point' = [point EXCEPT ![f] = t]
       /\ fileOf' = [fileOf EXCEPT ![t] = f]
       /\ gone' = gone \ {f}
  ELSE UNCHANGED <<point, fileOf, gone>>

(* The rest of .L: a file may be empty; a library may pull in a header. *)
LCommand ==
  LET f == job.file
  IN /\ job.at = "load"
     /\ Commit(f) \/ UNCHANGED <<history, reused>>
     /\ RegisterUnloadPoint(f, PointBeforeLoad)
     /\ libs' = libs \cup ({f} \cap Lib)
     /\ job' = AtPrompt

(* The file does not compile: its transactions are rolled back. *)
LCommandFails ==
  /\ job.at = "load"
  /\ job' = AtPrompt
  /\ UNCHANGED <<history, point, fileOf, libs, hist>>

-----------------------------------------------------------------------------
Init ==
  /\ \E a \in Address : history = <<[t |-> a, of |-> None, since |-> {}]>>
  /\ point = [f \in File |-> None] /\ fileOf = [a \in Address |-> None]
  /\ libs = {} /\ job = AtPrompt
  /\ reused = FALSE /\ gone = {}

Next ==
  \/ Line \/ Undo
  \/ \E f \in File, l \in BOOLEAN : UCommand(f, l)
  \/ RevertOne \/ Unloaded
  \/ LCommand \/ LCommandFails

Spec == Init /\ [][Next]_vars

(* Addresses are interchangeable, for TLC. *)
AddressSymmetry == Permutations(Address)

-----------------------------------------------------------------------------
(* The variables have the types of the C++ members; the first transaction is *)
(* never unloaded.                                                           *)
TypeOK ==
  /\ history \in Seq(Entry) /\ history # <<>>
  /\ point \in [File -> Address \cup {None}]
  /\ fileOf \in [Address -> File \cup {None}]
  /\ libs \subseteq Lib
  /\ job \in Job
  /\ job.at = "prompt" <=> job.file = None
  /\ job.at = "unload" <=> job.until # None
  /\ reused \in BOOLEAN /\ gone \subseteq File

(* The transaction that a file left behind can be reverted by .U: the file   *)
(* is registered with a point before it.  So .L never loads a file twice, in *)
(* whatever order files are loaded, unloaded and undone.                     *)
CanBeUnloaded ==
  \A i \in DOMAIN history :
    history[i].of # None =>
      \E j \in 1..(i - 1) : history[j].t = point[history[i].of]

LoadedAreRegistered == reused \/ CanBeUnloaded

(* "Revert all the transactions that came after `unloadPoint'": what .U f    *)
(* reverts is f, or it came when f was registered.  Nothing that is older    *)
(* than f is lost.                                                           *)
NothingOlderReverted ==
  \A f \in File : \A i, j \in DOMAIN history :
    (i < j /\ history[i].t = point[f]) => f \in history[j].since \cup {history[j].of}

RevertsOnlyLater == reused \/ NothingOlderReverted

(* actOnUCommand holds an iterator to the entry of the file over its loop,   *)
(* and erases it at the end.  The loop never erases that entry.              *)
IteratorValid == ~reused /\ job.at = "unload" => point[job.file] = job.until

(* A library that is loaded is registered, so that .U can unload it, unless  *)
(* its unload point has been unloaded.                                       *)
LibrariesRegistered ==
  ~reused => \A f \in libs : point[f] # None \/ f \in gone

(* What is loaded stays registered: m_FEToTransaction, m_TransactionToFE,    *)
(* m_LoadedLibraries and the history agree after any sequence of .L, .U and  *)
(* .undo.                                                                    *)
PointsStay == TypeOK /\ LoadedAreRegistered /\ LibrariesRegistered

(* The loop of .U ends: the point it looks for is in the history, and every  *)
(* round makes the history shorter.  Otherwise it would try to unload the    *)
(* first transaction again and again.                                        *)
LoopEnds == job.at = "unload" => job.until \in Live

=============================================================================
