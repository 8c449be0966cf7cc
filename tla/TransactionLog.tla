--------------------------- MODULE TransactionLog ---------------------------
(***************************************************************************)
(* What the interpreter promises to the one who types at it: the history   *)
(* of committed transactions is a stack.  At most one top-level            *)
(* transaction is in the making; it is appended to the history as a whole  *)
(* or it disappears, and only the youngest committed transaction can be    *)
(* taken back.                                                             *)
(***************************************************************************)
EXTENDS Sequences, SequencesExt

CONSTANTS Txn, None

VARIABLES
  log,  \* Seq(Txn): the committed transactions, oldest first
  open  \* SUBSET Txn: the top-level transaction in the making, if any

vars == <<log, open>>

Open(t) ==
  /\ open = {} /\ t \notin Range(log)
  /\ open' = {t}
  /\ UNCHANGED log

Commit ==
  \E t \in open : log' = Append(log, t) /\ open' = {}

Abort ==
  /\ open # {}
  /\ open' = {}
  /\ UNCHANGED log

Revert ==
  /\ log # <<>> /\ open = {}
  /\ log' = Front(log)
  /\ UNCHANGED open

Init == log = <<>> /\ open = {}
Next == Commit \/ Abort \/ Revert \/ \E t \in Txn : Open(t)
Spec == Init /\ [][Next]_vars

=============================================================================
