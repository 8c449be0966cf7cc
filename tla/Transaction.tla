---------------------------- MODULE Transaction ----------------------------
(***************************************************************************)
(* The transactions of the interpreter and the containers that hold them:  *)
(* the objects of include/cling/Interpreter/Transaction.h, the pool they   *)
(* come from (lib/Interpreter/TransactionPool.h), the deque and the singly *)
(* linked list of top-level transactions and the "current transaction" of  *)
(* the DeclCollector.                                                      *)
(*                                                                         *)
(* A transaction is an identity (an address).  Its state is "kNumStates"   *)
(* while it is in the pool, or was never allocated; the fields of such an  *)
(* object are kept at the values Transaction::Initialize gives them, since *)
(* that is what the next takeTransaction sees.                             *)
(***************************************************************************)
EXTENDS Integers, Sequences, SequencesExt, FiniteSets

CONSTANTS
  Txn,   \* the addresses a Transaction object can have
  None   \* the null pointer

ASSUME TxnAssumption == None \notin Txn

VARIABLES
  state,         \* [Txn -> State]             m_State
  parent,        \* [Txn -> Txn or None]       m_Parent
  nested,        \* [Txn -> Seq(Txn)]          m_NestedTransactions
  queue,         \* [Txn -> Seq(Entry)]        m_DeclQueue
  next,          \* [Txn -> Txn or None]       m_Next
  diags,         \* [Txn -> Diags]             m_IssuedDiags
  unloading,     \* [Txn -> BOOLEAN]           m_Unloading
  transactions,  \* Seq(Txn)                   IncrementalParser::m_Transactions
  consumer,      \* Txn or None                DeclCollector::m_CurTransaction
  diagError      \* BOOLEAN                    DiagnosticsEngine::hasErrorOccurred()

treeVars == <<parent, nested, queue>>
listVars == <<next, transactions>>
diagVars == <<diags, diagError>>

Pointer == Txn \cup {None}
State == {"kCollecting", "kCompleted", "kRolledBack", "kCommitted", "kNumStates"}
Entry == {"decl", "marker"}
Diags == {"kNone", "kErrors"}

Live(t) == state[t] # "kNumStates"

(***************************************************************************)
(* The nesting tree.                                                       *)
(***************************************************************************)

(* getTopmostParent(): follow m_Parent to the root. *)
Topmost(t) ==
  LET top[u \in Txn] == IF parent[u] = None THEN u ELSE top[parent[u]]
  IN  top[t]

(* getIssuedDiags() and setIssuedDiags() read and write the topmost parent. *)
IssuedErrors(t) == diags[Topmost(t)] = "kErrors"
(* Mutant: the flag is left on the transaction itself. *)
SetOwnErrors(t) == [diags EXCEPT ![t] = "kErrors"]

SetErrors(t) == [diags EXCEPT ![Topmost(t)] = "kErrors"]

(* The decls, the nested transactions and their markers all make a          *)
(* transaction non-empty.                                                   *)
IsEmpty(t) == queue[t] = <<>> /\ nested[t] = <<>>

Markers(q) == {i \in DOMAIN q : q[i] = "marker"}

(* The place in the decl queue of the k-th marker. *)
MarkerPosition(q, k) ==
  CHOOSE i \in Markers(q) : Cardinality({j \in Markers(q) : j <= i}) = k

(* addNestedTransaction(): the child is the last nested transaction of p,   *)
(* and a marker is left in the decl queue of p.                             *)
AddNestedTransaction(p, t) ==
  /\ parent' = [parent EXCEPT ![t] = p]
  /\ nested' = [nested EXCEPT ![p] = Append(@, t)]
  /\ queue'  = [queue EXCEPT ![p] = Append(@, "marker")]

(* removeNestedTransaction(): the k-th nested transaction and the k-th      *)
(* marker go together.                                                      *)
NestedPosition(p, t) == CHOOSE k \in DOMAIN nested[p] : nested[p][k] = t
NestedWithout(p, t) == RemoveAt(nested[p], NestedPosition(p, t))

(* Mutant: the marker is forgotten. *)
QueueWithMarker(p, t) == queue[p]

QueueWithout(p, t) ==
  RemoveAt(queue[p], MarkerPosition(queue[p], NestedPosition(p, t)))

(* Mutant: the parent is not told. *)
ReleaseUntold(t) ==
  /\ state' = [state EXCEPT ![t] = "kNumStates"]
  /\ parent' = [parent EXCEPT ![t] = None]
  /\ unloading' = [unloading EXCEPT ![t] = FALSE]
  /\ nested' = [nested EXCEPT ![t] = <<>>]
  /\ queue' = [queue EXCEPT ![t] = <<>>]

(* releaseTransaction(): the parent forgets the child, the object goes back *)
(* to the pool.                                                             *)
ReleaseTransaction(t) ==
  /\ state' = [state EXCEPT ![t] = "kNumStates"]
  /\ parent' = [parent EXCEPT ![t] = None]
  /\ unloading' = [unloading EXCEPT ![t] = FALSE]
  /\ IF parent[t] # None
       THEN /\ nested' = [nested EXCEPT ![t] = <<>>,
                                        ![parent[t]] = NestedWithout(parent[t], t)]
            /\ queue' = [queue EXCEPT ![t] = <<>>,
                                      ![parent[t]] = QueueWithout(parent[t], t)]
       ELSE /\ nested' = [nested EXCEPT ![t] = <<>>]
            /\ queue' = [queue EXCEPT ![t] = <<>>]

(***************************************************************************)
(* The deque m_Transactions and the list threaded through m_Next.          *)
(***************************************************************************)
GetLastTransaction ==
  IF transactions = <<>> THEN None ELSE Last(transactions)
GetFirstTransaction ==
  IF transactions = <<>> THEN None ELSE Head(transactions)

(* addTransaction(): only top-level transactions, and not twice in a row. *)
AddTransaction(t) ==
  IF parent[t] = None /\ t # GetLastTransaction
  THEN /\ next' = IF transactions = <<>> THEN next
                  ELSE [next EXCEPT ![Last(transactions)] = t]
       /\ transactions' = Append(transactions, t)
  ELSE UNCHANGED listVars

(* Mutant: nothing is removed. *)
RemoveNothing(t) == UNCHANGED listVars

(* The deque half of deregisterTransaction(): only the last transaction     *)
(* leaves the deque; any other one is assumed never to have been in it.     *)
RemoveTransaction(t) ==
  IF parent[t] = None /\ t = GetLastTransaction
  THEN LET rest == Front(transactions)
       IN  /\ transactions' = rest
           /\ next' = IF rest = <<>> THEN [next EXCEPT ![t] = None]
                      ELSE [next EXCEPT ![t] = None, ![Last(rest)] = None]
  ELSE /\ next' = [next EXCEPT ![t] = None]
       /\ UNCHANGED transactions

(***************************************************************************)
(* beginTransaction(), endTransaction(), deregisterTransaction().          *)
(***************************************************************************)

(* A transaction begun while the current one is not yet committed or rolled *)
(* back is nested in it.                                                    *)
NestsIn(cur) == cur # None /\ state[cur] \in {"kCollecting", "kCompleted"}

BeginTransaction(cur, t) ==
  /\ ~Live(t)
  /\ state' = [state EXCEPT ![t] = "kCollecting"]
  /\ IF NestsIn(cur) THEN AddNestedTransaction(cur, t) ELSE UNCHANGED treeVars
  /\ consumer' = t
  /\ UNCHANGED <<unloading, listVars>>

(* What endTransaction finds out about errors: the engine's flag, or a flag *)
(* some nested transaction or a transformer left on the topmost parent.     *)
ParseFailed(t) == diagError \/ IssuedErrors(t)

(* Mutant: no transaction is current after an empty one, nested or not. *)
EndEmptyToNull(t) ==
  /\ IsEmpty(t)
  /\ consumer' = None
  /\ diags' = [(IF ParseFailed(t) THEN SetErrors(t) ELSE diags)
                 EXCEPT ![t] = "kNone"]
  /\ ReleaseTransaction(t)
  /\ UNCHANGED listVars

(* Nothing was collected: back to the pool, the parent becomes current. *)
EndEmptyTransaction(t) ==
  /\ IsEmpty(t)
  /\ consumer' = parent[t]
  /\ diags' = [(IF ParseFailed(t) THEN SetErrors(t) ELSE diags)
                 EXCEPT ![t] = "kNone"]
  /\ ReleaseTransaction(t)
  /\ UNCHANGED listVars

(* Something was collected: the transaction stays the current one. *)
EndFullTransaction(t) ==
  /\ ~IsEmpty(t)
  /\ state' = [state EXCEPT ![t] = "kCompleted"]
  /\ diags' = IF ParseFailed(t) THEN SetErrors(t) ELSE diags
  /\ AddTransaction(t)
  /\ UNCHANGED <<treeVars, unloading, consumer>>

(* Mutant: the DeclCollector keeps the transaction. *)
DeregisterKeepingConsumer(t) ==
  /\ RemoveTransaction(t)
  /\ diags' = [diags EXCEPT ![t] = "kNone"]
  /\ ReleaseTransaction(t)
  /\ UNCHANGED consumer

(* deregisterTransaction(). *)
DeregisterTransaction(t) ==
  /\ consumer' = IF consumer = t THEN parent[t] ELSE consumer
  /\ RemoveTransaction(t)
  /\ diags' = [diags EXCEPT ![t] = "kNone"]
  /\ ReleaseTransaction(t)

(* A fresh interpreter: nothing allocated, no diagnostics. *)
TransactionInit ==
  /\ state = [t \in Txn |-> "kNumStates"]
  /\ parent = [t \in Txn |-> None]
  /\ nested = [t \in Txn |-> <<>>]
  /\ queue = [t \in Txn |-> <<>>]
  /\ next = [t \in Txn |-> None]
  /\ diags = [t \in Txn |-> "kNone"]
  /\ unloading = [t \in Txn |-> FALSE]
  /\ transactions = <<>>
  /\ consumer = None
  /\ diagError = FALSE

-----------------------------------------------------------------------------
(* The variables of this module have the types of the C++ members.           *)
TransactionTypeOK ==
  /\ state \in [Txn -> State]
  /\ parent \in [Txn -> Pointer]
  /\ nested \in [Txn -> Seq(Txn)]
  /\ queue \in [Txn -> Seq(Entry)]
  /\ next \in [Txn -> Pointer]
  /\ diags \in [Txn -> Diags]
  /\ unloading \in [Txn -> BOOLEAN]
  /\ transactions \in Seq(Txn)
  /\ consumer \in Pointer
  /\ diagError \in BOOLEAN

(* Who is nested in whom: m_Parent and m_NestedTransactions, which are       *)
(* written in different functions, describe the same tree of live objects.   *)
NestingOK ==
  /\ \A p \in Txn : IsInjective(nested[p])
  /\ \A n \in Txn : parent[n] # None => Live(n) /\ n \in Range(nested[parent[n]])
  /\ \A p \in Txn : \A n \in Range(nested[p]) : parent[n] = p /\ Live(p)

(* The decl queue of a transaction has as many markers as it has nested      *)
(* transactions.                                                             *)
MarkersOK == \A p \in Txn : Cardinality(Markers(queue[p])) = Len(nested[p])

(* The nesting tree is a tree, and the decl queue of a parent has one marker *)
(* per child: addNestedTransaction, removeNestedTransaction and the reverse  *)
(* walk of unloadDeclarations each rely on what the others left there.       *)
TreeOK == NestingOK /\ MarkersOK

(* The list threaded through m_Next is the deque m_Transactions, and holds   *)
(* live top-level transactions that were ended, each once.                   *)
ChainOK ==
  /\ IsInjective(transactions)
  /\ \A i \in DOMAIN transactions :
       /\ next[transactions[i]] =
            IF i < Len(transactions) THEN transactions[i + 1] ELSE None
       /\ state[transactions[i]] \in {"kCompleted", "kCommitted", "kRolledBack"}
       /\ parent[transactions[i]] = None
  /\ \A t \in Txn \ Range(transactions) : next[t] = None

=============================================================================
