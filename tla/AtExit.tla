------------------------------- MODULE AtExit -------------------------------
(***************************************************************************)
(* Static destructors and atexit handlers (IncrementalExecutor.cpp).       *)
(*                                                                         *)
(* JIT-ed code registers handlers while it runs; each belongs to what was  *)
(* the latest transaction then.  They run when that transaction is         *)
(* unloaded, when the client asks for it, or when the interpreter shuts    *)
(* down, and they may themselves register handlers, compile, or ask for    *)
(* the handlers to be run.                                                 *)
(*                                                                         *)
(* The handlers are kept in an OrderedMap, an unordered map (`map`) and a  *)
(* vector of its keys in order of insertion (`order`).  The functions that *)
(* run them are recursive; `stack` holds their frames.                     *)
(***************************************************************************)
EXTENDS Integers, Sequences, SequencesExt, FiniteSets

CONSTANTS
  Txn,      \* top-level transactions
  Handler,  \* bound: registrations, each made at most once
  None      \* the null pointer

ASSUME AtExitAssumption == None \notin Txn

VARIABLES
  log,      \* Seq(Txn): IncrementalParser::m_Transactions
  map,      \* [Txn -> Seq(Handler)]: m_Map; <<>> when the key is missing
  order,    \* Seq(Txn): m_Order
  stack,    \* Seq(Frame): runAndRemoveStaticDestructors and runAtExitFuncs
  task,     \* Task: what the client has called
  threads,  \* BOOLEAN: another thread runs JIT-ed code, too
  born,     \* Seq(Handler): history; registrations in order
  owner,    \* [Handler -> Txn or None]: history; the key it was registered for
  ran       \* Seq(Handler): history; handlers in the order they were called

mapVars == <<map, order>>
history == <<born, owner>>
vars == <<log, map, order, stack, task, threads, born, owner, ran>>

(* owner: the argument of runAndRemoveStaticDestructors, None in            *)
(* runAtExitFuncs.  local: the handlers moved out of the map, those between  *)
(* two recursive calls in one group; groups and handlers go last first.      *)
(* running: a handler has been called and has not returned.                  *)
Frame == [owner : Txn \cup {None}, local : Seq(Seq(Handler)), running : BOOLEAN]

(* todo: transactions whose handlers the call has yet to run, last first.    *)
Task == [call : {"none", "unload", "dtors", "exits", "shutdown", "down"}, todo : Seq(Txn)]
Idle == [call |-> "none", todo |-> <<>>]

Top == Last(stack)
Working == stack # <<>>
InHandler == Working /\ Top.running

-----------------------------------------------------------------------------
(***************************************************************************)
(* OrderedMap.                                                             *)
(***************************************************************************)

(* operator[] and emplace_back: a new key goes to the end of the order. *)
MapAdd(t, h) ==
  /\ map' = [map EXCEPT ![t] = Append(@, h)]
  /\ order' = IF map[t] = <<>> THEN Append(order, t) ELSE order

(* Mutant: the order keeps the key. *)
MapEraseUnordered(t) ==
  /\ map' = [map EXCEPT ![t] = <<>>]
  /\ UNCHANGED order

(* erase(). *)
MapErase(t) ==
  /\ map' = [map EXCEPT ![t] = <<>>]
  /\ order' = RemoveAt(order, CHOOSE i \in DOMAIN order : order[i] = t)

(* swap() with an empty map. *)
MapSwap ==
  /\ map' = [t \in Txn |-> <<>>]
  /\ order' = <<>>

-----------------------------------------------------------------------------
(***************************************************************************)
(* Entering the two functions, below them the frames s.                    *)
(***************************************************************************)

NewFrame(t, groups) == [owner |-> t, local |-> groups, running |-> FALSE]

(* runAndRemoveStaticDestructors calls itself after every handler. *)
OneByOne(handlers) == [i \in DOMAIN handlers |-> <<handlers[i]>>]

(* Mutant: only after all of them. *)
EnterDtorsGrouped(s, t) ==
  IF map[t] = <<>>
  THEN stack' = s /\ UNCHANGED mapVars
  ELSE stack' = Append(s, NewFrame(t, <<map[t]>>)) /\ MapErase(t)

EnterDtors(s, t) ==
  IF map[t] = <<>>
  THEN stack' = s /\ UNCHANGED mapVars
  ELSE stack' = Append(s, NewFrame(t, OneByOne(map[t]))) /\ MapErase(t)

(* runAtExitFuncs calls itself after the handlers of every transaction. *)
EnterExits(s) ==
  IF order = <<>>
  THEN stack' = s /\ UNCHANGED mapVars
  ELSE stack' = Append(s, NewFrame(None, [i \in DOMAIN order |-> map[order[i]]])) /\ MapSwap

-----------------------------------------------------------------------------
(***************************************************************************)
(* JIT-ed code: wrappers, static initializers, handlers.                   *)
(***************************************************************************)

(* __cxa_atexit and atexit.  getLatestTransaction() is the current           *)
(* transaction, or the last one after that went away: the last of the log.   *)
Register(h) ==
  /\ threads \/ InHandler \/ task = Idle
  /\ task.call # "down" /\ log # <<>> /\ owner[h] = None
  /\ MapAdd(Last(log), h)
  /\ born' = Append(born, h)
  /\ owner' = [owner EXCEPT ![h] = Last(log)]
  /\ UNCHANGED <<log, stack, task, threads, ran>>

(* Something is compiled.  Not by a handler that runs in unload: see          *)
(* RevertsOnlyTheLast of IncrementalParser.                                   *)
Commit(t) ==
  /\ task = Idle \/ (InHandler /\ task.call # "unload")
  /\ t \notin Range(log)
  /\ log' = Append(log, t)
  /\ UNCHANGED <<mapVars, stack, task, threads, history, ran>>

(* A handler calls Interpreter::runAtExitFuncs(). *)
NestedRunAtExitFuncs ==
  /\ InHandler
  /\ EnterExits(stack)
  /\ UNCHANGED <<log, task, threads, history, ran>>

-----------------------------------------------------------------------------
(***************************************************************************)
(* The calls of the client.                                                *)
(***************************************************************************)

(* unload() of the last transaction, which is never the first. *)
Unload ==
  /\ task = Idle /\ Len(log) > 1
  /\ task' = [call |-> "unload", todo |-> <<Last(log)>>]
  /\ UNCHANGED <<log, mapVars, stack, threads, history, ran>>

(* runAndRemoveStaticDestructors(n). *)
RunDestructors(n) ==
  /\ task = Idle
  /\ task' = [call |-> "dtors", todo |-> SubSeq(log, Len(log) - n + 1, Len(log))]
  /\ UNCHANGED <<log, mapVars, stack, threads, history, ran>>

(* runAtExitFuncs(), and shuttingDown() in ~Interpreter. *)
RunAtExitFuncs(call) ==
  /\ task = Idle
  /\ task' = [call |-> call, todo |-> <<>>]
  /\ EnterExits(stack)
  /\ UNCHANGED <<log, threads, history, ran>>

(* The next transaction of the call. *)
NextTransaction ==
  /\ ~Working /\ task.todo # <<>>
  /\ EnterDtors(stack, Last(task.todo))
  /\ task' = [task EXCEPT !.todo = Front(@)]
  /\ UNCHANGED <<log, threads, history, ran>>

(* The call is done: unload reverts the transaction and frees it. *)
Finish ==
  /\ ~Working /\ task.todo = <<>> /\ task.call \notin {"none", "down"}
  /\ task' = IF task.call = "shutdown" THEN [task EXCEPT !.call = "down"] ELSE Idle
  /\ log' = IF task.call = "unload" THEN Front(log) ELSE log
  /\ UNCHANGED <<mapVars, stack, threads, history, ran>>

-----------------------------------------------------------------------------
(***************************************************************************)
(* The loops over the handlers.                                            *)
(***************************************************************************)

Goto(f) == [stack EXCEPT ![Len(stack)] = f]

(* The next handler of the group is called. *)
Call ==
  /\ Working /\ ~Top.running /\ Top.local # <<>>
  /\ LET group == Last(Top.local)
     IN /\ ran' = Append(ran, Last(group))
        /\ stack' = Goto([Top EXCEPT !.running = TRUE, !.local[Len(Top.local)] = Front(group)])
  /\ UNCHANGED <<log, mapVars, task, threads, history>>

(* It returns, and there are more in the group. *)
Return ==
  /\ InHandler /\ Last(Top.local) # <<>>
  /\ stack' = Goto([Top EXCEPT !.running = FALSE])
  /\ UNCHANGED <<log, mapVars, task, threads, history, ran>>

(* It was the last of its group: the function calls itself. *)
AfterGroup == Goto([Top EXCEPT !.running = FALSE, !.local = Front(@)])

(* Mutant: no recursion in runAndRemoveStaticDestructors. *)
RecurseInExitsOnly ==
  /\ InHandler /\ Last(Top.local) = <<>>
  /\ IF Top.owner = None THEN EnterExits(AfterGroup) ELSE stack' = AfterGroup /\ UNCHANGED mapVars
  /\ UNCHANGED <<log, task, threads, history, ran>>

Recurse ==
  /\ InHandler /\ Last(Top.local) = <<>>
  /\ IF Top.owner = None THEN EnterExits(AfterGroup) ELSE EnterDtors(AfterGroup, Top.owner)
  /\ UNCHANGED <<log, task, threads, history, ran>>

(* The loop ends. *)
Done ==
  /\ Working /\ ~Top.running /\ Top.local = <<>>
  /\ stack' = Front(stack)
  /\ UNCHANGED <<log, mapVars, task, threads, history, ran>>

-----------------------------------------------------------------------------
Init ==
  /\ log = <<>> /\ order = <<>> /\ stack = <<>> /\ task = Idle
  /\ map = [t \in Txn |-> <<>>]
  /\ threads \in BOOLEAN
  /\ born = <<>> /\ ran = <<>>
  /\ owner = [h \in Handler |-> None]

Next ==
  \/ \E h \in Handler : Register(h)
  \/ \E t \in Txn : Commit(t)
  \/ NestedRunAtExitFuncs
  \/ Unload
  \/ \E n \in 1..Len(log) : RunDestructors(n)
  \/ \E call \in {"exits", "shutdown"} : RunAtExitFuncs(call)
  \/ NextTransaction \/ Finish
  \/ Call \/ Return \/ Recurse \/ Done
  \/ task.call = "down" /\ UNCHANGED vars  \* the interpreter is gone

Spec == Init /\ [][Next]_vars

(* Transactions and handlers are interchangeable, for TLC. *)
AtExitSymmetry == Permutations(Txn) \cup Permutations(Handler)

-----------------------------------------------------------------------------
(* The variables have the types of the C++ members, and a handler is called  *)
(* from a group that has one.                                                *)
TypeOK ==
  /\ log \in Seq(Txn) /\ order \in Seq(Txn)
  /\ map \in [Txn -> Seq(Handler)]
  /\ stack \in Seq(Frame) /\ task \in Task /\ threads \in BOOLEAN
  /\ born \in Seq(Handler) /\ ran \in Seq(Handler)
  /\ owner \in [Handler -> Txn \cup {None}]
  /\ \A i \in DOMAIN stack : \A j \in DOMAIN stack[i].local :
       stack[i].local[j] = <<>> => j = Len(stack[i].local) /\ stack[i].running

(* The assertion "Not synchronized" of OrderedMap: the vector lists each key *)
(* of the map once.                                                          *)
OrderSync == IsInjective(order) /\ Range(order) = {t \in Txn : map[t] # <<>>}

(* Where a handler is: it waits in the map or in a local of a function, or it *)
(* has been called.                                                          *)
InMap(h) == UNION {{<<"map", t, k>> : k \in {k \in DOMAIN map[t] : map[t][k] = h}} : t \in Txn}
InLocal(h, i) ==
  UNION {{<<"local", i, j, k>> : k \in {k \in DOMAIN stack[i].local[j] : stack[i].local[j][k] = h}}
           : j \in DOMAIN stack[i].local}
InRan(h) == {<<"ran", i>> : i \in {i \in DOMAIN ran : ran[i] = h}}
InStack(h) == UNION {InLocal(h, i) : i \in DOMAIN stack}
Places(h) == InMap(h) \cup InStack(h) \cup InRan(h)

(* A registered handler waits in one place, or has been called, once: none   *)
(* is lost or called twice, whoever runs handlers from within handlers and   *)
(* whatever another thread registers meanwhile.                              *)
EachOnce ==
  \A h \in Handler : IF owner[h] = None THEN Places(h) = {} ELSE Cardinality(Places(h)) = 1

Waiting == {h \in Range(born) : h \notin Range(ran)}

(* Without other threads no handler outlives the transaction its code        *)
(* belongs to: what a handler registers while its transaction is unloaded    *)
(* has run when the transaction goes.                                        *)
Owned == ~threads => \A h \in Waiting : owner[h] \in Range(log)

(* Without other threads nothing is left to run when the interpreter is gone. *)
ShutdownRunsAll == task.call = "down" /\ ~threads => Waiting = {}

(* A handler that was registered is called exactly once, and in time:        *)
(* AddAtExitFunc, runAndRemoveStaticDestructors and runAtExitFuncs, which    *)
(* call one another through the handlers.                                    *)
HandlersKept == TypeOK /\ EachOnce /\ Owned /\ ShutdownRunsAll

Age(h) == CHOOSE i \in DOMAIN born : born[i] = h
Calls(h) == ran' = Append(ran, h)

(* The handlers of one transaction run in reverse order, when it is unloaded *)
(* or the client asks for it: of those still waiting the youngest is next,   *)
(* and what a handler registers runs before anything older.                  *)
NewestFirst ==
  [][\A h \in Handler : Calls(h) /\ Top.owner # None /\ ~threads =>
       \A g \in Waiting : owner[g] = owner[h] => Age(g) <= Age(h)]_vars

=============================================================================
