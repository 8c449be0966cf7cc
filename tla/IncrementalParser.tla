------------------------- MODULE IncrementalParser -------------------------
(***************************************************************************)
(* The transaction protocol of the interpreter: IncrementalParser opens,   *)
(* ends and commits transactions, Interpreter::unload reverts them, and    *)
(* both call back into user code, which may call the interpreter again.    *)
(*                                                                         *)
(* Everything happens on one thread, so the interleavings are those of     *)
(* re-entrant calls.  The call stack is the variable `stack`; a frame says *)
(* where a function is and which locals it needs when it goes on:          *)
(*                                                                         *)
(*   "boot", "booted"   the constructor of Interpreter (bottom frame)      *)
(*   "client"           the embedder or the prompt (bottom frame)          *)
(*   "bootparse"        parsing between begin and end of the constructor's *)
(*                      transaction                                        *)
(*   "compile"          the same in Compile()                              *)
(*   "lookup"           the same in the scope of a PushTransactionRAII     *)
(*   "sub"              the same in a transaction commitTransaction opened *)
(*   "check" .. "exec"  the phases of commitTransaction                    *)
(*   "init"             static initializers running, in commitTransaction  *)
(*   "callback"         TransactionCommitted running, in commitTransaction *)
(*   "dtor"             callbacks and static destructors running, in unload*)
(*   "revert"           RevertTransaction, in unload                       *)
(*                                                                         *)
(* Assertions of the code are off in the build modelled here (NDEBUG); the *)
(* ones that matter are stated as properties below.                        *)
(***************************************************************************)
EXTENDS Transaction

CONSTANTS
  Fuel,    \* bound: events of one frame (decls, errors, calls it makes)
  Reenter  \* [UserPc -> SUBSET Call]: what user code does in each place

VARIABLES
  stack,  \* Seq(Frame): the call stack, innermost frame last
  prt,    \* Txn or None: the pointer in the PRT a commitTransaction that has
          \*   just returned leaves to its caller
  erred,  \* SUBSET Txn: history; the topmost transactions in which an error
          \*   was reported before their own commit began
  errorOut  \* BOOLEAN: InvocationOptions::ErrorOut, which never changes

vars == <<state, parent, nested, queue, next, diags, unloading, transactions,
          consumer, diagError, stack, prt, erred, errorOut>>

UserPc == {"init", "callback", "dtor"}
Call == {"compile", "lookup", "unload"}

ASSUME FuelAssumption == Fuel \in Nat
ASSUME ReenterAssumption == Reenter \in [UserPc -> SUBSET Call]

BottomPc == {"boot", "booted", "client"}
ParsePc == {"bootparse", "compile", "lookup", "sub"}
CommitPc == {"check", "inst", "deser", "weak", "exec", "init", "callback"}
UnloadPc == {"dtor", "revert"}
Pc == BottomPc \cup ParsePc \cup CommitPc \cup UnloadPc

(* t: the transaction the function works on; prev: its prevConsumerT; flag: *)
(* "lookup" had the engine seen an error on entry; "booted" did the parse   *)
(* fail; "exec" has CodeGen dropped the module; UnloadPc does the caller's  *)
(* PRT keep its pointer; fuel: events left.                                 *)
Frame == [pc : Pc, t : Pointer, prev : Pointer, flag : BOOLEAN, fuel : 0..Fuel]

NewFrame(pc, t, flag) ==
  [pc |-> pc, t |-> t, prev |-> None, flag |-> flag, fuel |-> Fuel]

Top == Last(stack)
At(pc) == Top.pc = pc
Push(f) == stack' = Append(stack, f)
Pop == stack' = Front(stack)
Goto(f) == stack' = [stack EXCEPT ![Len(stack)] = f]
(* A call: the caller's frame becomes f, the callee's frame is g. *)
CallFrom(f, g) == stack' = Append([stack EXCEPT ![Len(stack)] = f], g)

Spend(f) == [f EXCEPT !.fuel = @ - 1]

(* The commit of u is under way. *)
Committing(u) == \E i \in DOMAIN stack : stack[i].pc \in CommitPc /\ stack[i].t = u

(* Transactions the pool can still hand out.  The code allocates without    *)
(* limit; a transaction may only become non-empty while one more is free,   *)
(* which is what its commit needs, so the bound never blocks a commit.      *)
Free == {t \in Txn : ~Live(t)}

-----------------------------------------------------------------------------
(***************************************************************************)
(* Between begin and end of a transaction.                                 *)
(***************************************************************************)

(* Clang hands a decl to the DeclCollector, which appends it to what *it*   *)
(* holds as the current transaction.                                        *)
AppendDecl ==
  /\ Top.pc \in ParsePc /\ Top.fuel > 0 /\ Free # {}
  /\ consumer # None
  /\ queue' = [queue EXCEPT ![consumer] = Append(@, "decl")]
  /\ Goto(Spend(Top))
  /\ UNCHANGED <<state, parent, nested, next, transactions, diags, unloading,
                 consumer, diagError, erred>>

(* The topmost transactions whose parse sees an error now.  Lookups report  *)
(* to nobody and are not counted.                                           *)
Erring(t) ==
  {u \in Txn : u = Topmost(t) /\ Top.pc \in {"bootparse", "compile"} /\ ~Committing(u)}

(* Clang reports an error. *)
ParseError ==
  /\ Top.pc \in ParsePc /\ Top.fuel > 0
  /\ diagError' = TRUE
  /\ erred' = erred \cup Erring(Top.t)
  /\ Goto(Spend(Top))
  /\ UNCHANGED <<state, treeVars, listVars, diags, unloading, consumer>>

(* A transformer rejects a decl, or a class turns out to be invalid: the     *)
(* flag goes to the transaction only.                                        *)
TransformerError ==
  /\ Top.pc \in ParsePc /\ Top.fuel > 0
  /\ consumer # None
  /\ diags' = SetErrors(consumer)
  /\ erred' = erred \cup Erring(Top.t)
  /\ Goto(Spend(Top))
  /\ UNCHANGED <<state, treeVars, listVars, unloading, consumer, diagError>>

(* A lookup's ParserStateRAII resets the engine unless there was an error   *)
(* before it; not every lookup has one.                                     *)
LookupReset ==
  /\ At("lookup") /\ diagError /\ ~Top.flag
  /\ diagError' = FALSE
  /\ UNCHANGED <<state, treeVars, listVars, diags, unloading, consumer, stack, erred>>

(* What may be called from where. *)
Calls(pc) ==
  CASE pc \in UserPc -> Reenter[pc]
    [] pc = "client" -> Call
    [] pc = "booted" -> {"compile"}
    [] pc \in ParsePc -> {"compile", "lookup"}
    [] OTHER -> {}

(* A bottom frame runs for as long as it likes. *)
CallerAfter(f) == IF f.pc \in BottomPc THEN f ELSE Spend(f)
MayCall(c) == c \in Calls(Top.pc) /\ (Top.pc \in BottomPc \/ Top.fuel > 0)

(* Compile() and the constructor of a PushTransactionRAII. *)
Begin(c, t) ==
  /\ c \in {"compile", "lookup"} /\ MayCall(c)
  /\ BeginTransaction(consumer, t)
  /\ CallFrom(CallerAfter(Top), NewFrame(c, t, c = "lookup" /\ diagError))
  /\ UNCHANGED <<diagVars, erred>>

-----------------------------------------------------------------------------
(***************************************************************************)
(* endTransaction and its callers.                                         *)
(***************************************************************************)

(* What the commit frame below remembers of the end of a transaction it     *)
(* opened: with an error in the engine CodeGen's HandleTranslationUnit has  *)
(* thrown the llvm::Module away.                                            *)
ModuleDropped(below) ==
  IF below.pc = "exec" THEN [below EXCEPT !.flag = diagError] ELSE below

(* An empty transaction: Compile() and commitTransaction then commit a null *)
(* PRT, which resets the engine after a failure; ~PushTransactionRAII does  *)
(* not.                                                                     *)
EndEmpty ==
  /\ Top.pc \in ParsePc
  /\ EndEmptyTransaction(Top.t)
  /\ diagError' = IF Top.pc \in {"compile", "sub"} /\ ParseFailed(Top.t)
                  THEN FALSE ELSE diagError
  /\ LET n == Len(stack)
         failed == ParseFailed(Top.t)
     IN stack' = IF At("bootparse")
                 THEN <<[NewFrame("booted", None, failed) EXCEPT !.fuel = 0]>>
                 ELSE IF At("sub")
                 THEN [Front(stack) EXCEPT ![n - 1] = ModuleDropped(@)]
                 ELSE Front(stack)
  /\ erred' = erred \ {Top.t}

(* A transaction with contents goes on to commitTransaction, except the     *)
(* constructor's, which is kept for later.                                  *)
EndFull ==
  /\ Top.pc \in ParsePc
  /\ EndFullTransaction(Top.t)
  /\ LET n == Len(stack)
         commit == NewFrame("check", Top.t, FALSE)
     IN stack' = IF At("bootparse")
                 THEN <<[NewFrame("booted", Top.t, FALSE) EXCEPT !.fuel = 0]>>
                 ELSE IF At("sub")
                 THEN [stack EXCEPT ![n] = commit, ![n - 1] = ModuleDropped(@)]
                 ELSE [stack EXCEPT ![n] = commit]
  /\ UNCHANGED <<diagError, erred>>

(* The constructor: Initialize() opens a transaction and parses ...  *)
BootBegin(t) ==
  /\ At("boot")
  /\ BeginTransaction(consumer, t)
  /\ CallFrom(Top, NewFrame("bootparse", t, FALSE))
  /\ UNCHANGED <<diagVars, erred>>

(* ... and after the declarations of the runtime ("booted" frames call       *)
(* Compile) the transaction is committed.                                    *)
BootCommit ==
  /\ At("booted")
  /\ stack' = IF Top.t = None THEN <<NewFrame("client", None, FALSE)>>
              ELSE <<NewFrame("client", None, FALSE), NewFrame("check", Top.t, FALSE)>>
  /\ diagError' = IF Top.t = None /\ Top.flag THEN FALSE ELSE diagError
  /\ UNCHANGED <<state, treeVars, listVars, diags, unloading, consumer, erred>>

-----------------------------------------------------------------------------
(***************************************************************************)
(* commitTransaction.                                                      *)
(***************************************************************************)

(* The entry of Interpreter::unload. *)
UnloadFrame(t, keepsPRT) == NewFrame("dtor", t, keepsPRT)

(* The parent of a nested transaction becomes current.  With errors the      *)
(* engine is reset, the PRT nulled and the transaction unloaded.  (The loop  *)
(* over uncommitted nested transactions that follows never finds any: see    *)
(* NestedSettled.)                                                           *)
CommitCheck ==
  /\ At("check")
  /\ consumer' = IF parent[Top.t] # None THEN parent[Top.t] ELSE consumer
  /\ IF IssuedErrors(Top.t)
     THEN /\ diagError' = FALSE
          /\ unloading' = [unloading EXCEPT ![Top.t] = TRUE]
          /\ Goto(UnloadFrame(Top.t, FALSE))
     ELSE /\ Goto([Top EXCEPT !.pc = "inst"])
          /\ UNCHANGED <<diagError, unloading>>
  /\ UNCHANGED <<state, treeVars, listVars, diags, erred>>

(* The transaction for used vtables and pending instantiations, nested in    *)
(* the one being committed.                                                  *)
OpenInstantiations(n) ==
  /\ At("inst")
  /\ BeginTransaction(Top.t, n)
  /\ CallFrom([Top EXCEPT !.pc = "deser", !.prev = consumer], NewFrame("sub", n, FALSE))
  /\ UNCHANGED <<diagVars, erred>>

(* codeGenTransaction: a transaction for deserialized decls, ended at once.  *)
OpenDeserialization(n) ==
  /\ At("deser")
  /\ BeginTransaction(Top.t, n)
  /\ CallFrom([Top EXCEPT !.pc = IF parent[Top.t] = None THEN "weak" ELSE "exec"],
              [NewFrame("sub", n, FALSE) EXCEPT !.fuel = 0])
  /\ UNCHANGED <<diagVars, erred>>

(* CompilationOptions::CodeGeneration is off: straight to the end. *)
SkipCodeGen ==
  /\ At("deser")
  /\ consumer' = Top.prev
  /\ state' = [state EXCEPT ![Top.t] = "kCommitted"]
  /\ Goto([Top EXCEPT !.pc = "callback"])
  /\ UNCHANGED <<treeVars, listVars, diagVars, unloading, erred>>

(* codeGenTransaction, top-level only: the transaction open around CodeGen's *)
(* HandleTranslationUnit.                                                    *)
OpenTranslation(n) ==
  /\ At("weak")
  /\ BeginTransaction(consumer, n)
  /\ CallFrom([Top EXCEPT !.pc = "exec"], NewFrame("sub", n, FALSE))
  /\ UNCHANGED <<diagVars, erred>>

(* The transaction is marked committed.  A nested one is done; a top-level   *)
(* one is executed, or unloaded if it has no module.                         *)
Execute ==
  /\ At("exec")
  /\ state' = [state EXCEPT ![Top.t] = "kCommitted"]
  /\ IF parent[Top.t] # None
     THEN /\ consumer' = Top.prev
          /\ Goto([Top EXCEPT !.pc = "callback", !.prev = consumer'])
          /\ UNCHANGED unloading
     ELSE IF Top.flag
     THEN /\ unloading' = [unloading EXCEPT ![Top.t] = TRUE]
          /\ Goto(UnloadFrame(Top.t, TRUE))
          /\ UNCHANGED consumer
     ELSE /\ Goto([Top EXCEPT !.pc = "init"])
          /\ UNCHANGED <<consumer, unloading>>
  /\ UNCHANGED <<treeVars, listVars, diagVars, erred>>

(* The static initializers return. *)
InitReturn ==
  /\ At("init")
  /\ consumer' = Top.prev
  /\ state' = [state EXCEPT ![Top.t] = "kCommitted"]
  /\ Goto([Top EXCEPT !.pc = "callback"])
  /\ UNCHANGED <<treeVars, listVars, diagVars, unloading, erred>>

(* A static initializer throws: the exception passes through                 *)
(* commitTransaction, which restores nothing.                                *)
InitThrow ==
  /\ At("init")
  /\ Pop
  /\ UNCHANGED <<state, treeVars, listVars, diagVars, unloading, consumer, erred>>

(* The callback TransactionCommitted returns, and commitTransaction with it. *)
CommitReturn ==
  /\ At("callback")
  /\ consumer' = Top.prev
  /\ Pop
  /\ UNCHANGED <<state, treeVars, listVars, diagVars, unloading, erred>>

-----------------------------------------------------------------------------
(***************************************************************************)
(* Interpreter::unload.                                                    *)
(***************************************************************************)

(* Mutant: without the test for an empty history. *)
UnloadUnchecked ==
  /\ MayCall("unload")
  /\ unloading' = [unloading EXCEPT ![GetLastTransaction] = TRUE]
  /\ CallFrom(CallerAfter(Top), UnloadFrame(GetLastTransaction, FALSE))
  /\ UNCHANGED <<state, treeVars, listVars, diagVars, consumer, erred>>

(* unload(unsigned), one transaction at a time: never the first one. *)
UnloadLast ==
  /\ MayCall("unload")
  /\ LET t == GetLastTransaction
     IN IF t = GetFirstTransaction
        THEN /\ Goto(CallerAfter(Top)) /\ UNCHANGED unloading
        ELSE /\ unloading' = [unloading EXCEPT ![t] = TRUE]
             /\ CallFrom(CallerAfter(Top), UnloadFrame(t, FALSE))
  /\ UNCHANGED <<state, treeVars, listVars, diagVars, consumer, erred>>

(* Callbacks and static destructors are done.  With ErrorOut the transaction *)
(* is only tagged and stays where it is.                                     *)
DtorReturn ==
  /\ At("dtor")
  /\ IF errorOut
     THEN /\ state' = [state EXCEPT ![Top.t] = "kRolledBack"]
          /\ Pop
     ELSE /\ Goto([Top EXCEPT !.pc = "revert"])
          /\ UNCHANGED state
  /\ UNCHANGED <<treeVars, listVars, diagVars, unloading, consumer, erred>>

(* unloadDeclarations meets a marker: the last nested transaction goes. *)
RevertNested ==
  /\ At("revert") /\ nested[Top.t] # <<>>
  /\ unloading' = [unloading EXCEPT ![Last(nested[Top.t])] = TRUE]
  /\ Push(UnloadFrame(Last(nested[Top.t]), FALSE))
  /\ UNCHANGED <<state, treeVars, listVars, diagVars, consumer, erred>>

(* The rest of RevertTransaction, and deregisterTransaction. *)
RevertReturn ==
  /\ At("revert") /\ nested[Top.t] = <<>>
  /\ DeregisterTransaction(Top.t)
  /\ Pop
  /\ erred' = erred \ {Top.t}
  /\ UNCHANGED diagError

-----------------------------------------------------------------------------
Init ==
  /\ TransactionInit
  /\ stack = <<NewFrame("boot", None, FALSE)>>
  /\ prt = None
  /\ erred = {}
  /\ errorOut \in BOOLEAN

(* Steps after which a caller of commitTransaction looks at its PRT. *)
Return ==
  \/ CommitReturn /\ prt' = Top.t
  \/ DtorReturn /\ prt' = IF errorOut /\ Top.flag THEN Top.t ELSE None
  \/ RevertReturn /\ prt' = IF Top.flag THEN Top.t ELSE None

Parse == AppendDecl \/ ParseError \/ TransformerError \/ LookupReset
Open(n) ==
  OpenInstantiations(n) \/ OpenDeserialization(n) \/ OpenTranslation(n)
Finish ==
  \/ EndEmpty \/ EndFull \/ BootCommit \/ CommitCheck \/ SkipCodeGen
  \/ Execute \/ InitReturn \/ RevertNested

(* What the code does by itself once it is called. *)
Run ==
  /\ UNCHANGED errorOut
  /\ \/ Return
     \/ prt' = None /\ (Finish \/ \E n \in Txn : Open(n) \/ BootBegin(n))

(* What its input and its users choose. *)
Choose ==
  /\ UNCHANGED errorOut
  /\ prt' = None
  /\ \/ Parse \/ InitThrow \/ UnloadLast
     \/ \E c \in {"compile", "lookup"}, t \in Txn : Begin(c, t)

Next == Run \/ Choose

Spec == Init /\ [][Next]_vars

(* The code goes on when it can, parses end and user code returns. *)
FairSpec == Spec /\ WF_vars(Run)

-----------------------------------------------------------------------------
(* The transactions are well typed, and so is the call stack: its bottom     *)
(* frame, and no other, belongs to the constructor or the client, and every  *)
(* other frame works on a transaction.                                       *)
TypeOK ==
  /\ TransactionTypeOK
  /\ stack \in Seq(Frame) /\ stack # <<>>
  /\ \A i \in DOMAIN stack :
       IF i = 1 THEN stack[i].pc \in BottomPc
       ELSE stack[i].pc \notin BottomPc /\ stack[i].t \in Txn
  /\ prt \in Pointer
  /\ erred \in SUBSET Txn
  /\ errorOut \in BOOLEAN

(* Nobody holds a pointer to a transaction that went back to the pool: not   *)
(* the DeclCollector, not a function that will go on with it, not the local  *)
(* prevConsumerT that commitTransaction will make current again.             *)
NoDangling ==
  /\ consumer # None => Live(consumer)
  /\ \A i \in DOMAIN stack :
       /\ stack[i].t # None => Live(stack[i].t)
       /\ stack[i].prev # None => Live(stack[i].prev)

(* Decls always land in the innermost transaction being parsed, which can    *)
(* take them (the assertion in Transaction::append): every endTransaction,   *)
(* commitTransaction and deregisterTransaction in between has put the        *)
(* current transaction of the DeclCollector back.                            *)
InnermostCollects ==
  Top.pc \in ParsePc => consumer = Top.t /\ state[Top.t] = "kCollecting"

(* A transaction opened while another is parsed, committed or reverted is    *)
(* nested in exactly that one.  Code that runs on behalf of a committed one  *)
(* works beside it: the client and static initializers at the top level, the *)
(* commit callback of a nested transaction in the parent of that.            *)
ScopesNest ==
  \A i \in 1..(Len(stack) - 1) :
    LET outer == stack[i]
        inner == stack[i + 1]
    IN parent[inner.t] = CASE outer.pc \in {"client", "init"} -> None
                           [] outer.pc = "callback" -> parent[outer.t]
                           [] OTHER -> outer.t

(* When commitTransaction gets past its error check, every nested            *)
(* transaction is already committed: the loop that would commit the others   *)
(* (and would invalidate its own iterators if one of them failed) is dead.   *)
NestedSettled ==
  At("check") /\ ~IssuedErrors(Top.t) =>
    \A n \in Range(nested[Top.t]) : state[n] = "kCommitted"

(* The assertion of Interpreter::unload ("Can not revert previous            *)
(* transactions") and that of deregisterTransaction ("Out of order           *)
(* transaction removal"), where the code evaluates them: user code that ran  *)
(* in between has not made the transaction a previous one.                   *)
RevertsOnlyTheLast ==
  Top.pc = "revert" =>
    /\ next[Topmost(Top.t)] = None
    /\ parent[Top.t] = None => Top.t = GetLastTransaction

(* The assertion of addNestedTransaction ("Must not nest within unloading    *)
(* transaction").                                                            *)
NoNestingInUnloading ==
  \A n \in Txn : parent[n] # None /\ state[n] = "kCollecting" => ~unloading[parent[n]]

(* An error reported before the commit of a top-level transaction began,     *)
(* even one in a nested transaction that was discarded or rolled back since, *)
(* keeps it from ever being committed.                                       *)
ParseErrorsRollBack == \A t \in erred : state[t] # "kCommitted"

(* The caller of commitTransaction, which looks at the transaction in its    *)
(* PRT (the assertion "Not committed?" of EvaluateInternal), finds it in a   *)
(* final state.  If CodeGen dropped the module, the pointer is one to a      *)
(* transaction that went back to the pool.                                   *)
ResultIsSettled ==
  prt # None /\ Live(prt) => state[prt] \in {"kCommitted", "kRolledBack"}

(* What IncrementalParser keeps pointers to is there: the deque and the list *)
(* agree and nothing dangles when commits fail and reverts nest.             *)
DequeOK == ChainOK /\ NoDangling

(* Transactions open and close like brackets, and decls land in the          *)
(* innermost one: beginTransaction, endTransaction and commitTransaction     *)
(* agree about m_CurTransaction, in whatever order parses, commits and user  *)
(* code call one another.                                                    *)
ScopesOK == InnermostCollects /\ ScopesNest /\ NestedSettled

(* A transaction is committed as a whole or reverted as a whole, and only    *)
(* the last one is: commitTransaction and unload, with what they call.       *)
RollbackOK ==
  /\ ParseErrorsRollBack /\ RevertsOnlyTheLast
  /\ NoNestingInUnloading /\ ResultIsSettled

(* The elements of s that are in S, in their order. *)
Selected(s, S) ==
  LET selected[n \in 0..Len(s)] ==
        IF n = 0 THEN <<>>
        ELSE IF s[n] \in S THEN Append(selected[n - 1], s[n]) ELSE selected[n - 1]
  IN  selected[Len(s)]

Committed == {t \in Txn : state[t] = "kCommitted"}
InTheMaking == {t \in Txn : parent[t] = None /\ state[t] \in {"kCollecting", "kCompleted"}}
Log == INSTANCE TransactionLog WITH
  log  <- Selected(transactions, Committed),
  open <- InTheMaking

(* The transactions form the history of committed transactions that          *)
(* TransactionLog describes: one in the making at a time, committed as a     *)
(* whole or dropped, reverted last in, first out.                            *)
LogRefined == Log!Spec

(* Every call of the client returns: commits that open transactions, whose   *)
(* commits open transactions, end; so do the reverts of nested transactions. *)
Quiesces == (Len(stack) > 1) ~> (Len(stack) = 1)

-----------------------------------------------------------------------------
(* For TLC: the transactions are interchangeable, and what a commit calls,   *)
(* initializers and callbacks, may compile and look up.                      *)
TxnSymmetry == Permutations(Txn)
ReenterCommit ==
  [p \in UserPc |-> CASE p = "init" -> {"compile", "lookup"}
                      [] p = "callback" -> {"compile", "lookup"}
                      [] p = "dtor" -> {}]

=============================================================================
