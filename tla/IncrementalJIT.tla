---------------------------- MODULE IncrementalJIT ----------------------------
(***************************************************************************)
(* IncrementalJIT and IncrementalExecutor on top of ORC.  The state J:       *)
(*   syms       the JITDylib: name -> [addr, rt, st, strong]; st is "lazy",    *)
(*              "ready" or "failed", rt the transaction whose tracker holds    *)
(*              it, or Default                                               *)
(*   mods       the modules the JIT has, by transaction                       *)
(*   compiled   m_CompiledModules, by transaction                             *)
(*   trackers   m_ResourceTrackers                                            *)
(*   current    m_CurrentRT                                                   *)
(*   ctors      modules whose initializers have not run                       *)
(*   unresolved m_unresolvedSymbols                                           *)
(*   bound      history: [transaction, name, addr] of all that is linked       *)
(*   defunct    whether ORC takes a definition under a removed tracker         *)
(* A module is [strong, weak, uses, ctor, wrapper]; an address is             *)
(* <<"code", transaction>>, <<"library", real path, since>> or <<"known", 0>>. *)
(***************************************************************************)
EXTENDS Libraries

Default == 0
Ctor(t) == "ctor" \o ToString(t)
Wrapper(t) == "wrapper" \o ToString(t)
None == <<"none">>

NewJIT(defunct) ==
  [syms |-> <<>>, mods |-> <<>>, compiled |-> {}, trackers |-> {}, current |-> Default, ctors |-> {},
   unresolved |-> {}, bound |-> {}, defunct |-> defunct]

Defs(m, t) == m.strong \cup m.weak \cup (IF m.ctor THEN {Ctor(t)} ELSE {})
              \cup (IF m.wrapper THEN {Wrapper(t)} ELSE {})

-----------------------------------------------------------------------------
(* ORC.  A strong definition replaces a weak one that nobody asked for; two   *)
(* strong ones are an error, and the module stays out.                        *)
Duplicates(J, m, t) == {n \in (Defs(m, t) \ m.weak) \cap DOMAIN J.syms : J.syms[n].strong \/ J.syms[n].st # "lazy"}

AddIRModule(J, t, m) ==
  LET claimed == (Defs(m, t) \ m.weak) \cup (m.weak \ DOMAIN J.syms)
      sym(n) == [addr |-> <<"code", t>>, rt |-> t, st |-> "lazy", strong |-> n \notin m.weak]
  IN IF Duplicates(J, m, t) # {} THEN J
     ELSE [J EXCEPT !.syms = [n \in claimed |-> sym(n)] @@ @, !.mods = (t :> m) @@ @,
                    !.ctors = IF m.ctor THEN @ \cup {t} ELSE @]

RemoveTracker(J, t) ==
  [J EXCEPT !.syms = [n \in {n \in DOMAIN J.syms : J.syms[n].rt # t} |-> J.syms[n]],
            !.mods = [u \in DOMAIN @ \ {t} |-> @[u]], !.ctors = @ \ {t}, !.trackers = @ \ {t}]

(* Mutant: the symbol belongs to no transaction. *)
tryToGenerateUntracked(J, name, lib, since) ==
  [J EXCEPT !.syms = (name :> [addr |-> <<"library", lib, since>>, rt |-> Default, st |-> "ready",
                               strong |-> TRUE]) @@ @]

(* RTDynamicLibrarySearchGenerator: the process' symbols are defined under    *)
(* the current tracker.                                                       *)
tryToGenerate(J, name, lib, since) ==
  [J EXCEPT !.syms = (name :> [addr |-> <<"library", lib, since>>, rt |-> J.current, st |-> "ready",
                               strong |-> TRUE]) @@ @]

Alive(J, rt) == rt = Default \/ rt \in J.trackers

RECURSIVE LookupSymbol(_, _, _, _)

(* The symbols of t enter state st.                                           *)
Own(J, own, st) == [n \in DOMAIN J.syms |-> IF n \in own THEN [J.syms[n] EXCEPT !.st = st] ELSE J.syms[n]]

(* The module of t has looked up what it uses: got.                           *)
Linked(end, own) ==
  IF \E g \in end.got : g.addr = None
  THEN [end.j EXCEPT !.syms = Own(end.j, own, "failed"), !.unresolved = @ \cup end.missing]
  ELSE [end.j EXCEPT !.bound = @ \cup end.got]

(* Compiles the module of t and links it: each name it uses is looked up.     *)
Materialize(J, D, t, forbid) ==
  LET own == {n \in DOMAIN J.syms : J.syms[n].addr = <<"code", t>>}
      Take(S, n, r) == [j |-> r.j, got |-> S.got \cup {[t |-> t, name |-> n, addr |-> r.addr]},
                        missing |-> IF r.missing THEN S.missing \cup {n} ELSE S.missing]
      start == [J EXCEPT !.compiled = @ \cup {t}, !.syms = Own(J, own, "ready")]
  IN Linked(FoldSet(LAMBDA n, S : Take(S, n, LookupSymbol(S.j, D, n, forbid)),
                    [j |-> start, got |-> {}, missing |-> {}], J.mods[t].uses), own)

NotFound(J, missing) == [j |-> J, addr |-> None, missing |-> missing]

Found(J, name) ==
  [j |-> J, addr |-> IF J.syms[name].st = "failed" THEN None ELSE J.syms[name].addr, missing |-> FALSE]

(* A name that is not in the JITDylib: one of the libraries that export it.   *)
LookupInProcess(J, D, name, exporters) ==
  LET lib == CHOOSE p \in exporters : TRUE
  IN CASE exporters = {} -> NotFound(J, TRUE)
       [] exporters # {} /\ ~Alive(J, J.current) /\ ~J.defunct -> NotFound(J, FALSE)
       [] OTHER -> Found(tryToGenerate(J, name, lib, D.since[lib]), name)

(* [j, addr, missing]: missing when nobody defines the name.                  *)
LookupSymbol(J, D, name, forbid) ==
  CASE name \notin DOMAIN J.syms ->
         LookupInProcess(J, D, name, IF name \in forbid THEN {} ELSE Exporters(D.dl, name))
    [] name \in DOMAIN J.syms /\ J.syms[name].st # "lazy" -> Found(J, name)
    [] OTHER -> Found(Materialize(J, D, J.syms[name].addr[2], forbid), name)

-----------------------------------------------------------------------------
(* IncrementalJIT.                                                            *)
AddModule(J, t, m) == AddIRModule([J EXCEPT !.trackers = @ \cup {t}, !.current = t], t, m)

RemoveModule(J, t) == IF t \notin J.trackers THEN J ELSE [RemoveTracker(J, t) EXCEPT !.compiled = @ \ {t}]

addOrReplaceDefinition(J, name) ==
  [J EXCEPT !.syms = (name :> [addr |-> <<"known", 0>>, rt |-> Default, st |-> "ready", strong |-> TRUE]) @@ @]

getSymbolAddress(J, D, name, includeHost) == LookupSymbol(J, D, name, IF includeHost THEN {} ELSE {name})

doesSymbolAlreadyExist(J, name) ==
  \E t \in J.compiled \cap DOMAIN J.mods : name \in Defs(J.mods[t], t) \cup J.mods[t].uses

(* The backend pass ReuseExistingWeakSymbols: a weak definition that exists   *)
(* already becomes a declaration.                                             *)
ReuseExistingWeakSymbols(J, D, m) ==
  LET known == {n \in m.weak : doesSymbolAlreadyExist(J, n) \/ Exporters(D.dl, n) # {}}
  IN [m EXCEPT !.weak = @ \ known, !.uses = @ \cup known]

-----------------------------------------------------------------------------
(* IncrementalExecutor.                                                       *)
EmitModule(J, D, t, m) == AddModule(J, t, ReuseExistingWeakSymbols(J, D, m))

RunCtors(J, D) ==
  LET Init1(t, K) == LookupSymbol(K, D, Ctor(t), {}).j
  IN FoldSet(Init1, [J EXCEPT !.ctors = {}], J.ctors)

(* diagnoseUnresolvedSymbols: [d, failed]; each symbol gets a suggestion.      *)
diagnoseUnresolvedSymbols(J, D, trigger) ==
  [failed |-> J.unresolved \notin {{}, {trigger}},
   d |-> FoldSet(LAMBDA s, E : searchLibrariesForSymbol(E, s).d, D.dl, J.unresolved)]

(* Nothing is compiled between clearing m_unresolvedSymbols and diagnosing.    *)
runStaticInitializersOnce(J, D, t, m) ==
  IF Defs(m, t) \cup m.uses = {} THEN J
  ELSE RunCtors([EmitModule(J, D, t, m) EXCEPT !.unresolved = {}], D)

(* What is left of a lookup, [j, d]: nothing is unresolved once it is diagnosed. *)
Settled(J, D, diag) ==
  IF diag.failed THEN [j |-> [J EXCEPT !.unresolved = {}], d |-> diag.d] ELSE [j |-> J, d |-> D.dl]

Diagnose(J, D, name) == Settled(J, D, diagnoseUnresolvedSymbols(J, D, name))

executeWrapper(J, D, t) == Diagnose(getSymbolAddress(J, D, Wrapper(t), FALSE).j, D, Wrapper(t))

(* Without host symbols; getAddressOfGlobal is with them.                      *)
getPointerToGlobalFromJIT(J, D, name) ==
  Diagnose(getSymbolAddress([J EXCEPT !.unresolved = {}], D, name, FALSE).j, D, name)
getAddressOfGlobal(J, D, name) == [j |-> getSymbolAddress(J, D, name, TRUE).j, d |-> D.dl]
=============================================================================
