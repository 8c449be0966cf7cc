------------------------------- MODULE Symbols -------------------------------
(***************************************************************************)
(* Where the code of an input finds what it uses: other inputs' code and      *)
(* libraries, which come and go.  Transactions are committed to the JIT and    *)
(* undone, libraries loaded and unloaded by the meta commands .L and .U or by  *)
(* #pragma cling load.                                                         *)
(***************************************************************************)
EXTENDS IncrementalJIT

CONSTANT Sessions  \* [fs, paths, inputs, files, pragma, late, asks, known, max]

VARIABLES
  session,  \* the session
  dl,       \* the libraries
  jit,      \* the JIT
  log,      \* Seq(transaction): what is committed
  count,    \* how many inputs, and how many steps there were
  points,   \* [file, trans]: m_FEToTransaction, m_TransactionToFE
  since,    \* history: real path -> count when the library was opened
  byPragma, \* history: libraries that #pragma cling load has loaded
  byAsk,    \* history: symbols that are there because somebody asked for them
  gone,     \* history: libraries Dyld cannot be expected to know
  asked,    \* history: the last symbol searched for, and the answer
  reals     \* history: what cached_realpath said for the search paths

vars == <<session, dl, jit, log, count, points, since, byPragma, byAsk, gone, asked, reals>>

Dl == [dl |-> dl, since |-> since]
NoAnswer == [name |-> "", res |-> NoPath, before |-> dl]

Init ==
  /\ session \in Sessions
  /\ \E defunct \in BOOLEAN : jit = NewJIT(defunct)
  /\ dl = NewLibraries(session.fs, session.paths)
  /\ log = <<>> /\ count = [inputs |-> 0, steps |-> 0]
  /\ points = [file |-> <<>>, trans |-> <<>>] /\ since = <<>> /\ byPragma = {} /\ byAsk = {} /\ gone = {}
  /\ asked = NoAnswer /\ reals = <<>>

Step == count.steps < session.max /\ UNCHANGED session
Counted == count' = [count EXCEPT !.steps = @ + 1]

-----------------------------------------------------------------------------
(* The initializers of module m run, then its wrapper: [j, d].                *)
ExecuteFrom(J, t, m) == IF m.wrapper THEN executeWrapper(J, Dl, t) ELSE [j |-> J, d |-> dl]
executeTransaction(t, m) == ExecuteFrom(runStaticInitializersOnce(jit, Dl, t, m), t, m)

(* Interpreter::process of an input with module m.                            *)
Input(m) ==
  LET t == count.inputs + 1
  IN \E run \in {executeTransaction(t, m)} :
       /\ Step
       /\ count' = [inputs |-> t, steps |-> count.steps + 1]
       /\ log' = Append(log, t)
       /\ jit' = run.j /\ dl' = run.d
       /\ byAsk' = byAsk \cap DOMAIN jit'.syms
       /\ UNCHANGED <<points, since, byPragma, gone, asked, reals>>

(* Undoing keeps the first k transactions.                                    *)
UndoTo(J, k) == FoldLeft(LAMBDA K, i : RemoveModule(K, log[Len(log) + k + 1 - i]), J, [i \in 1..(Len(log) - k) |-> k + i])

Undo ==
  /\ Step /\ log # <<>> /\ Counted
  /\ jit' = UndoTo(jit, Len(log) - 1)
  /\ log' = Front(log)
  /\ byAsk' = byAsk \cap DOMAIN jit'.syms
  /\ UNCHANGED <<dl, points, since, byPragma, gone, asked, reals>>

-----------------------------------------------------------------------------
Resolve(name) == lookupLibrary(dl.fs, dl.paths, name)
Exempt(D) == gone \cup {p \in DOMAIN D.fs : IsLoaded(D, p)}

(* What .U file does: the transactions after the unload point are unloaded,   *)
(* and with them the unload points they were, then the library.               *)
InLog(t) == t = 0 \/ t \in ToSet(log)
AfterUnload(path) ==
  LET t == points.file[path]
      k == Max({0} \cup {i \in DOMAIN log : log[i] = t})
      undone == {log[i] : i \in (k + 1)..Len(log)} \cap DOMAIN points.trans
      Drop(ps) == [points EXCEPT !.file = [p \in DOMAIN @ \ ps |-> @[p]]]
  IN IF path \notin DOMAIN points.file THEN [jit |-> jit, log |-> log, dl |-> dl, points |-> points]
     ELSE IF ~InLog(t) THEN [jit |-> jit, log |-> log, dl |-> dl, points |-> Drop({path})]
     ELSE [jit |-> UndoTo(jit, k), log |-> SubSeq(log, 1, k),
           dl |-> IF IsLoaded(dl, path) THEN unloadLibrary(dl, [abs |-> TRUE, path |-> path]) ELSE dl,
           points |-> Drop({points.trans[u] : u \in undone} \cup {path})]

UCommand(name) ==
  \E path \in {Resolve(name)} \ {NoPath} : \E u \in {AfterUnload(path)} :
    /\ Step /\ Counted
    /\ jit' = u.jit /\ log' = u.log /\ dl' = u.dl /\ points' = u.points
    /\ gone' = Exempt(dl)
    /\ byAsk' = byAsk \cap DOMAIN jit'.syms
    /\ UNCHANGED <<since, byPragma, asked, reals>>

Since(D) == [p \in DOMAIN since \cup OpenLibraries(D) |->
               IF p \in DOMAIN since /\ p \in OpenLibraries(dl) THEN since[p] ELSE count.inputs]

registerUnloadPoint(ps, t, path) ==
  IF path \in DOMAIN ps.file THEN ps
  ELSE [file |-> (path :> t) @@ ps.file, trans |-> (t :> path) @@ ps.trans]

LCommand(name) ==
  \E path \in {Resolve(name)} \ {NoPath} : \E u \in {AfterUnload(path)} :
  \E l \in {loadLibrary(u.dl, path)} :
    /\ Step /\ Counted
    /\ jit' = u.jit /\ log' = u.log /\ dl' = l.d
    /\ points' = IF l.res = "kLoadLibLoadError" THEN u.points
                 ELSE registerUnloadPoint(u.points, IF u.log = <<>> THEN 0 ELSE Last(u.log), path)
    /\ since' = Since(l.d)
    /\ gone' = Exempt(l.d)
    /\ byAsk' = byAsk \cap DOMAIN jit'.syms
    /\ UNCHANGED <<byPragma, asked, reals>>

PragmaLoad(name) ==
  \E path \in {Resolve(name)} \ {NoPath} : \E l \in {loadLibrary(dl, path)} :
    /\ Step /\ Counted
    /\ dl' = l.d /\ since' = Since(l.d)
    /\ byPragma' = byPragma \cup OpenLibraries(l.d) /\ gone' = Exempt(l.d)
    /\ UNCHANGED <<jit, log, points, byAsk, asked, reals>>

-----------------------------------------------------------------------------
(* getAddressOfGlobal and getPointerToGlobalFromJIT.                          *)
Ask(name) ==
  \E r \in {getAddressOfGlobal(jit, Dl, name), getPointerToGlobalFromJIT(jit, Dl, name)} :
    /\ Step /\ Counted
    /\ jit' = r.j /\ dl' = r.d
    /\ byAsk' = byAsk \cup (DOMAIN r.j.syms \ DOMAIN jit.syms)
    /\ UNCHANGED <<log, points, since, byPragma, gone, asked, reals>>

ReplaceSymbol(name) ==
  /\ Step /\ Counted /\ jit' = addOrReplaceDefinition(jit, name)
  /\ UNCHANGED <<dl, log, points, since, byPragma, byAsk, gone, asked, reals>>

(* Only for a symbol that dlsym does not find.                                *)
Search(name) ==
  \E r \in {searchLibrariesForSymbol(dl, name)} :
    /\ Step /\ Counted /\ Exporters(dl, name) = {}
    /\ dl' = r.d /\ asked' = [name |-> name, res |-> r.res, before |-> dl]
    /\ reals' = r.d.c.real
    /\ UNCHANGED <<jit, log, points, since, byPragma, byAsk, gone>>

(* Somebody builds a library.                                                 *)
Install(p) ==
  /\ Step /\ Counted /\ p \notin DOMAIN dl.fs
  /\ dl' = [dl EXCEPT !.fs = (p :> session.new[p]) @@ @]
  /\ gone' = IF dl.first THEN gone ELSE gone \cup {p}
  /\ UNCHANGED <<jit, log, points, since, byPragma, byAsk, asked, reals>>

Next ==
  \/ \E m \in session.inputs : Input(m)
  \/ Undo
  \/ \E name \in session.files : LCommand(name) \/ UCommand(name)
  \/ \E name \in session.pragma : PragmaLoad(name)
  \/ \E name \in session.asks : Ask(name) \/ Search(name)
  \/ \E name \in session.known : ReplaceSymbol(name)
  \/ \E p \in DOMAIN session.new : Install(p)

Spec == Init /\ [][Next]_vars

-----------------------------------------------------------------------------
(* The two tables of what is loaded agree, what they say is loaded is open,   *)
(* and the trackers are those of the transactions that are committed           *)
(* (DynamicLibraryManager::loadLibrary, unloadLibrary).                         *)
TypeOK ==
  /\ dl.loaded = {l[2] : l \in dl.dylibs}
  /\ \A l \in dl.dylibs : l[1] \in Opened(dl) /\ \A m \in dl.dylibs : l[1] = m[1] <=> l[2] = m[2]
  /\ jit.trackers \subseteq ToSet(log) /\ DOMAIN jit.mods \subseteq jit.trackers
  /\ Len(dl.libs) = Cardinality(ToSet(dl.libs)) /\ ToSet(dl.libs) \cap ToSet(dl.sys) = {}

(* An address of a library is gone, or still good.                            *)
Good(addr) ==
  CASE addr[1] = "library" -> addr[2] \in OpenLibraries(dl) /\ since[addr[2]] = addr[3]
    [] addr[1] = "code" -> addr[2] \in ToSet(log)
    [] OTHER -> TRUE

(* When a library is unloaded with .U, the JIT forgets its symbols with the    *)
(* transactions that came after it was loaded (RTDynamicLibrarySearchGenerator: *)
(* "Enables JITDyLib forgetting symbols upon unloading of a shared library").   *)
(* A library that a pragma loaded has no unload point of its own, and a symbol  *)
(* that somebody asked for belongs to a transaction that may be older than the  *)
(* library.                                                                    *)
NoStaleSymbols ==
  \A n \in DOMAIN jit.syms :
    LET s == jit.syms[n]
    IN Good(s.addr) \/ n \in byAsk \/ (s.addr[1] = "library" /\ s.addr[2] \in byPragma)

(* Code that is committed and linked uses nothing that has been unloaded,      *)
(* except code that was linked late: to something newer than itself.           *)
Newer(addr, t) == addr[1] # "known" /\ (addr[1] = "code" => addr[2] > t) /\ (addr[1] = "library" => addr[3] >= t)
NoStaleCode ==
  \A b \in jit.bound :
    b.t \in ToSet(log) => Good(b.addr) \/ Newer(b.addr, b.t) \/ (b.addr[1] = "library" /\ b.addr[2] \in byPragma)

(* Nothing that has been unloaded is used again: IncrementalJIT, IncrementalExecutor  *)
(* and DynamicLibraryManager forget it at once.                                *)
NothingStale == TypeOK /\ NoStaleSymbols /\ NoStaleCode

(* The library that is suggested for an undefined symbol defines it, and       *)
(* is not loaded; one is suggested when a searched directory lists one that     *)
(* has always been there and was never loaded (Dyld::searchLibrariesForSymbol). *)
Listed(D) == {NormalizePath(D.fs, p) : p \in UNION {EntriesOf(D.fs, NormalizePath(D.fs, D.paths[i].path)) : i \in DOMAIN D.paths}}
Suggests ==
  LET D == asked.before
      offers == {p \in Listed(D) \ (gone \cup {NoPath}) : FileAt(D.fs, p).kind = "file" /\ FileAt(D.fs, p).shared
                   /\ ~FileAt(D.fs, p).pie /\ ~ShouldPermanentlyIgnore(D, p) /\ asked.name \in FileAt(D.fs, p).exports}
      e == FileAt(D.fs, asked.res)
  IN asked.name # "" =>
       IF asked.res = NoPath THEN offers = {}
       ELSE /\ asked.name \in e.exports \/ (~e.hash /\ asked.name \in e.locals)
            /\ asked.name \in e.exports => ~IsLoaded(D, asked.res)

(* cached_realpath finds what realpath finds.                                 *)
RealPaths == \A p \in DOMAIN reals : p \in DOMAIN dl.fs => reals[p] = NormalizePath(dl.fs, p)

(* What Dyld has cached of the directories does not show in its answers.      *)
AnswersRight == Suggests /\ RealPaths

=============================================================================
