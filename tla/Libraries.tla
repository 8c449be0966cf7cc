------------------------------ MODULE Libraries ------------------------------
(***************************************************************************)
(* DynamicLibraryManager, which loads and unloads libraries, and its Dyld,   *)
(* which suggests one for a symbol that nothing defines.  Their state D is    *)
(*   fs        the file system                                               *)
(*   paths     m_SearchPaths, Seq([path, user])                               *)
(*   loaded    m_LoadedLibraries, a set of real paths                         *)
(*   dylibs    m_DyLibs, a set of <<handle, real path>>                       *)
(*   opens     handle -> how often dlopen has opened it                       *)
(*   first, firstSys          m_FirstRun, m_FirstRunSysLib                    *)
(*   libs, sys, queried       m_Libraries, m_SysLibraries, m_QueriedLibraries *)
(*   c         the caches of cached_realpath                                  *)
(***************************************************************************)
EXTENDS LibraryFiles

CONSTANT GNUHash  \* symbol -> its hash

NewLibraries(fs, paths) ==
  [fs |-> fs, paths |-> paths, loaded |-> {}, dylibs |-> {}, opens |-> <<>>, first |-> TRUE,
   firstSys |-> TRUE, libs |-> <<>>, sys |-> <<>>, queried |-> {}, c |-> NoCache]

-----------------------------------------------------------------------------
(* The process (dlopen, dlclose, dlsym).  Files that are the same one have   *)
(* one handle; a library brings the ones it needs.                           *)
Handle(D, p) == FileAt(D.fs, p).id
Opened(D) == {h \in DOMAIN D.opens : D.opens[h] > 0}

RECURSIVE NeededBy(_, _, _)
NeededBy(D, p, seen) ==
  LET e == FileAt(D.fs, p)
      deps == {lookupNeeded(D.fs, D.paths, d, e, p) : d \in e.needs}
  IN IF p \in seen \/ p = NoPath THEN seen \cup {p}
     ELSE FoldSet(LAMBDA d, s : NeededBy(D, d, s), seen \cup {p}, deps)

CanOpen(D, p) == \A q \in NeededBy(D, p, {}) : q # NoPath /\ ~FileAt(D.fs, q).foreign /\ ~FileAt(D.fs, q).debug

OpenLibraries(D) == UNION {NeededBy(D, l[2], {}) : l \in {m \in D.dylibs : m[1] \in Opened(D)}}
Exporters(D, s) == {p \in OpenLibraries(D) : s \in FileAt(D.fs, p).exports}

-----------------------------------------------------------------------------
IsLoaded(D, p) == NormalizePath(D.fs, p) \in D.loaded

(* loadLibrary of a resolved path: [d, res].                                 *)
loadLibrary(D, path) ==
  LET h == Handle(D, path)
      open == [D EXCEPT !.opens = (h :> 1 + (IF h \in DOMAIN @ THEN @[h] ELSE 0)) @@ @]
  IN IF path \in D.loaded THEN [d |-> D, res |-> "kLoadLibAlreadyLoaded"]
     ELSE IF ~CanOpen(D, path) THEN [d |-> D, res |-> "kLoadLibLoadError"]
     ELSE IF \E l \in D.dylibs : l[1] = h THEN [d |-> open, res |-> "kLoadLibAlreadyLoaded"]
     ELSE [d |-> [open EXCEPT !.dylibs = @ \cup {<<h, path>>}, !.loaded = @ \cup {path}],
           res |-> "kLoadLibSuccess"]

Close(D, path) ==
  LET entry == CHOOSE l \in D.dylibs : l[2] = path
  IN IF ~IsLoaded(D, path) THEN D
     ELSE [D EXCEPT !.opens[entry[1]] = @ - 1, !.dylibs = @ \ {entry}, !.loaded = @ \ {path}]

unloadLibrary(D, name) == Close(D, lookupLibrary(D.fs, D.paths, name))

-----------------------------------------------------------------------------
(* Scanning for libraries that are not loaded.                               *)
ShouldPermanentlyIgnore(D, p) ==
  \/ ~isSharedLibrary(D.fs, p)
  \/ IsLoaded(D, p)
  \/ FileAt(D.fs, p).foreign
  \/ FileAt(D.fs, p).debug

RegisterLib(D, p, system) == IF system THEN [D EXCEPT !.sys = Append(@, p)] ELSE [D EXCEPT !.libs = Append(@, p)]

Unregister(libs, ps) == SelectSeq(libs, LAMBDA p : p \notin ps)

(* Heuristics H1 and H2: what a library needs is looked at only when its     *)
(* RPATH or RUNPATH leads somewhere that is not searched anyway.             *)
LooksAtNeeded(D, e) ==
  \E r \in ToSet(e.rpath \o e.runpath) :
    r.origin \/ \A i \in DOMAIN D.paths : D.paths[i].path # r.path

RECURSIVE HandleLib(_, _, _, _)
HandleLib(D, p, level, system) ==
  LET e == FileAt(D.fs, p)
  IN IF p \in ToSet(D.libs) \cup ToSet(D.sys) \/ ShouldPermanentlyIgnore(D, p) THEN D
     ELSE IF level = 0 /\ e.pie THEN D
     ELSE IF ~LooksAtNeeded(D, e) THEN RegisterLib(D, p, system)
     ELSE FoldSet(LAMBDA d, E : HandleLib(E, lookupNeeded(D.fs, D.paths, d, e, p), level + 1, system),
                  RegisterLib(D, p, system), e.needs)

RealPath(D, p) == cached_realpath(D.fs, D.c, p, NoPath, LoopLevel)

HandleReal(D, p, system) ==
  IF Entry(D.fs, p).kind = "directory" THEN D ELSE HandleLib(D, p, 0, system)

(* A directory entry: a file, or a link that does not lead to a directory.   *)
HandleEntry(D, p, system) ==
  LET HandleLink(real) == HandleReal([D EXCEPT !.c = real.c], real.path, system)
  IN CASE D.fs[p].kind = "file" -> HandleLib(D, p, 0, system)
       [] D.fs[p].kind = "link" -> HandleLink(RealPath(D, p))
       [] OTHER -> D

EntriesOf(fs, dir) == {p \in DOMAIN fs : p # <<>> /\ Front(p) = dir}

(* A directory that has been scanned is not scanned again.                   *)
ScanDirectory(S, dir, system) ==
  IF Entry(S.d.fs, dir).kind # "directory" \/ dir \in S.scanned THEN S
  ELSE [d |-> FoldSet(LAMBDA p, F : HandleEntry(F, p, system), S.d, EntriesOf(S.d.fs, dir)),
        scanned |-> S.scanned \cup {dir}]

ScanForLibraries(D, system) ==
  LET ScanReal(S, real) == ScanDirectory([S EXCEPT !.d.c = real.c], real.path, system)
      Scan(S, searchPath) == IF searchPath.user = system THEN S
                             ELSE ScanReal(S, RealPath(S.d, searchPath.path))
  IN FoldLeft(Scan, [d |-> D, scanned |-> {}], D.paths).d

-----------------------------------------------------------------------------
(* The bloom filter of n symbols: one word of 64 bits for about 8 symbols;    *)
(* a hash sets two bits of one word.                                          *)
BloomSize(n) == (n * 8127 + 63999) \div 64000
BloomShift(n) == Min({6, Max({k \in 0..n : 2^k <= n})})
BloomBits(h, n) ==
  LET word == (h \div 64) % BloomSize(n)
  IN {<<word, h % 64>>, <<word, (h \div 2^BloomShift(n)) % 64>>}

MayExistSymbol(symbols, s) ==
  LET n == Cardinality(symbols)
  IN n > 0 /\ BloomBits(GNUHash[s], n) \subseteq UNION {BloomBits(GNUHash[t], n) : t \in symbols}

(* The table holds .symtab and .dynsym; .gnu.hash, when there is one, knows   *)
(* only what is exported.                                                     *)
ContainsSymbol(D, p, s) ==
  LET e == FileAt(D.fs, p)
      symbols == e.exports \cup e.locals
  IN e.kind = "file" /\ (e.hash => s \in e.exports) /\ MayExistSymbol(symbols, s) /\ s \in symbols

FirstWith(D, libs, s) ==
  LET found == SelectSeq(libs, LAMBDA p : ContainsSymbol(D, p, s))
  IN IF found = <<>> THEN NoPath ELSE Head(found)

(* A library that was suggested and has been loaded is no longer looked at.   *)
DropLoaded(D) ==
  LET done == {p \in D.queried : IsLoaded(D, p)}
  IN [D EXCEPT !.libs = Unregister(@, done), !.sys = Unregister(@, done)]

Answer(D, p) == [d |-> [D EXCEPT !.queried = @ \cup ({p} \ {NoPath})], res |-> p]

SearchSystem(D, s) == Answer(D, FirstWith(D, D.sys, s))

(* The system's libraries are scanned when no other has the symbol.           *)
SearchUser(D, s) ==
  LET p == FirstWith(D, D.libs, s)
  IN IF p # NoPath THEN Answer(D, p)
     ELSE SearchSystem(IF D.firstSys THEN [ScanForLibraries(D, TRUE) EXCEPT !.firstSys = FALSE] ELSE D, s)

(* [d, res]: the library to suggest for s.                                    *)
searchLibrariesForSymbol(D, s) ==
  SearchUser(DropLoaded(IF D.first THEN [ScanForLibraries(D, FALSE) EXCEPT !.first = FALSE] ELSE D), s)
=============================================================================
