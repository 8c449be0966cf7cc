----------------------------- MODULE LibraryFiles -----------------------------
(***************************************************************************)
(* Files as DynamicLibraryManager and its Dyld see them.  A path is a       *)
(* sequence of names from the root; a file system maps the paths that have  *)
(* an entry to                                                              *)
(*   [kind |-> "directory"], [kind |-> "link", to, abs],                     *)
(*   [kind |-> "file", shared, foreign, debug, pie, exports, locals, hash,   *)
(*    needs, rpath, runpath]: a shared library when shared, of another       *)
(*    object format when foreign, stripped to debug information when debug;  *)
(*    hash says that it has a .gnu.hash section.                             *)
(* A name the user writes is [abs, path].                                    *)
(***************************************************************************)
EXTENDS Naturals, Sequences, FiniteSets, SequencesExt, TLC

CONSTANT LoopLevel  \* how many symbolic links are followed (40 in the code)

ASSUME LoopLevelAssumption == LoopLevel \in Nat \ {0}

NoPath == <<"">>  \* the empty string
Entry(fs, p) == IF p \in DOMAIN fs THEN fs[p] ELSE [kind |-> "none"]

-----------------------------------------------------------------------------
(* POSIX: the real path of items looked up in the directory at.              *)
RECURSIVE Walk(_, _, _, _)
Walk(fs, at, items, links) ==
  LET child == Append(at, Head(items))
      e == Entry(fs, child)
  IN CASE items = <<>> -> at
       [] items # <<>> /\ Entry(fs, at).kind # "directory" -> NoPath
       [] OTHER ->
            CASE Head(items) = "." -> Walk(fs, at, Tail(items), links)
              [] Head(items) = ".." -> Walk(fs, IF at = <<>> THEN at ELSE Front(at), Tail(items), links)
              [] e.kind = "link" -> IF links = 0 THEN NoPath
                                    ELSE Walk(fs, IF e.abs THEN <<>> ELSE at, e.to \o Tail(items), links - 1)
              [] e.kind = "none" -> NoPath
              [] OTHER -> Walk(fs, child, Tail(items), links)

NormalizePath(fs, p) == IF p = NoPath THEN NoPath ELSE Walk(fs, <<>>, p, LoopLevel)
FileAt(fs, p) == Entry(fs, NormalizePath(fs, p))

-----------------------------------------------------------------------------
(* cached_realpath: c.real has the answers for absolute paths, c.seen what   *)
(* lstat and readlink said.                                                  *)
NoCache == [real |-> <<>>, seen |-> <<>>]

cached_lstat(fs, c, p) == IF p \in DOMAIN c.seen THEN c.seen[p] ELSE Entry(fs, p)

RECURSIVE cached_realpath(_, _, _, _, _)

(* Mutant: a relative link is followed from the root. *)
FollowLinkFromRoot(fs, s, e, level) == cached_realpath(fs, s.c, e.to, NoPath, level - 1) @@ s

(* A link leads from the root, or from where it is.                          *)
FollowLink(fs, s, e, level) ==
  cached_realpath(fs, s.c, e.to, IF e.abs THEN NoPath ELSE s.path, level - 1) @@ s

(* The entry e that lstat finds at child.                                    *)
EnterItem(fs, s, child, e, level) ==
  CASE s.path = NoPath \/ e.kind = "none" -> [s EXCEPT !.lost = TRUE]
    [] s.path # NoPath /\ e.kind = "link" -> FollowLink(fs, s, e, level)
    [] OTHER -> [s EXCEPT !.path = child]

Remember(s, child, e) == [s EXCEPT !.c.seen = @ @@ (child :> e)]

(* One item of the path: s.path is what is resolved so far.                  *)
FollowItem(fs, s, item, level) ==
  LET child == Append(s.path, item)
      e == cached_lstat(fs, s.c, child)
  IN CASE s.lost \/ item = "." -> s
       [] ~s.lost /\ item = ".." -> [s EXCEPT !.path = IF @ \in {<<>>, NoPath} THEN <<>> ELSE Front(@)]
       [] OTHER -> EnterItem(fs, Remember(s, child, e), child, e, level)

(* A path from the root is remembered with its answer.                       *)
Resolved(path, base, end) ==
  LET real == IF end.lost THEN NoPath ELSE end.path
  IN [path |-> real,
      c |-> IF base = NoPath THEN [end.c EXCEPT !.real = @ @@ (path :> real)] ELSE end.c]

cached_realpath(fs, c, path, base, level) ==
  IF level = 0 \/ path = NoPath THEN [path |-> NoPath, c |-> c]
  ELSE IF base = NoPath /\ path \in DOMAIN c.real THEN [path |-> c.real[path], c |-> c]
  ELSE Resolved(path, base,
         FoldLeft(LAMBDA s, item : FollowItem(fs, s, item, level),
                  [path |-> IF base = NoPath THEN <<>> ELSE base, c |-> c, lost |-> FALSE], path))

-----------------------------------------------------------------------------
isSharedLibrary(fs, p) == LET e == FileAt(fs, p) IN e.kind = "file" /\ e.shared

WithExt(path) == Append(Front(path), Last(path) \o ".so")
WithLib(path) == Append(Front(path), "lib" \o Last(path))
StartsWithLib(path) == Len(Last(path)) >= 3 /\ SubSeq(Last(path), 1, 3) = "lib"

(* An entry of an RPATH is [origin, path]: relative to the loading library   *)
(* when origin.                                                              *)
substAll(r, libLoader) == IF r.origin THEN Front(libLoader) \o r.path ELSE r.path

FirstPath(paths) == IF paths = <<>> THEN NoPath ELSE Head(paths)

FirstShared(fs, dirs, stem) ==
  FirstPath(SelectSeq([i \in DOMAIN dirs |-> dirs[i] \o stem], LAMBDA p : isSharedLibrary(fs, p)))

lookupLibInPaths(fs, searchPaths, stem, rpath, runpath, libLoader) ==
  LET Subst(rs) == [i \in DOMAIN rs |-> substAll(rs[i], libLoader)]
  IN FirstShared(fs, Subst(rpath) \o [i \in DOMAIN searchPaths |-> searchPaths[i].path] \o Subst(runpath),
                 stem)

OrElse(found, other) == IF found # NoPath THEN found ELSE other

lookupLibMaybeAddExt(fs, searchPaths, stem) ==
  NormalizePath(fs, OrElse(lookupLibInPaths(fs, searchPaths, stem, <<>>, <<>>, NoPath),
                           lookupLibInPaths(fs, searchPaths, WithExt(stem), <<>>, <<>>, NoPath)))

(* The real path of the library called name = [abs, path]; rpath, runpath   *)
(* and the loading library for one that a library needs, whose name is not   *)
(* varied.  Cwd holds no libraries.                                          *)
lookupLibrary(fs, searchPaths, name) ==
  IF name.abs THEN IF isSharedLibrary(fs, name.path) THEN NormalizePath(fs, name.path) ELSE NoPath
  ELSE OrElse(lookupLibMaybeAddExt(fs, searchPaths, name.path),
              IF StartsWithLib(name.path) THEN NoPath
              ELSE lookupLibMaybeAddExt(fs, searchPaths, WithLib(name.path)))

lookupNeeded(fs, searchPaths, dep, lib, libLoader) ==
  NormalizePath(fs, lookupLibInPaths(fs, searchPaths, <<dep>>, lib.rpath, lib.runpath, libLoader))
=============================================================================
