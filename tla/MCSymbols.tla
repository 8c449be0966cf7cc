------------------------------ MODULE MCSymbols ------------------------------
EXTENDS Symbols

Directory == [kind |-> "directory"]
Link(to, abs) == [kind |-> "link", to |-> to, abs |-> abs]
Library(id, exports) ==
  [kind |-> "file", id |-> id, shared |-> TRUE, foreign |-> FALSE, debug |-> FALSE, pie |-> FALSE,
   exports |-> exports, locals |-> {}, hash |-> TRUE, needs |-> {}, rpath |-> <<>>, runpath |-> <<>>]
Dirs(names) == [p \in {<<>>} \cup {<<n>> : n \in names} |-> Directory]
Path(d, user) == [path |-> d, user |-> user]
Rel(n) == [abs |-> FALSE, path |-> <<n>>]
Abs(p) == [abs |-> TRUE, path |-> p]

M(strong, weak, uses) == [strong |-> strong, weak |-> weak, uses |-> uses, ctor |-> FALSE, wrapper |-> FALSE]
W(uses) == [M({}, {}, uses) EXCEPT !.wrapper = TRUE]
C(m) == [m EXCEPT !.ctor = TRUE]

Session == [fs |-> <<>>, paths |-> <<Path(<<"u">>, TRUE)>>, inputs |-> {}, files |-> {}, pragma |-> {},
            asks |-> {}, known |-> {}, new |-> <<>>, max |-> 5]

(* Code and libraries that come and go. *)
Uses ==
  [Session EXCEPT !.fs = Dirs({"u"}) @@ (<<"u", "libA.so">> :> Library(1, {"f"})) @@ (<<"u", "B.so">> :> Link(<<"libA.so">>, FALSE)),
     !.inputs = {W({"f"}), M({"g"}, {}, {"f"}), W({"g"}), C(M({"h"}, {}, {"f"}))},
     !.files = {Rel("A"), Rel("B")}, !.pragma = {Abs(<<"u", "libA.so">>)}]
Mixed ==
  [Uses EXCEPT !.fs = @ @@ (<<"u", "C.so">> :> [Library(2, {"k"}) EXCEPT !.needs = {"libA.so"}]),
     !.inputs = {W({"f", "k"}), W({"k"}), M({"f"}, {}, {})}, !.files = {Rel("A"), Rel("C")}, !.pragma = {}, !.asks = {"f"}, !.known = {"f"}]
Weak ==
  [Session EXCEPT !.fs = Dirs({"u"}) @@ (<<"u", "libA.so">> :> Library(1, {"w"})),
     !.inputs = {C(M({}, {"w"}, {})), M({"w"}, {}, {}), W({"w"}), M({}, {"w"}, {"f"})}, !.files = {Rel("A")}]

(* Directories and links. *)
Tree ==
  Dirs({"u", "v", "s", "l"})
  @@ (<<"u", "libA.so">> :> [Library(1, {"a"}) EXCEPT !.needs = {"libD.so"}, !.runpath = <<[origin |-> TRUE, path |-> <<"..", "l">>]>>])
  @@ (<<"u", "B.so">> :> Link(<<"l", "B.so">>, TRUE)) @@ (<<"u", "loop">> :> Link(<<"loop">>, FALSE))
  @@ (<<"w">> :> Link(<<"v">>, FALSE)) @@ (<<"v", "C.so">> :> [Library(3, {"c"}) EXCEPT !.hash = FALSE, !.locals = {"b"}])
  @@ (<<"v", "exe">> :> [Library(4, {"c"}) EXCEPT !.pie = TRUE]) @@ (<<"v", "up">> :> Link(<<"..", "u", ".">>, FALSE))
  @@ (<<"l", "B.so">> :> Library(2, {"b"})) @@ (<<"l", "libD.so">> :> Library(5, {"d"}))
  @@ (<<"s", "S.so">> :> Library(6, {"s", "a"})) @@ (<<"s", "X.so">> :> [Library(7, {"x"}) EXCEPT !.debug = TRUE])
  @@ (<<"s", "T.so">> :> Link(<<"gone", "T.so">>, TRUE))
Scans ==
  [Session EXCEPT !.fs = Tree, !.paths = <<Path(<<"u">>, TRUE), Path(<<"w">>, TRUE), Path(<<"v">>, TRUE), Path(<<"s">>, FALSE), Path(<<"none">>, TRUE)>>,
     !.inputs = {W({"b", "s"})}, !.files = {Rel("A"), Abs(<<"u", "B.so">>), Rel("C")}, !.asks = {"a", "b", "c", "s", "x", "d"},
     !.new = (<<"u", "N.so">> :> Library(8, {"x"})), !.max = 4]

Sessions_ == {Uses, Mixed, Weak, Scans}
Hash == [s \in {"a", "b", "c", "d", "f", "g", "h", "k", "s", "w", "x"} |->
           CASE s = "a" -> 4660 [] s = "b" -> 69 [] s = "c" -> 70 [] s = "s" -> 134 [] s = "x" -> 5381 [] s = "d" -> 4661 [] OTHER -> 177]
=============================================================================
