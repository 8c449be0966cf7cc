-------------------------------- MODULE MCLang --------------------------------
(***************************************************************************)
(* What is known of declarations by name: the maps from which headers are  *)
(* loaded automatically (AutoloadCallback, ForwardDeclPrinter), and the     *)
(* lookups (LookupHelper), both on the names of types (utils::TypeName,     *)
(* utils::Transform), with programs for either.  A session is about one or  *)
(* the other.                                                              *)
(***************************************************************************)
EXTENDS Autoloading, LookupHelper

Init == AutoInit /\ LookupInit /\ (session.max = 0 \/ world.max = 0)
Next == \/ AutoNext /\ UNCHANGED lookupVars
        \/ LookupNext /\ UNCHANGED autoVars
vars == <<autoVars, lookupVars>>
Spec == Init /\ [][Next]_vars

-----------------------------------------------------------------------------
D(kind, name, in) ==
  [kind |-> kind, name |-> name, in |-> in, first |-> 0, inline |-> FALSE, type |-> Builtin("int"),
   args |-> <<>>, target |-> None, params |-> <<>>, defaults |-> <<>>, pattern |-> None,
   builtin |-> FALSE, hidden |-> FALSE, listed |-> TRUE, def |-> FALSE, chain |-> <<"top">>,
   const |-> FALSE, static |-> FALSE]
Linked(p) == [i \in DOMAIN p |-> IF p[i].first = 0 THEN [p[i] EXCEPT !.first = i] ELSE p[i]]
Again(first, d) == [d EXCEPT !.first = first]
In_(chain, d) == [d EXCEPT !.chain = chain]
Class(n, in) == [D("record", n, in) EXCEPT !.def = TRUE]
Alias_(n, in, t) == [D("typedef", n, in) EXCEPT !.type = t]
Unlisted(d) == [d EXCEPT !.listed = FALSE]
Pattern(n) == Unlisted(D("pattern", n, TU))
Template(n, defaults, pattern) == [D("template", n, TU) EXCEPT !.defaults = defaults, !.pattern = pattern]
Default(t) == [k |-> "type", t |-> t]
Arg(t) == <<TypeArg(t)>>
LRef(t) == Of("lvalue reference", t)
Pointer(t) == Of("pointer", t)
Elab(t) == Elaborated(<<>>, t)
IntType == Builtin("int")

-----------------------------------------------------------------------------
(* Maps: a header that includes another one, with templates that have default *)
(* arguments in either; and a header with one of everything.                  *)
Sub == <<"sub", "top">>
Templates == Linked(<<
  In_(Sub, Template("F", <<Default(IntType)>>, 2)), In_(Sub, Pattern("F")),
  In_(Sub, [Template("S", <<Default(IntType)>>, 4) EXCEPT !.def = TRUE]), In_(Sub, Pattern("S")),
  In_(Sub, [Class("K", TU) EXCEPT !.defaults = <<[k |-> "literal"]>>]),
  [Template("W", <<Default(Tag(5))>>, 7) EXCEPT !.def = TRUE], Pattern("W"),
  Again(1, [Template("F", <<None_>>, 9) EXCEPT !.def = TRUE]), Again(2, Pattern("F")),
  [D("function template", "g", TU) EXCEPT !.defaults = <<Default(IntType)>>, !.pattern = 11],
  Unlisted(D("function", "g", TU)) >>)
Kinds == Linked(<<
  D("record", "B", TU),
  Template("V", <<None_, None_>>, 3), Pattern("V"),
  D("record", "C", TU),
  Again(2, Template("V", <<None_, Default(Tag(8))>>, 6)), Again(3, Pattern("V")),
  D("namespace", "N", TU), D("record", "X", 7), Alias_("XP", 7, Pointer(Elab(Tag(8)))),
  D("record", "in", 8),
  Alias_("bad", TU, Pointer(Elaborated(<<Namespace(7), TypeSpec(Tag(8))>>, Tag(10)))),
  [D("variable", "v", TU) EXCEPT !.type = Typedef(11)],
  D("namespace", "M", 7), [D("function", "f", 13) EXCEPT !.type = Typedef(9)],
  [D("function", "g", TU) EXCEPT !.type = Typedef(9), !.params = <<16>>], Unlisted(D("parameter", "x", 15)),
  [D("using", "XP", TU) EXCEPT !.target = 9],
  [D("spec", "V", TU) EXCEPT !.target = 2, !.args = <<TypeArg(IntType), TypeArg(Tag(8))>>],
  D("linkage", "", TU), [D("variable", "w", 19) EXCEPT !.type = Pointer(Tag(4))],
  [D("variable", "cv", 19) EXCEPT !.type = Const(IntType)], D("enum", "E", 19),
  [D("using directive", "", TU) EXCEPT !.target = 7],
  D("empty", "", TU), D("friend", "", TU),
  Alias_("VT", TU, Inst(2, <<TypeArg(IntType), TypeArg(Tag(8))>>)),
  Alias_("again", TU, Pointer(Typedef(11))),
  D("namespace", "O", TU), [D("variable", "o", 28) EXCEPT !.type = Typedef(27)], D("record", "P", 28),
  [D("alias template", "AT", TU) EXCEPT !.type = IntType],
  [D("function", "op", TU) EXCEPT !.hidden = TRUE],
  Again(7, D("namespace", "N", TU)), Alias_("Y", 33, Pointer(Tag(1)))
  >>)
OneHeader == [p |-> [d \in DOMAIN Kinds |-> In_(<<"one">>, Kinds[d])], nested |-> [one |-> <<>>],
              reachable |-> {"one"}, tops |-> {"one"}, forward |-> {}, max |-> 4]
TwoHeaders(reachable) ==
  [p |-> Templates, nested |-> [top |-> <<"sub">>, sub |-> <<>>], reachable |-> reachable,
   tops |-> reachable, forward |-> {3, 6}, max |-> 6]
NoSession == [p |-> <<>>, nested |-> <<>>, reachable |-> {}, tops |-> {}, forward |-> {}, max |-> 0]
TheSessions == {OneHeader, TwoHeaders({"top", "sub"}), TwoHeaders({"top"}), NoSession}

-----------------------------------------------------------------------------
(* Lookups: scopes and types; functions; the parser and the string types.     *)
Ids(s) == [i \in DOMAIN s |-> Ident(s[i])]
Scopes == Linked(<<
  D("namespace", "N", TU), Class("A", 1), Class("In", 2),
  [D("namespace", "v1", 1) EXCEPT !.inline = TRUE], Class("B", 4),
  [D("namespace alias", "M", TU) EXCEPT !.target = 1],
  Alias_("T", TU, Elaborated(<<Namespace(1)>>, Tag(2))), Alias_("R", TU, LRef(Tag(2))), D("record", "F", TU),
  [Template("V", <<None_>>, 11) EXCEPT !.def = TRUE], Pattern("V"),
  Unlisted([D("spec", "V", TU) EXCEPT !.target = 10, !.args = Arg(IntType)]),
  Alias_("VI", TU, Inst(10, Arg(IntType))), Class("m", 12),
  Unlisted([D("spec", "V", TU) EXCEPT !.target = 10, !.args = Arg(Tag(2)), !.hidden = TRUE]), Class("m", 15),
  \* what comes later hides and completes
  [D("using directive", "", TU) EXCEPT !.target = 1],
  Again(9, Class("F", TU)), Class("G", 18), Class("X", TU), Class("Y", 20), D("variable", "X", TU),
  D("namespace", "", TU), Class("U", 23),
  Class("A", TU), Class("In", 25), D("function", "f", TU),
  [Template("W", <<None_>>, 29) EXCEPT !.def = TRUE, !.in = 1], [Pattern("W") EXCEPT !.in = 1],
  Unlisted([D("spec", "W", 1) EXCEPT !.target = 28, !.args = Arg(IntType), !.hidden = TRUE]) >>)
IntName == NameOf(Ids(<<"int">>))
NA == NameOf(Ids(<<"N", "A">>))
VOf(nm) == [n |-> "V", args |-> <<nm>>]
WOfInt == [n |-> "W", args |-> <<IntName>>]
Paths ==
  {Ids(s) : s \in {<<"int">>, <<"char">>, <<"void">>, <<"N">>, <<"N", "A">>, <<"N", "A", "In">>, <<"N", "B">>,
     <<"N", "v1", "B">>, <<"M", "A">>, <<"T">>, <<"T", "In">>, <<"R", "In">>, <<"F">>, <<"F", "G">>, <<"VI">>,
     <<"VI", "m">>, <<"", "A">>, <<"", "N", "A">>, <<"A">>, <<"A", "In">>, <<"X">>, <<"X", "Y">>, <<"U">>,
     <<"f", "In">>, <<"V">>, <<"Q">>, <<"Q", "A">>, <<"N", "A", "Q">>}}
  \cup {<<VOf(IntName)>>, <<VOf(IntName), Ident("m")>>, <<VOf(NA), Ident("m")>>, <<VOf(NameOf(Ids(<<"T">>)))>>,
        <<Ident("N"), WOfInt>>, <<Ident("M"), WOfInt>>}
Names_ ==
  {NameOf(p) : p \in Paths}
  \cup {[const |-> c, path |-> Ids(s), ops |-> ops, spaced |-> b] :
          c \in BOOLEAN, s \in {<<"N", "A">>, <<"int">>, <<"R">>}, b \in BOOLEAN,
          ops \in {<<"*">>, <<"&">>, <<"&&">>, <<"const">>, <<"*", "const">>, <<"*", "&">>, <<"*", "const", "*">>}}
Needing(d, ts) == {[t |-> t, d |-> d] : t \in ts}
Types_ ==
  Needing(14, {Elaborated(<<TypeSpec(Typedef(13))>>, Tag(14))})
  \cup Needing(13, {Elab(Tag(3)), Typedef(7), Elaborated(<<TypeSpec(Typedef(7))>>, Tag(3)),
                    Elaborated(<<Alias(6)>>, Tag(2)), Pointer(Const(Elab(Tag(5)))), Elaborated(<<Namespace(4)>>, Tag(5)), Inst(10, Arg(IntType)),
                    Typedef(13), Const(Pointer(Const(Typedef(7))))})
  \cup Needing(24, {Elab(Tag(24)), Elab(Tag(20)), LRef(Elaborated(<<TypeSpec(Tag(18))>>, Tag(19)))})
  \cup Needing(27, {Elab(Tag(25)), Elab(Tag(26)), Elab(Tag(2))})

Fun(n, in, params) == [D("function", n, in) EXCEPT !.params = params]
Parameter(t) == Unlisted([D("parameter", "", TU) EXCEPT !.type = t])
Functions_ == Linked(<<
  Class("K", TU), Parameter(IntType), Parameter(Builtin("double")), Parameter(LRef(Tag(1))),
  Parameter(LRef(Const(Tag(1)))), Parameter(Of("rvalue reference", Tag(1))),
  Fun("f", TU, <<2>>), Fun("f", TU, <<3>>), Fun("g", TU, <<4>>), Fun("g", TU, <<5>>),
  Fun("m", 1, <<>>), [Fun("m", 1, <<>>) EXCEPT !.const = TRUE],
  [Fun("s", 1, <<2>>) EXCEPT !.static = TRUE], Fun("K", 1, <<2>>), [Fun("r", 1, <<>>) EXCEPT !.const = TRUE],
  D("function template", "h", TU),
  [Fun("h", TU, <<2>>) EXCEPT !.kind = "function instance", !.target = 16, !.hidden = TRUE, !.args = Arg(IntType)],
  Fun("h", TU, <<3>>), Fun("g", TU, <<6>>), D("variable", "w", TU), D("namespace", "N", TU), Fun("f", 21, <<5>>) >>)
K(const, ops) == [const |-> const, path |-> Ids(<<"K">>), ops |-> ops, spaced |-> FALSE]
Prototypes ==
  {<<>>, <<IntName>>, <<NameOf(Ids(<<"double">>))>>, <<[IntName EXCEPT !.ops = <<"&">>]>>,
   <<[IntName EXCEPT !.const = TRUE]>>, <<K(FALSE, <<>>)>>, <<K(FALSE, <<"&">>)>>, <<K(TRUE, <<"&">>)>>,
   <<K(FALSE, <<"&&">>)>>, <<IntName, IntName>>, <<NameOf(Ids(<<"Q">>))>>}
Called == {<<TU, "f">>, <<TU, "g">>, <<1, "m">>, <<1, "s">>, <<1, "K">>, <<TU, "h">>, <<1, "r">>, <<TU, "w">>, <<21, "f">>}
Calls_ ==
  {[c |-> x[1], n |-> x[2], targs |-> <<>>, proto |-> proto, const |-> const] :
     const \in BOOLEAN, proto \in Prototypes, x \in Called}
  \cup {[c |-> TU, n |-> "h", targs |-> Arg(IntType), proto |-> <<IntName>>, const |-> FALSE]}

World(p, batches) == [p |-> p, batches |-> batches, names |-> {}, types |-> {}, calls |-> {},
                      string |-> None, max |-> 5, depth |-> 0]
NoWorld == [World(<<>>, <<>>) EXCEPT !.max = 0]
TheWorlds ==
  {[World(Scopes, <<16, 24, 30>>) EXCEPT !.names = Names_, !.types = Types_, !.max = 4],
   [World(Functions_, <<1, 18, 22>>) EXCEPT !.calls = Calls_],
   [World(Functions_, <<1, 8, 9>>) EXCEPT !.string = 8, !.max = 7, !.depth = 2],
   NoWorld}

=============================================================================
