------------------------------ MODULE NameLookup ------------------------------
(***************************************************************************)
(* Names of types and scopes, as LookupHelper reads them: the quick way,   *)
(* scope by scope without the parser, and what the parser makes of them.   *)
(*                                                                         *)
(* A name is [const: "const " stands first, path, ops: what follows, of    *)
(* "*", "&", "&&" and "const", spaced: a blank stands before ops].  A path *)
(* is a sequence of [n: identifier, args: names of template arguments].    *)
(***************************************************************************)
EXTENDS TypeNames

Ident(n) == [n |-> n, args |-> <<>>]
NameOf(path) == [const |-> FALSE, path |-> path, ops |-> <<>>, spaced |-> FALSE]

-----------------------------------------------------------------------------
(* Name lookup (utils::Lookup).  p[d].def says that a class is complete.     *)
(* A declaration is visible in its context, and in those around it that see  *)
(* through linkage specifications and inline namespaces.                      *)
SeesThrough(p, c) == c # TU /\ (p[c].kind = "linkage" \/ (IsNamespace(p, c) /\ p[c].inline))
Contexts(p, d) ==
  LET up[c \in 0..Len(p)] == {First(p, c)} \cup (IF SeesThrough(p, c) THEN up[p[c].in] ELSE {})
  IN up[p[d].in]
Nameless == {"absent", "pattern", "spec", "parameter", "friend", "empty", "partial", "linkage",
             "using directive", "function instance"}
Direct(p, n, c) == {d \in DOMAIN p : p[d].name = n /\ p[d].kind \notin Nameless /\ n # ""
                                     /\ c \in Contexts(p, d)}
Underlying(p, d) == IF p[d].kind = "using" THEN p[p[d].target].first ELSE p[d].first

(* The namespaces that using directives nominate; an unnamed one is, as well.  *)
Nominated(p, c) ==
  {First(p, p[d].target) : d \in {x \in DOMAIN p : p[x].kind = "using directive" /\ c \in Contexts(p, x)}}
  \cup {p[d].first : d \in {x \in DOMAIN p : Anonymous(p, x) /\ c \in Contexts(p, x)}}
RECURSIVE Reaches(_, _)
Reaches(p, cs) == LET more == cs \cup UNION {Nominated(p, c) : c \in cs}
                  IN IF more = cs THEN cs ELSE Reaches(p, more)

(* Unqualified, from the global scope: what is nominated counts as global.     *)
(* Qualified: only if there is nothing in the scope itself.                     *)
Unqualified == -2
LookupIn(p, n, c, Accepts(_)) ==
  LET from == IF c = Unqualified THEN TU ELSE First(p, c)
      in(scopes) == UNION {{d \in Direct(p, n, s) : Accepts(d)} : s \in scopes}
      reached(own) == IF c # Unqualified /\ own # {} THEN own
                      ELSE own \cup in(Reaches(p, Nominated(p, from)))
  IN reached(in({from}))

(* LookupResult::resolveKind: a class is hidden by what else has its name in    *)
(* its scope.                                                                   *)
Resolve(p, ds) ==
  LET hidden(d) == IsTag(p, d) /\ \E x \in ds : ~IsTag(p, x) /\ p[x].kind # "namespace"
                                                /\ First(p, p[x].in) = First(p, p[d].in)
  IN {Underlying(p, d) : d \in {x \in ds : ~hidden(x)}}

(* Lookup::Named: one declaration, none, or several.                            *)
Several == -3
OnlyOne(found) == IF found = {} THEN None ELSE IF Cardinality(found) > 1 THEN Several ELSE Min(found)
Named_(p, n, c) == OnlyOne(Resolve(p, LookupIn(p, n, c, LAMBDA d : TRUE)))

(* What the parser looks for in front of ::.                                    *)
ScopeKinds == {"namespace", "namespace alias", "record", "enum", "typedef", "template", "alias template"}
NotSeveral(d) == IF d = Several THEN None ELSE d
NestedName(p, n, c) ==
  IF c = None THEN None ELSE NotSeveral(OnlyOne(Resolve(p, LookupIn(p, n, c, LAMBDA d : p[Underlying(p, d)].kind \in ScopeKinds))))

Definition(p, d) == LET defs == {x \in DOMAIN p : p[x].first = p[d].first /\ p[x].kind = p[d].kind /\ p[x].def}
                    IN IF defs = {} THEN None ELSE Min(defs)
(* An instance can be made of a template that is defined. *)
Completable(p, d) == p[d].kind = "spec" /\ p[p[d].target].def
Incomplete(p, c) == c \notin {TU, Unqualified} /\ IsTag(p, c) /\ Definition(p, c) = None /\ ~Completable(p, c)
TagOf(p, d) == IF p[d].kind = "typedef"
               THEN LET k == Canonical(p, p[d].type)
                    IN IF k.c \in {"tag", "inst"} THEN RecordOf(p, k) ELSE None
               ELSE IF IsTag(p, d) THEN d ELSE None

-----------------------------------------------------------------------------
(* The parser (external): types and scopes named from the global scope.         *)
Keywords == {"int", "char", "signed char", "unsigned char", "unsigned", "void", "double"}

RECURSIVE ParseType(_, _), ParseScope(_, _)
SpecNamed(p, t) == {d \in DOMAIN p : p[d].kind = "spec" /\ p[d].target = t.d
                                     /\ CanonicalArgs(p, p[d].args) = CanonicalArgs(p, t.args)}
GivenArgs(p, d, given) ==
  LET k == p[d].kind
      bad == \E i \in DOMAIN given : given[i].t = Nothing
  IN CASE k \in {"typedef", "record", "enum"} /\ given = <<>> -> TypeOf(p, d)
       [] k \in {"template", "alias template"} /\ given # <<>> /\ ~bad -> Inst(d, given)
       [] OTHER -> Nothing
TypeAt(p, d, args) == GivenArgs(p, d, [i \in DOMAIN args |-> TypeArg(ParseType(p, args[i]))])

(* What a path leads to: a scope (a declaration, TU, or None), of a type when   *)
(* it is one.                                                                   *)
ScopeOfCanonical(p, k) ==
  CASE k.c = "tag" -> k.d
    [] k.c = "inst" -> IF SpecNamed(p, k) = {} THEN None ELSE Min(SpecNamed(p, k))
    [] OTHER -> None
ScopeOf(c) == [c |-> c, t |-> Nothing]
ScopeOfType(p, t) == [c |-> IF t = Nothing THEN None ELSE ScopeOfCanonical(p, Canonical(p, t)), t |-> t]
ScopeAt(p, d, args) ==
  CASE d = None -> ScopeOf(None)
    [] d # None /\ p[d].kind = "namespace" -> ScopeOf(d)
    [] d # None /\ p[d].kind = "namespace alias" -> ScopeOf(First(p, p[d].target))
    [] OTHER -> ScopeOfType(p, TypeAt(p, d, args))
ScopeIn(p, outer, s) ==
  CASE outer.c = None -> outer
    [] outer.c # None /\ Incomplete(p, outer.c) -> ScopeOf(None)
    [] OTHER -> ScopeAt(p, NestedName(p, s.n, outer.c), s.args)
ParseScope(p, path) ==
  IF path \in {<<>>, <<Ident("")>>} THEN ScopeOf(TU)
  ELSE ScopeIn(p, IF Len(path) = 1 THEN ScopeOf(Unqualified) ELSE ParseScope(p, Front(path)), Last(path))

TypeNamed(p, d, args) == IF d \in {None, Several} THEN Nothing ELSE TypeAt(p, d, args)
BaseIn(p, c, s) ==
  IF c = None \/ Incomplete(p, c) THEN Nothing ELSE TypeNamed(p, Named_(p, s.n, c), s.args)
Base(p, path) ==
  LET s == Last(path)
  IN CASE path = <<>> -> Nothing
       [] Len(path) = 1 /\ s.n \in Keywords /\ s.args = <<>> -> Builtin(IF s.n = "unsigned" THEN "unsigned int" ELSE s.n)
       [] OTHER -> BaseIn(p, IF Len(path) = 1 THEN Unqualified ELSE ParseScope(p, Front(path)).c, s)

IsReference(p, t) == Canonical(p, t).c \in {"lvalue reference", "rvalue reference"}
WrittenReference(t) == t.c \in {"lvalue reference", "rvalue reference"}
Operator(op) == CASE op = "*" -> "pointer" [] op = "&" -> "lvalue reference" [] op = "&&" -> "rvalue reference"
(* References collapse only through a typedef, and are never const.             *)
Apply(p, t, op) ==
  CASE t = Nothing -> t
    [] op = "const" -> IF WrittenReference(t) THEN Nothing ELSE IF IsReference(p, t) THEN t ELSE Const(t)
    [] op = "*" -> IF IsReference(p, t) THEN Nothing ELSE Of("pointer", t)
    [] WrittenReference(t) -> Nothing
    [] IsReference(p, t) /\ (op = "&&" \/ Canonical(p, t).c = "lvalue reference") -> t
    [] IsReference(p, t) -> Of("lvalue reference", Canonical(p, t).of)
    [] OTHER -> Of(Operator(op), t)
ParseType(p, nm) ==
  FoldLeft(LAMBDA t, op : Apply(p, t, op), Base(p, nm.path),
           (IF nm.const THEN <<"const">> ELSE <<>>) \o nm.ops)

-----------------------------------------------------------------------------
(* quickFindDecl: [sure: no other lookup is needed, d].  A character that is not   *)
(* part of an identifier, after the last one unless clean, is left to the parser.  *)
Sure(d) == [sure |-> TRUE, d |-> d]
Unsure == [sure |-> FALSE, d |-> None]

(* The scope that a component leads to; functions are scopes of nothing, and     *)
(* neither variables nor aliases of namespaces are.                              *)
NoScope == [sure |-> TRUE, c |-> None]
(* Mutant: typedefs are not seen through. *)
QuickScopeOfTags(p, d) ==
  CASE d = Several -> [sure |-> FALSE, c |-> None]
    [] d = None -> NoScope
    [] OTHER -> IF p[d].kind \in {"namespace", "function"} THEN [sure |-> TRUE, c |-> d]
                ELSE IF Definition(p, d) # None THEN [sure |-> TRUE, c |-> Definition(p, d)] ELSE NoScope

(* RequireCompleteDeclContext *)
QuickScopeOfTag(p, tag) ==
  CASE tag = None -> NoScope
    [] tag # None /\ Definition(p, tag) # None -> [sure |-> TRUE, c |-> Definition(p, tag)]
    [] OTHER -> IF p[tag].kind = "spec" THEN [sure |-> FALSE, c |-> None] ELSE NoScope
QuickScope(p, d) ==
  CASE d = Several -> [sure |-> FALSE, c |-> None]
    [] d = None -> NoScope
    [] OTHER -> IF p[d].kind \in {"namespace", "function"} THEN [sure |-> TRUE, c |-> d]
                ELSE QuickScopeOfTag(p, TagOf(p, d))

RECURSIVE QuickFrom(_, _, _, _)
QuickStep(p, path, clean, next) ==
  CASE ~next.sure -> Unsure
    [] next.sure /\ next.c = None -> Sure(None)
    [] OTHER -> QuickFrom(p, path, clean, next.c)
QuickName(p, path, clean, d) ==
  CASE Len(path) > 1 -> QuickStep(p, Tail(path), clean, QuickScope(p, d))
    [] Len(path) = 1 /\ (d = Several \/ ~clean) -> Unsure
    [] OTHER -> Sure(d)
QuickFrom(p, path, clean, sofar) ==
  LET s == Head(path)
  IN IF s.args # <<>> THEN Unsure
     ELSE QuickName(p, path, clean,
            IF sofar \notin {Unqualified, TU} /\ p[sofar].kind = "function" THEN None ELSE Named_(p, s.n, sofar))
quickFindDecl(p, path, clean) == IF path = <<>> THEN Unsure ELSE QuickFrom(p, path, clean, Unqualified)

(* findBuiltinType: some are missing, and a plain char is taken for a signed one. *)
QuickBuiltins == {"int", "char", "signed char", "unsigned char", "double"}
findBuiltinType(path) ==
  IF Len(path) = 1 /\ path[1].n \in QuickBuiltins
  THEN Builtin(IF path[1].n = "char" THEN "signed char" ELSE path[1].n) ELSE Nothing

(* quickFindType: [sure, t].  The pointers and references are applied from the   *)
(* right; && loses one character only, so that the other one is found.           *)
AddConst(p, t) == IF IsReference(p, t) THEN t ELSE Const(t)
RawApply(p, t, op) == IF op = "&" /\ IsReference(p, t) THEN Of("lvalue reference", Canonical(p, t).of)
                      ELSE Of(Operator(op), t)
Outer(nm) == nm.ops # <<>> /\ Last(nm.ops) = "const"
PtrRef(nm) == IF Outer(nm) THEN Front(nm.ops) ELSE nm.ops
Clean(nm) == (\A i \in DOMAIN PtrRef(nm) : PtrRef(nm)[i] \in {"*", "&"}) /\ (nm.spaced => PtrRef(nm) = <<>>)
QuickBuiltin(nm) == IF Clean(nm) THEN findBuiltinType(nm.path) ELSE Nothing
QuickQualified(p, nm, base) ==
  LET whole == FoldRight(LAMBDA op, t : RawApply(p, t, op), PtrRef(nm),
                         IF nm.const THEN AddConst(p, base) ELSE base)
  IN IF Outer(nm) THEN AddConst(p, whole) ELSE whole
QuickType(p, nm, quick) ==
  LET base == CASE quick.builtin # Nothing -> quick.builtin
                [] quick.builtin = Nothing /\ quick.d \notin {None, Several}
                   /\ p[quick.d].kind \in {"typedef", "record", "enum"} -> TypeOf(p, quick.d)
                [] OTHER -> Nothing
  IN [sure |-> quick.builtin # Nothing \/ quick.sure,
      t |-> IF base = Nothing THEN Nothing ELSE QuickQualified(p, nm, base)]
quickFindType(p, nm) ==
  QuickType(p, nm, [builtin |-> QuickBuiltin(nm)] @@ quickFindDecl(p, nm.path, Clean(nm)))

(* LookupHelper::findType.                                                       *)
OrParsed(p, nm, quick) == IF quick.sure THEN quick.t ELSE ParseType(p, nm)
findType(p, nm) == OrParsed(p, nm, quickFindType(p, nm))

-----------------------------------------------------------------------------
(* What clang prints (external): the name that a type reads as, NoName for what  *)
(* no name can be made of.  A scope is printed where no prefix stands, but not   *)
(* of an instance, and nowhere within what has a prefix.                         *)
NoName == NameOf(<<>>)

RECURSIVE Written(_, _, _), WrittenScope(_, _)
WrittenArg_(p, a, bare) == IF a.k = "type" THEN Written(p, a.t, bare) ELSE NoName
Component(p, n, args, bare) ==
  LET flat == FlattenSeq([i \in DOMAIN args |-> IF args[i].k = "pack" THEN args[i].args ELSE <<args[i]>>])
  IN [n |-> n, args |-> [i \in DOMAIN flat |-> WrittenArg_(p, flat[i], bare)]]
Readable(path) ==
  path # <<>> /\ \A i \in DOMAIN path : NoName \notin ToSet(path[i].args) /\ path[i].n # "(anonymous)"
(* The contexts of a declaration, None where one has no name. *)
WrittenScope(p, c) ==
  CASE c = TU -> <<>>
    [] c # TU /\ SeesThrough(p, c) -> WrittenScope(p, p[c].in)
    [] c # TU /\ (Anonymous(p, c) \/ p[c].kind \in {"pattern", "function"}) -> <<Ident("(anonymous)")>>
    [] OTHER -> Append(WrittenScope(p, p[c].in),
                       Component(p, p[c].name, IF p[c].kind = "spec" THEN p[c].args ELSE <<>>, FALSE))
WrittenPrefix(p, nns) ==
  FlattenSeq([i \in DOMAIN nns |->
    CASE nns[i].k = "global" -> <<Ident("")>>
      [] nns[i].k \in {"namespace", "alias"} -> <<Ident(IF p[nns[i].d].name = "" THEN "(anonymous)" ELSE p[nns[i].d].name)>>
      [] OTHER -> Written(p, nns[i].t, TRUE).path])
WithPath(t, path) == IF Readable(path) THEN [NameOf(path) EXCEPT !.const = "const" \in t.q] ELSE NoName
After(nm, op, q) == [nm EXCEPT !.ops = @ \o <<op>> \o (IF q = {} THEN <<>> ELSE <<"const">>), !.spaced = TRUE]
Op(c) == CASE c = "pointer" -> "*" [] c = "lvalue reference" -> "&" [] c = "rvalue reference" -> "&&"
Written(p, t, bare) ==
  LET inner == Written(p, t.of, bare)
      named == Written(p, t.of, TRUE)
  IN CASE t.c = "builtin" -> WithPath(t, <<Ident(t.n)>>)
       [] t.c \in {"tag", "typedef"} ->
            WithPath(t, (IF bare THEN <<>> ELSE WrittenScope(p, p[t.d].in))
                        \o <<Component(p, p[t.d].name, IF p[t.d].kind = "spec" THEN p[t.d].args ELSE <<>>, bare)>>)
       [] t.c = "inst" -> WithPath(t, <<Component(p, p[t.d].name, t.args, bare)>>)
       [] t.c = "elaborated" /\ t.prefix = <<>> -> Written(p, AddQuals(t.of, t.q), bare)
       [] t.c = "elaborated" ->
            IF t.of.q # {} \/ named = NoName THEN NoName
            ELSE WithPath(t, WrittenPrefix(p, t.prefix) \o named.path)
       [] t.c \in {"pointer", "lvalue reference", "rvalue reference"} ->
            IF inner = NoName THEN NoName ELSE After(inner, Op(t.c), t.q)
       [] OTHER -> NoName

=============================================================================
