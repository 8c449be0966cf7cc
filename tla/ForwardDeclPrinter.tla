-------------------------- MODULE ForwardDeclPrinter --------------------------
(***************************************************************************)
(* The forward declarations of a header: cling::ForwardDeclPrinter visits  *)
(* the declarations of the transaction that has included it, what each     *)
(* needs first, and leaves out what cannot be declared ahead.              *)
(*                                                                         *)
(* v is the visitor: [p: program, visited: m_Visited, skip: m_SkipFlag,     *)
(* out: m_StreamStack].  A line is [d: declaration, of: the template whose  *)
(* parameters stand before it, bare: an empty namespace].                   *)
(***************************************************************************)
EXTENDS TypeNames

Line(d) == [d |-> d, of |-> None, bare |-> FALSE]
Visitor(p) == [p |-> p, visited |-> <<>>, skip |-> FALSE, out |-> <<<<>>>>]

getCanonicalOrNamespace(p, d) == IF p[d].kind = "namespace" THEN d ELSE p[d].first
skipDecl(v) == [v EXCEPT !.skip = TRUE]
resetSkip(v) == [v EXCEPT !.skip = FALSE]
Mark(v, d, good) == [v EXCEPT !.visited = (getCanonicalOrNamespace(v.p, d) :> good) @@ @]
Print_(v, lines) == [v EXCEPT !.out[Len(v.out)] = @ \o lines]
PushStream(v) == [v EXCEPT !.out = Append(@, <<>>)]
PopStream(v) == [v EXCEPT !.out = Front(@)]
StreamEnds(v) == IF v.skip THEN PopStream(v) ELSE Print_(PopStream(v), Last(v.out))

(* The visits in order; those that stop at the first failure. *)
VisitAll(v, s, visit(_, _)) == FoldLeft(visit, v, s)
UntilSkip(v, s, visit(_, _)) == FoldLeft(LAMBDA w, x : IF w.skip THEN w ELSE visit(w, x), v, s)

(* What can be declared ahead at all (shouldSkip, shouldSkipImpl). *)
InFileContext(p, d) == p[d].in = TU \/ p[p[d].in].kind \in {"namespace", "linkage"}
Unprintable(p, d) ==
  CASE p[d].kind = "function" -> p[d].hidden
    [] p[d].kind = "function template" -> p[p[d].pattern].hidden
    [] p[d].kind \in {"record", "enum", "pattern"} -> p[d].name = ""
    [] p[d].kind = "variable" -> "const" \in p[d].type.q
    [] OTHER -> p[d].kind \in {"partial", "alias template"}
shouldSkip(v, d) ==
  v.skip \/ ~InFileContext(v.p, d) \/ v.p[d].builtin \/ Unprintable(v.p, d)

(* The redeclaration of a template that has its default arguments: the last  *)
(* one, in the order of redecls(), that goes back from d and around.         *)
Own(p, x, i) == p[x].defaults[i].k # "none"
Upto(p, x) == {y \in 1..x : p[y].first = p[x].first /\ p[y].kind = p[x].kind}
DefaultAt(p, x, i) == LET own == {y \in Upto(p, x) : Own(p, y, i)}
                      IN IF own = {} THEN [k |-> "none"] ELSE p[Max(own)].defaults[i]
HasDefaults(p, x) == \E i \in DOMAIN p[x].defaults : DefaultAt(p, x, i).k # "none"
WithDefaults(p, d) ==
  LET redecls == {x \in DOMAIN p : p[x].first = p[d].first /\ p[x].kind = p[d].kind}
      with == {x \in redecls : HasDefaults(p, x)}
      later == {x \in with : x > d}
  IN IF with = {} THEN d ELSE IF later # {} THEN Min(later) ELSE Min(with)

Listed(p, c) == SelectSeq([d \in DOMAIN p |-> d], LAMBDA d : p[d].in = c /\ p[d].listed)

RECURSIVE Visit(_, _), VisitType(_, _)

IfVisited(v, d) == IF v.skip THEN v ELSE Print_(v, <<Line(d)>>)
VisitNext(v, d) == IF v.skip THEN v ELSE Visit(v, d)
VisitQualType(v, t) == VisitType(v, FullyQualified(v.p, t))

VisitTemplateName(v, d) == VisitNext(v, d)
VisitElement(v, a) ==
  CASE a.k = "type" -> VisitType(v, a.t)
    [] a.k = "template" -> Visit(v, a.d)
    [] OTHER -> skipDecl(v)
VisitTemplateArgument(v, a) == VisitAll(v, Elements(a), VisitElement)

(* Nested types cannot be declared ahead; aliases and :: are not expected.    *)
VisitNestedNameSpecifier(v, nns) ==
  VisitAll(v, nns, LAMBDA w, s : IF s.k = "namespace" THEN Visit(w, s.d) ELSE skipDecl(w))

(* Function types and those named by a using-declaration are not expected,   *)
(* and pass.                                                                 *)
VisitType(v, t) ==
  CASE t.c \in Wrappers \cup {"auto", "elaborated"} -> VisitType(v, t.of)
    [] t.c = "dependent" -> VisitNestedNameSpecifier(v, t.prefix)
    [] t.c \in {"tag", "typedef", "parameter"} -> Visit(v, t.d)
    [] t.c = "inst" -> VisitTemplateName(UntilSkip(v, t.args, VisitTemplateArgument), t.d)
    [] OTHER -> v

(* A default argument that names a declaration is visited, not printed.       *)
VisitParameter(v, p) ==
  CASE p.k = "type" -> VisitQualType(v, p.t)
    [] p.k \in {"declaration", "template parameter"} -> Visit(v, p.d)
    [] p.k = "computed" -> skipDecl(v)
    [] OTHER -> v
PrintTemplateParameters(v, d) ==
  UntilSkip(v, [i \in DOMAIN v.p[d].defaults |-> DefaultAt(v.p, d, i)], VisitParameter)

(* The parameters stand before whatever is printed first for the pattern.     *)
PatternEnds(v, d) ==
  LET With(text) == [i \in DOMAIN text |-> IF i = 1 THEN [text[1] EXCEPT !.of = d] ELSE text[i]]
  IN IF v.skip THEN PopStream(v) ELSE Print_(PopStream(v), With(Last(v.out)))
VisitPattern(v, d) ==
  IF v.skip THEN v ELSE PatternEnds(Visit(PushStream(v), v.p[d].pattern), d)
VisitTemplateWith(v, d) == VisitPattern(PrintTemplateParameters(v, d), d)
VisitRedeclarableTemplateDecl(v, d) == VisitTemplateWith(v, WithDefaults(v.p, d))

(* Mutant: the skip flag leaks out of a skipped member. *)
VisitNamespaceDeclLeaking(v, d) ==
  LET each == VisitAll(v, Listed(v.p, d), Visit)
  IN IF each.skip /\ v.p[d].first = d THEN Print_(each, <<[Line(d) EXCEPT !.bare = TRUE]>>) ELSE each

NamespaceEnds(v, any, d) ==
  IF ~any /\ v.p[d].first = d THEN Print_(v, <<[Line(d) EXCEPT !.bare = TRUE]>>) ELSE v
VisitNamespaceDecl(v, d) ==
  LET After(y, any) == [v |-> resetSkip(y), any |-> any \/ ~y.skip]
      End(each) == NamespaceEnds(each.v, each.any, d)
  IN End(FoldLeft(LAMBDA w, x : After(Visit(w.v, x), w.any), [v |-> v, any |-> FALSE], Listed(v.p, d)))
VisitLinkageSpecDecl(v, d) ==
  VisitAll(v, Listed(v.p, d), LAMBDA w, x : resetSkip(Visit(w, x)))

VisitParams(v, d) ==
  IF v.skip THEN v ELSE StreamEnds(IfVisited(UntilSkip(PushStream(v), v.p[d].params, Visit), d))
VisitFunctionDecl(v, d) == VisitParams(VisitQualType(v, v.p[d].type), d)

(* The templates that a specialization names, and its arguments: nothing is  *)
(* printed of the specialization itself.                                     *)
VisitClassTemplateSpecializationDecl(v, d) ==
  VisitNext(VisitAll(v, v.p[d].args, VisitTemplateArgument), v.p[d].target)

VisitUsingDecl(v, d) == IfVisited(UntilSkip(v, <<v.p[d].target>>, Visit), d)

VisitKind(v, d) ==
  LET k == v.p[d].kind
  IN CASE k = "namespace" -> VisitNamespaceDecl(v, d)
       [] k = "linkage" -> VisitLinkageSpecDecl(v, d)
       [] k \in {"typedef", "variable"} -> IfVisited(VisitQualType(v, v.p[d].type), d)
       [] k = "function" -> VisitFunctionDecl(v, d)
       [] k \in {"template", "function template"} -> VisitRedeclarableTemplateDecl(v, d)
       [] k = "spec" -> VisitClassTemplateSpecializationDecl(v, d)
       [] k = "using directive" -> IfVisited(Visit(v, v.p[d].target), d)
       [] k = "using" -> VisitUsingDecl(v, d)
       [] k \in {"friend", "empty"} -> v
       [] OTHER -> Print_(v, <<Line(d)>>)   \* records, enums, namespace aliases, assertions

(* What was visited is not visited again; who needs what was left out learns  *)
(* of it.                                                                    *)
Noted(v, d) == IF v.skip THEN Mark(v, d, FALSE) ELSE v
Visit(v, d) ==
  LET c == getCanonicalOrNamespace(v.p, d)
  IN IF c \in DOMAIN v.visited THEN IF v.visited[c] THEN v ELSE skipDecl(v)
     ELSE Noted(IF shouldSkip(v, d) THEN skipDecl(v) ELSE VisitKind(Mark(v, d, TRUE), d), d)

(* The lines for all that the transaction has declared at top level.          *)
Printed(p) == VisitLinkageSpecDecl(Visitor(p), TU)
ForwardDeclare(p) == Printed(p).out[1]

-----------------------------------------------------------------------------
(* The headers that a line is annotated with: the innermost one that can be  *)
(* included by the name that included it, and the outermost one.             *)
Ends(s) == IF Len(s) > 1 THEN <<s[1], Last(s)>> ELSE s
prettyPrintAttributes(chain, reachable) ==
  LET names == SelectSeq(chain, LAMBDA h : h \in reachable)
  IN Ends(IF names = <<>> THEN chain ELSE names)

-----------------------------------------------------------------------------
(* What is right.                                                            *)
(* The declarations that a type names, None for what cannot be named ahead.   *)
(* Function types and those named by a using-declaration are overlooked.      *)
RECURSIVE Names(_, _), NamesArgs(_, _)
NamesArgs(p, args) ==
  UNION {CASE a.k = "type" -> Names(p, a.t) [] a.k = "pack" -> NamesArgs(p, a.args)
           [] a.k = "template" -> {a.d} [] OTHER -> {None} : a \in ToSet(args)}
Names(p, t) ==
  CASE t.c \in {"builtin", "using", "function"} -> {}
    [] t.c \in {"tag", "typedef", "parameter"} -> {t.d}
    [] t.c = "inst" -> {t.d} \cup NamesArgs(p, t.args)
    [] t.c = "dependent" -> {IF s.k = "namespace" THEN s.d ELSE None : s \in ToSet(t.prefix)}
    [] OTHER -> Names(p, t.of)

DefaultNames(p, a) == CASE a.k = "type" -> Names(p, a.t)
                        [] a.k \in {"declaration", "template parameter"} -> {a.d}
                        [] a.k = "computed" -> {None}
                        [] OTHER -> {}
Defaults(p, x) == [i \in DOMAIN p[x].defaults |-> DefaultAt(p, x, i)]

(* What the declaration of d names. *)
Needs(p, d) ==
  LET k == p[d].kind
      x == WithDefaults(p, d)
  IN CASE k \in {"typedef", "variable"} -> Names(p, p[d].type)
       [] k = "function" -> Names(p, p[d].type) \cup ToSet(p[d].params)
       [] k \in {"using", "using directive"} -> {p[d].target}
       [] k = "spec" -> NamesArgs(p, p[d].args) \cup {p[d].target}
       [] k \in {"template", "function template"} ->
            {p[x].pattern} \cup UNION {DefaultNames(p, a) : a \in ToSet(Defaults(p, x))}
       [] OTHER -> {}

RECURSIVE Declarable(_, _)
Declarable(p, d) ==
  /\ d # None
  /\ InFileContext(p, d) /\ ~p[d].builtin /\ ~Unprintable(p, d)
  /\ \A x \in Needs(p, d) : Declarable(p, x)

(* A line declares its entity, the template it is the pattern of, and its     *)
(* namespaces; an empty namespace is printed without those around it.         *)
Ancestors(p, d) ==
  LET up[c \in 0..Len(p)] == IF c = TU THEN {} ELSE {p[c].first} \cup up[p[c].in] IN up[p[d].in]
Declares(p, line) ==
  CASE line.bare -> IF p[line.d].in = TU THEN {p[line.d].first} ELSE {}
    [] line.of # None -> {p[line.d].first, p[line.of].first} \cup Ancestors(p, line.d)
    [] OTHER -> {p[line.d].first} \cup Ancestors(p, line.d)

(* Namespaces in namespaces, and those of what prints nothing, may get lost.  *)
Silent == {"friend", "empty", "spec"}
Hollow(p, n) == p[n].kind = "namespace"
                /\ (p[n].in # TU \/ \E d \in DOMAIN p : p[d].in = n /\ p[d].listed /\ p[d].kind \in Silent)

(* Default arguments come last, but those that name a declaration are lost.   *)
PrintsDefault(a) == a.k \in {"type", "literal"}
NoGap(p, d) == LET defaults == Defaults(p, d)
               IN \A i, j \in DOMAIN defaults :
                    i < j /\ PrintsDefault(defaults[i]) => PrintsDefault(defaults[j])
LosesDefault(p, d) == \E a \in ToSet(Defaults(p, d)) : a.k = "declaration"

(* The lines compile on their own: what each names has been declared before,  *)
(* patterns of templates have their parameters, no template comes twice.      *)
WellFormed(p, lines) ==
  \A i \in DOMAIN lines :
    LET d == lines[i].d
        of == lines[i].of
        needs == Needs(p, IF of # None THEN of ELSE d) \cup (IF of # None THEN Needs(p, d) ELSE {})
        before == UNION {Declares(p, lines[j]) : j \in 1..i-1}
    IN /\ \A x \in needs \ {d} : p[x].first \in before \/ Hollow(p, x) \/ p[x].first = p[d].first
       /\ (of # None) = \E t \in DOMAIN p : p[t].pattern = d
       /\ of # None => /\ p[of].pattern = d
                       /\ NoGap(p, of) \/ LosesDefault(p, of)
                       /\ \A j \in DOMAIN lines : j # i => p[lines[j].d].first # p[d].first

(* What could be declared is, and only that. *)
Exact(p, lines) ==
  \A d \in DOMAIN p :
    p[d].listed /\ p[d].first = d /\ p[d].kind \notin Silent \cup {"namespace", "linkage"}
    => (Declarable(p, d) <=> \E i \in DOMAIN lines : d \in {p[lines[i].d].first,
                               IF lines[i].of = None THEN None ELSE p[lines[i].of].first})

=============================================================================
