------------------------------ MODULE TypeNames ------------------------------
(***************************************************************************)
(* Names of types: fully qualified ones, and partially desugared ones,     *)
(* such that what is printed names the same type in the global scope.      *)
(* A program p is a sequence of declarations; a type is a term.            *)
(***************************************************************************)
EXTENDS Integers, Sequences, FiniteSets, SequencesExt, FiniteSetsExt, TLC

TU == 0
None == -1

-----------------------------------------------------------------------------
(* Types (clang::Type): q is the set of local qualifiers.                    *)
Builtin(n) == [c |-> "builtin", n |-> n, q |-> {}]
Tag(d) == [c |-> "tag", d |-> d, q |-> {}]
Typedef(d) == [c |-> "typedef", d |-> d, q |-> {}]
Using(d) == [c |-> "using", d |-> d, q |-> {}]
Inst(d, args) == [c |-> "inst", d |-> d, args |-> args, q |-> {}]
Of(c, t) == [c |-> c, of |-> t, q |-> {}]          \* pointer, reference, array, function, auto, subst
Elaborated(prefix, t) == [c |-> "elaborated", prefix |-> prefix, of |-> t, q |-> {}]
Nothing == [c |-> "nothing", q |-> {}]
AddQuals(t, q) == [t EXCEPT !.q = @ \cup q]
Const(t) == AddQuals(t, {"const"})

(* Template arguments, and the components of a nested name specifier. *)
TypeArg(t) == [k |-> "type", t |-> t]
Pack(args) == [k |-> "pack", args |-> args]
TemplateArg(prefix, d) == [k |-> "template", prefix |-> prefix, d |-> d]
Global == [k |-> "global"]
Namespace(d) == [k |-> "namespace", d |-> d]
Alias(d) == [k |-> "alias", d |-> d]
TypeSpec(t) == [k |-> "type", t |-> t]

IsNamespace(p, c) == c # TU /\ p[c].kind = "namespace"
IsTag(p, c) == c # TU /\ p[c].kind \in {"record", "enum", "pattern", "spec"}
Anonymous(p, c) == IsNamespace(p, c) /\ p[c].name = ""
First(p, c) == IF c = TU THEN TU ELSE p[c].first
TypeOf(p, d) == CASE p[d].kind = "typedef" -> Typedef(d)
                  [] p[d].kind = "using" -> Using(d)
                  [] OTHER -> Tag(d)

(* The type that a sugared one stands for, and the canonical type. *)
Wrappers == {"pointer", "lvalue reference", "rvalue reference", "array"}
Under(p, t) == CASE t.c = "typedef" -> p[t.d].type
                 [] t.c = "using" -> TypeOf(p, p[t.d].target)
                 [] OTHER -> t.of

RECURSIVE Canonical(_, _), CanonicalArgs(_, _)
CanonicalArgs(p, args) ==
  FlattenSeq([i \in DOMAIN args |->
    CASE args[i].k = "type" -> <<TypeArg(Canonical(p, args[i].t))>>
      [] args[i].k = "pack" -> CanonicalArgs(p, args[i].args)
      [] args[i].k = "template" -> <<TemplateArg(<<>>, p[args[i].d].first)>>
      [] OTHER -> <<args[i]>>])
Canonical(p, t) ==
  CASE t.c \in {"builtin", "nothing"} -> t
    [] t.c = "tag" -> LET d == p[t.d].first
                      IN IF p[d].kind # "spec" THEN [t EXCEPT !.d = d]
                         ELSE AddQuals(Inst(p[d].target, CanonicalArgs(p, p[d].args)), t.q)
    [] t.c = "inst" /\ p[t.d].kind = "alias template" -> AddQuals(Canonical(p, p[t.d].type), t.q)
    [] t.c = "inst" -> [t EXCEPT !.d = p[t.d].first, !.args = CanonicalArgs(p, @)]
    [] t.c \in Wrappers \cup {"function"} -> [t EXCEPT !.of = Canonical(p, @)]
    [] OTHER -> AddQuals(Canonical(p, Under(p, t)), t.q)

(* getAsCXXRecordDecl, of a canonical type. *)
RecordNamed(p, k) ==
  CASE k.c = "tag" -> k.d
    [] k.c = "inst" -> Min({d \in DOMAIN p : p[d].kind = "spec" /\ p[d].target = k.d
                                             /\ CanonicalArgs(p, p[d].args) = k.args})
    [] OTHER -> None
RecordOf(p, t) == RecordNamed(p, Canonical(p, t))
DeclOf(p, t) == IF t.c \in {"typedef", "using", "tag"} THEN t.d ELSE RecordOf(p, t)

-----------------------------------------------------------------------------
(* Fully qualified types (utils::TypeName).                                  *)
SkipInline(p, n) ==
  LET up[c \in 0..Len(p)] == IF IsNamespace(p, c) /\ p[c].inline THEN up[p[c].in] ELSE c IN up[n]

RECURSIVE CreateOuterNNS(_, _, _), FullyQualified(_, _), QualifyLocal(_, _)

NamespaceNNS(p, n) ==
  LET s == SkipInline(p, n)
  IN IF s = TU THEN <<>> ELSE Append(CreateOuterNNS(p, s, TRUE), Namespace(s))
TagNNS(p, d, full) ==
  Append(CreateOuterNNS(p, d, full), TypeSpec(IF full THEN QualifyLocal(p, Tag(d)) ELSE Tag(d)))
CreateOuterNNS(p, d, full) ==
  LET c == p[d].in
      s == SkipInline(p, c)
  IN CASE IsNamespace(p, c) -> IF s = TU \/ Anonymous(p, s) THEN <<>> ELSE NamespaceNNS(p, s)
       [] IsTag(p, c) -> TagNNS(p, c, full)
       [] OTHER -> <<>>

(* A member of a class template's pattern is named by one of its instances.   *)
ScopeOfDecl(p, d, full) ==
  LET c == p[d].in
      specs == {s \in DOMAIN p : p[s].kind = "spec" /\ p[s].target = p[c].target}
  IN CASE IsNamespace(p, c) -> IF Anonymous(p, c) THEN <<>> ELSE NamespaceNNS(p, c)
       [] IsTag(p, c) -> TagNNS(p, IF p[c].kind = "pattern" /\ specs # {} THEN Min(specs) ELSE c, full)
       [] OTHER -> <<>>
CreateNestedNameSpecifierForScopeOf(p, t, full) ==
  LET ScopeOf(d) == IF d = None THEN <<>> ELSE ScopeOfDecl(p, d, full) IN ScopeOf(DeclOf(p, t))

(* Mutant: what is in front of a name stays as it was written. *)
NameSpecifierAsWritten(p, nns) == nns

AnonymousPrefix(p, nns) == Last(nns).k = "namespace" /\ Anonymous(p, Last(nns).d)
QualifySpec(p, s, d) ==
  IF d # None THEN TagNNS(p, d, TRUE) ELSE Append(CreateOuterNNS(p, s.t.d, TRUE), s)
GetFullyQualifiedNameSpecifier(p, nns) ==
  LET s == Last(nns)
  IN CASE s.k = "global" -> nns
       [] s.k = "type" -> QualifySpec(p, s, RecordOf(p, s.t))
       [] OTHER -> NamespaceNNS(p, IF s.k = "alias" THEN First(p, p[s.d].target) ELSE s.d)

(* An argument, and whether it is another one now. *)
Kept(a) == [arg |-> a, changed |-> FALSE]
NewType(a, t) == [arg |-> TypeArg(t), changed |-> t # a.t]
NewPrefix(a, nns) == [arg |-> [a EXCEPT !.prefix = nns], changed |-> nns # a.prefix]
QualifyTemplate(p, a) ==
  NewPrefix(a, IF a.prefix # <<>> THEN GetFullyQualifiedNameSpecifier(p, a.prefix)
               ELSE ScopeOfDecl(p, a.d, TRUE))

(* Whether a pack has changed is what its last element says. *)
Elements(a) == IF a.k = "pack" THEN a.args ELSE <<a>>
Regroup(a, of) ==
  CASE a.k # "pack" -> of[1]
    [] a.k = "pack" /\ of # <<>> /\ Last(of).changed ->
         [arg |-> Pack([i \in DOMAIN of |-> of[i].arg]), changed |-> TRUE]
    [] OTHER -> Kept(a)
QualifyElement(p, a) ==
  CASE a.k = "template" -> QualifyTemplate(p, a)
    [] a.k = "type" -> NewType(a, FullyQualified(p, a.t))
    [] OTHER -> Kept(a)
QualifyArg(p, a) == Regroup(a, [i \in DOMAIN Elements(a) |-> QualifyElement(p, Elements(a)[i])])

(* GetFullyQualifiedLocalType: the template arguments. *)
TemplateArgs(p, t) == IF t.c = "inst" THEN t.args
                      ELSE IF t.c = "tag" /\ p[t.d].kind = "spec" THEN p[t.d].args ELSE <<>>
WithArgs(p, t, of) ==
  IF \A i \in DOMAIN of : ~of[i].changed THEN t
  ELSE [Inst(IF t.c = "inst" THEN t.d ELSE p[t.d].target, [i \in DOMAIN of |-> of[i].arg])
        EXCEPT !.q = t.q]
QualifyLocal(p, t) ==
  LET args == TemplateArgs(p, t)
  IN WithArgs(p, t, [i \in DOMAIN args |-> QualifyArg(p, args[i])])

(* The prefix that is written is kept, qualified; a new one goes between the *)
(* qualifiers of the type and its name.                                      *)
Prefixed(prefix, t) == IF prefix = <<>> THEN t ELSE Elaborated(prefix, t)
QualifyWritten(p, written) ==
  IF written \in {<<>>, <<Global>>} \/ AnonymousPrefix(p, written) THEN <<>>
  ELSE GetFullyQualifiedNameSpecifier(p, written)
Requalified(p, t, q, prefix, moves) ==
  AddQuals(Prefixed(prefix, QualifyLocal(p, IF moves THEN [t EXCEPT !.q = {}] ELSE t)),
           IF moves THEN q \cup t.q ELSE q)
QualifyScope(p, t, q, prefix) == Requalified(p, t, q, prefix, prefix # <<>>)
QualifyNamed(p, t, q, kept) ==
  IF kept # <<>> THEN Requalified(p, t, q, kept, FALSE)
  ELSE QualifyScope(p, t, q, CreateNestedNameSpecifierForScopeOf(p, t, TRUE))

FullyQualified(p, t) ==
  LET elaborated == t.c = "elaborated"
  IN CASE t.c \in Wrappers \ {"array"} -> [t EXCEPT !.of = FullyQualified(p, @)]
       [] t.c = "auto" -> FullyQualified(p, t.of)
       [] t.c = "subst" -> FullyQualified(p, AddQuals(t.of, t.q))
       [] OTHER -> QualifyNamed(p, IF elaborated THEN t.of ELSE t, t.q,
                                IF elaborated THEN QualifyWritten(p, t.prefix) ELSE <<>>)

-----------------------------------------------------------------------------
(* Partially desugared types (utils::Transform): cfg.skip are the typedefs   *)
(* to keep, cfg.replace maps canonical types to the ones to show instead.    *)
NoConfig == [skip |-> {}, replace |-> <<>>]

SingleStepDesugars(t) == t.c \in {"typedef", "using", "subst", "elaborated"}
SingleStep(p, t) == AddQuals(Under(p, t), t.q)

(* Until nothing is left to do, or at a type that the configuration names.   *)
RECURSIVE DesugarTo(_, _, _)
DesugarTo(p, cfg, t) ==
  LET step == IF SingleStepDesugars(t) THEN SingleStep(p, t) ELSE t
      canon == [Canonical(p, step) EXCEPT !.q = {}]
  IN IF t.c = "typedef" /\ p[t.d].first \in cfg.skip THEN t
     ELSE IF canon \in DOMAIN cfg.replace THEN AddQuals(cfg.replace[canon], Canonical(p, step).q)
     ELSE IF SingleStepDesugars(t) THEN DesugarTo(p, cfg, step) ELSE t

RECURSIVE DesugaredNNS(_, _, _), PartiallyDesugared(_, _, _, _, _)

(* The specifier of a context, spelled as the user spelled it if it still is *)
(* the same context; and that of a type that is elaborated itself.           *)
SameRecord(p, nns, d) == nns # <<>> /\ Last(nns).k = "type" /\ RecordOf(p, Last(nns).t) = d
SelectPrefix(p, cfg, c, original) ==
  CASE IsNamespace(p, c) -> NamespaceNNS(p, First(p, c))
    [] IsTag(p, c) -> IF SameRecord(p, original, First(p, c)) THEN DesugaredNNS(p, cfg, original)
                      ELSE TagNNS(p, c, FALSE)
    [] OTHER -> <<>>
SelectPrefixOf(p, cfg, prefix, original) ==
  IF original = <<>> \/ prefix = <<>> THEN prefix
  ELSE DesugaredNNS(p, cfg,
         IF Last(prefix).k = "type" /\ SameRecord(p, original, RecordOf(p, Last(prefix).t))
         THEN original ELSE prefix)

Named(p, c) == c # TU /\ p[c].kind # "linkage" /\ p[c].name # ""

ScopeSpec(p, cfg, outer, d) ==
  CASE d # None -> IF Named(p, p[d].in) THEN SelectPrefix(p, cfg, p[d].in, outer) ELSE <<>>
    [] d = None /\ outer # <<>> -> DesugaredNNS(p, cfg, outer)
    [] OTHER -> <<>>
OuterSpec(p, cfg, outer, t) ==
  CASE t.c # "elaborated" -> ScopeSpec(p, cfg, outer, DeclOf(p, t))
    [] t.c = "elaborated" /\ outer # <<>> -> SelectPrefixOf(p, cfg, t.prefix, outer)
    [] OTHER -> DesugaredNNS(p, cfg, t.prefix)
DesugaredSpec(p, cfg, outer, t) ==
  Append(OuterSpec(p, cfg, outer, t), TypeSpec(IF t.c = "elaborated" THEN t.of ELSE t))
DesugaredNNS(p, cfg, nns) ==
  IF Last(nns).k # "type" THEN GetFullyQualifiedNameSpecifier(p, nns)
  ELSE DesugaredSpec(p, cfg, Front(nns), PartiallyDesugared(p, cfg, Last(nns).t, FALSE, TRUE))

(* An argument: as it was written in front of an alias or a template, or of  *)
(* an instance; an expression is replaced by the argument of the instance    *)
(* that it stands for.                                                       *)
Sugared(t) == t.c \in {"typedef", "using", "inst", "elaborated"}
DesugarElement(p, cfg, a, fullType, fullArg) ==
  CASE a.k = "template" -> QualifyTemplate(p, a)
    [] a.k = "type" /\ (Sugared(a.t) \/ fullArg) ->
         NewType(a, PartiallyDesugared(p, cfg, a.t, fullType, fullArg))
    [] OTHER -> Kept(a)
Renewed(a, new, written) == IF a.k = "type" /\ ~written THEN [new EXCEPT !.changed = TRUE] ELSE new
DesugarArg(p, cfg, a, fullType, fullArg, written) ==
  Regroup(a, [i \in DOMAIN Elements(a) |->
    Renewed(Elements(a)[i], DesugarElement(p, cfg, Elements(a)[i], fullType \/ ~written, fullArg), written)])
DesugarArgs(p, cfg, t, fullType, fullArg) ==
  LET args == TemplateArgs(p, t)
      written == t.c = "inst"
  IN IF ~written /\ ~fullArg THEN t
     ELSE WithArgs(p, t, [i \in DOMAIN args |->
            CASE written /\ args[i].k = "expression" ->
                   [arg |-> Canonical(p, t).args[i], changed |-> TRUE]
              [] written /\ args[i].k = "pack" -> Kept(args[i])
              [] OTHER -> DesugarArg(p, cfg, args[i], fullType, fullArg, written)])

(* The context that two specifiers agree on: a class, or the namespace that  *)
(* both stand for - neither of them one.                                     *)
NamespaceOf(p, nns) == CASE Last(nns).k = "namespace" -> First(p, Last(nns).d)
                         [] Last(nns).k = "alias" -> First(p, p[Last(nns).d].target)
                         [] OTHER -> None
SameContext(p, original, c) ==
  IF Last(original).k = "type" THEN SameRecord(p, original, First(p, c))
  ELSE NamespaceOf(p, original) = (IF IsNamespace(p, c) THEN First(p, c) ELSE None)
PrefixFor(p, cfg, original, c) ==
  LET same == original # <<>> /\ SameContext(p, original, c)
  IN CASE ~Named(p, c) -> <<>>
       [] Named(p, c) /\ IsNamespace(p, c) /\ ~same -> NamespaceNNS(p, c)
       [] Named(p, c) /\ (same \/ IsTag(p, c)) ->
            DesugaredNNS(p, cfg, IF same THEN original ELSE TagNNS(p, c, FALSE))
       [] OTHER -> <<>>

(* GetPartiallyDesugaredTypeImpl, of a type that is not a compound one: with *)
(* original, the prefix that was written, outer, the qualifiers before it,    *)
(* type: fullyQualifyType, and arg: fullyQualifyTmpltArg.                     *)
OriginalPrefix(p, t) == IF t.c = "elaborated" /\ t.prefix # <<>> /\ ~AnonymousPrefix(p, t.prefix)
                        THEN t.prefix ELSE <<>>
(* The type without its prefix, the new prefix, and the qualifiers before    *)
(* it: those of the type itself, if there was no prefix.                     *)
ScopeRespelled(p, cfg, t, d, how) ==
  LET scoped == how.type /\ d # None
      moves == scoped /\ how.original = <<>> /\ Named(p, p[d].in)
  IN [t |-> IF moves THEN [t EXCEPT !.q = {}] ELSE t,
      prefix |-> IF scoped THEN PrefixFor(p, cfg, how.original, p[d].in) ELSE <<>>,
      q |-> IF moves THEN t.q ELSE how.outer]
Respelled(p, cfg, t, how) ==
  IF t.c # "elaborated" THEN ScopeRespelled(p, cfg, t, DeclOf(p, t), how)
  ELSE [t |-> [t.of EXCEPT !.q = {}], prefix |-> SelectPrefixOf(p, cfg, t.prefix, how.original),
        q |-> how.outer \cup t.q]

DesugarRest(p, cfg, new, how) ==
  IF new.t.c = "inst" /\ p[new.t.d].kind = "alias template"
  THEN PartiallyDesugared(p, cfg, p[new.t.d].type, how.type, how.arg)
  ELSE AddQuals(Prefixed(new.prefix, DesugarArgs(p, cfg, new.t, how.type, how.arg)),
                IF new.prefix # <<>> \/ how.original # <<>> THEN new.q ELSE {})
DesugarBase(p, cfg, t, how) ==
  CASE t.c = "typedef" /\ p[t.d].first \in cfg.skip /\ ~how.type /\ ~how.arg -> t
    [] t.c \in Wrappers -> PartiallyDesugared(p, cfg, t, how.type, how.arg)
    [] OTHER -> DesugarRest(p, cfg, Respelled(p, cfg, t, how), how)

DesugarNamed(p, cfg, t, original, fullType, fullArg) ==
  LET written == original # <<>>
  IN DesugarBase(p, cfg, DesugarTo(p, cfg, IF written THEN [t.of EXCEPT !.q = {}] ELSE t),
                 [original |-> original, outer |-> IF written THEN t.q ELSE {},
                  type |-> fullType \/ written, arg |-> fullArg])

RECURSIVE Desugared(_, _)
Desugared(p, t) == IF t.c \in {"typedef", "using", "subst", "elaborated", "auto"}
                   THEN Desugared(p, SingleStep(p, t)) ELSE t

PartiallyDesugared(p, cfg, t, fullType, fullArg) ==
  CASE cfg = NoConfig /\ ~fullType /\ ~fullArg -> Desugared(p, t)
    [] t.c \in Wrappers -> [t EXCEPT !.of = PartiallyDesugared(p, cfg, @, fullType, fullArg)]
    [] t.c = "subst" -> PartiallyDesugared(p, cfg, SingleStep(p, t), fullType, fullArg)
    [] OTHER -> DesugarNamed(p, cfg, t, OriginalPrefix(p, t), fullType, fullArg)

=============================================================================
