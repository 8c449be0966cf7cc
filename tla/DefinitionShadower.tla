-------------------------- MODULE DefinitionShadower --------------------------
(***************************************************************************)
(* DefinitionShadower: lets the prompt redefine what it has defined.  What *)
(* is typed goes to an inline namespace of its transaction, and what it    *)
(* clashes with is hidden.  A transaction is                               *)
(* [a: AST, queue, ns: its namespace, errors, opts].                       *)
(***************************************************************************)
EXTENDS Ast

IsWrapper(a, d) == a.decl[d].kind = "function" /\ a.decl[d].name = "__cling_Un1Qu3"

PatternOf(a, d) == CHOOSE e \in DOMAIN a.decl :
                     a.decl[e].kind \in {"pattern", "class pattern"} /\ a.decl[e].of = d

IsDefinition(a, d) ==
  CASE a.decl[d].kind \in Functions_ \cup Records \cup {"enum", "variable"} -> a.decl[d].def
    [] a.decl[d].kind \in Templates -> a.decl[PatternOf(a, d)].def
    [] OTHER -> TRUE

IsOverload(a, d, e) ==
  /\ a.decl[d].kind = a.decl[e].kind
  /\ a.decl[d].kind \in {"function", "function template"}
  /\ a.decl[d].sig # a.decl[e].sig

HideDecl(a, d) == ForgetIn([a EXCEPT !.scope = @ \ {d}], {TU}, d)

(* Mutant: the enumerators of a hidden enumeration stay. *)
InvalidatePreviousEnumOnly(a, d) ==
  LET hidden == {e \in Lookup(a, TU, a.decl[d].name) \ {d} :
                   ~(IsDefinition(a, e) /\ ~IsDefinition(a, d)) /\ ~IsOverload(a, d, e)}
      after == FoldSet(LAMBDA e, b : HideDecl(b, e), a, hidden)
  IN IF IsDefinition(a, d) THEN after ELSE [after EXCEPT !.decl[d].invalid = TRUE]

(* With an unscoped enumeration its enumerators are hidden. The declaration *)
(* finds itself too: one that is no definition is always marked invalid.    *)
InvalidatePrevious(a, d) ==
  LET previous == Lookup(a, TU, a.decl[d].name)
      hidden == {e \in previous \ {d} : /\ ~(IsDefinition(a, e) /\ ~IsDefinition(a, d))
                                        /\ ~IsOverload(a, d, e)}
      enumerators == {e \in DOMAIN a.decl : a.decl[e].kind = "enumerator" /\ a.decl[e].sem \in hidden}
      invalid == previous # {} /\ ~IsDefinition(a, d)
  IN [FoldSet(LAMBDA e, b : HideDecl(b, e), a, hidden \cup enumerators)
        EXCEPT !.decl[d].invalid = @ \/ invalid]

(* The declarations of a wrapper will move out of it. *)
LocalDecls(a, w) ==
  LET found == SelectSeq(a.decl[w].body, LAMBDA s : s[1] = "decl")
  IN [i \in DOMAIN found |-> found[i][2]]

InvalidatePreviousDefinitions(T, d) ==
  IF T.a.decl[d].kind \in LinkageSpecs THEN T.a  \* not a NamedDecl
  ELSE IF ~IsWrapper(T.a, d) THEN InvalidatePrevious(T.a, d)
  ELSE IF ~T.opts.extract THEN T.a
  ELSE FoldLeft(LAMBDA b, e : InvalidatePrevious(b, e), T.a, LocalDecls(T.a, d))

IsInstantiationOrSpecialization(a, d) == a.decl[d].kind \in Specializations

(* At most one namespace for each transaction. *)
WithNamespace(T) ==
  IF T.ns # None THEN T
  ELSE LET a == MakeDecl(T.a, [kind |-> "inline namespace", name |-> "__cling_N5", sig |-> New(T.a),
                               sem |-> TU, lex |-> TU, def |-> TRUE, of |-> None], None)
       IN [T EXCEPT !.a = AddDecl(a, New(T.a)), !.ns = New(T.a)]

(* To the namespace ns; a member of a class stays one.  The pattern of a    *)
(* function template goes with it.                                           *)
MoveTo(a, d, ns) ==
  LET pattern == {e \in DOMAIN a.decl : /\ a.decl[d].kind = "function template"
                                        /\ a.decl[e].kind = "pattern" /\ a.decl[e].of = d}
      inClass == a.decl[d].sem # TU /\ Kind(a, a.decl[d].sem) \in Records
      moved(b, e) == [b EXCEPT !.decl[e].lex = ns, !.decl[e].sem = IF e = d /\ inClass THEN @ ELSE ns]
  IN FoldSet(LAMBDA e, b : moved(b, e), a, {d} \cup pattern)

Shadow(T, d) ==
  LET Invalidate(N) == [N EXCEPT !.a = InvalidatePreviousDefinitions(N, d)]
  IN Invalidate([T EXCEPT !.a = AddDecl(MoveTo(RemoveDecl(@, d), d, T.ns), d)])

ShadowTransform(T, d) ==
  LET D == T.a.decl[d]
  IN IF ~T.opts.shadow \/ D.lex # TU \/ D.invalid
        \/ D.kind \in Namespaces \cup {"using directive"}
        \/ IsInstantiationOrSpecialization(T.a, d) \/ ~T.opts.prompt
     THEN T
     ELSE Shadow(WithNamespace(T), d)

=============================================================================
