----------------------------- MODULE DeclUnloader -----------------------------
(***************************************************************************)
(* DeclUnloader: takes a declaration out of the AST and its code out of    *)
(* the llvm::Module of its transaction.  A Visit takes the AST to the AST  *)
(* that it leaves.                                                          *)
(***************************************************************************)
EXTENDS Ast

-----------------------------------------------------------------------------
(* GlobalValueEraser: erases a global value and what only it uses.          *)
UnwindResume == "_Unwind_Resume"

UsedFrom(m, g) ==
  LET reach[n \in 0..Cardinality(m.globals)] ==
        IF n = 0 THEN {g} ELSE LET near == reach[n - 1] IN near \cup UNION {m.body[h] : h \in near}
  IN reach[Cardinality(m.globals)]

EraseGlobalValue(m, g) ==
  LET visited == UsedFrom(m, g) \ m.used
      dropped == [h \in m.globals |-> IF h \in visited THEN {} ELSE m.body[h]]
      erased == {h \in visited : /\ h # UnwindResume
                                 /\ \A k \in m.globals : h \notin dropped[k]}
  IN [m EXCEPT !.globals = @ \ erased,
               !.body = [h \in m.globals \ erased |-> dropped[h]]]

(* The mangled name: the declarations of an entity share it. *)
MangledName(a, d) == <<a.decl[d].first, a.decl[d].kind = "static local">>

MaybeRemoveDeclFromModule(a, d) ==
  IF MangledName(a, d) \in a.mod.globals
  THEN [a EXCEPT !.mod = EraseGlobalValue(@, MangledName(a, d))] ELSE a

-----------------------------------------------------------------------------
(* The chains of redeclarations and the lookup maps.                         *)
ResetDefinitionData(a, d) ==
  [a EXCEPT !.decl = [e \in DOMAIN @ |-> IF e \in Chain(a, d) THEN [@[e] EXCEPT !.data = None]
                                         ELSE @[e]]]

RemoveRedeclFromChain(a, R) ==
  LET r == a.decl[R]
      next == {e \in Chain(a, R) : a.decl[e].prev = R}
      unlinked ==
        IF R = a.decl[r.first].latest THEN [a EXCEPT !.decl[r.first].latest = r.prev]
        ELSE [a EXCEPT !.decl = [e \in DOMAIN @ |-> IF e \in next THEN [@[e] EXCEPT !.prev = r.prev]
                                                   ELSE @[e]]]
  IN IF R # a.decl[r.first].latest /\ next = {} THEN a  \* not (yet?) wired up
     ELSE IF r.def /\ r.kind \in Records THEN ResetDefinitionData(unlinked, r.prev)
     ELSE unlinked

MostRecentNotThis(a, d) ==
  LET latest == a.decl[a.decl[d].first].latest
  IN IF latest = d THEN a.decl[d].prev ELSE latest

(* Mutant: the previous declaration is not put back. *)
HandleRedelarationNever(a, d, c) == a

HandleRedelaration(a, d, c) ==
  LET listed == Lookup(a, IF c = TU THEN TU ELSE Primary(a, c), a.decl[d].name)
      other == MostRecentNotThis(a, d)
  IN IF a.decl[d].name = "" \/ other = None \/ other \in listed \/ d \notin listed THEN a
     ELSE AddOrReplaceDecl(a, IF c = TU THEN TU ELSE Primary(a, c), other)

VisitRedeclarable(a, d) ==
  IF a.decl[d].first = d THEN a
  ELSE RemoveRedeclFromChain(HandleRedelaration(a, d, a.decl[d].sem), d)

-----------------------------------------------------------------------------
(* Every declaration: out of the list, if its name is found in the context. *)
VisitDecl(a, d) ==
  LET lex == a.decl[d].lex
      up[x \in 0..Len(a.decl)] == IF Kind(a, x) \in LinkageSpecs THEN up[a.decl[x].lex] ELSE x
  IN IF ~Contains(a.lexical, d) THEN a
     ELSE IF a.decl[d].kind \in LinkageSpecs
             \/ Lookup(a, Primary(a, up[lex]), a.decl[d].name) # {}
          THEN RemoveDecl(a, d) ELSE a

VisitNamedDecl(a, d) ==
  LET unlisted == VisitDecl(a, d)
      up[x \in 0..Len(a.decl)] ==
        IF Transparent(a, x) \/ InlineNS(a, x) THEN up[a.decl[x].sem] ELSE Primary(a, x)
  IN IF a.decl[d].name \in {"", "using directive"} THEN unlisted  \* no identifier
     ELSE ForgetIn([unlisted EXCEPT !.scope = @ \ {d}], {up[a.decl[d].sem]}, d)

(* The first of the unused declarations that goes takes all later ones. *)
VisitDeclaratorDecl(a, d) ==
  LET at == {i \in 1..Len(a.unused) : a.unused[i] = d}
  IN VisitNamedDecl(IF at = {} THEN a ELSE [a EXCEPT !.unused = SubSeq(@, 1, Min(at) - 1)], d)

VisitTypedefNameDecl(a, d) == VisitNamedDecl(VisitRedeclarable(a, d), d)

VisitVarDecl(a, d) ==
  VisitDeclaratorDecl(VisitRedeclarable(MaybeRemoveDeclFromModule(a, d), d), d)

RemoveSpecialization(a, tmpl, list, spec) ==
  [a EXCEPT !.specs = {s \in @ : ~(s[1] = tmpl /\ s[2] = list /\ s[3] = spec)}]

-----------------------------------------------------------------------------
(* Declarations with declarations in them.                                  *)
RECURSIVE Visit(_, _)

Children(a, c) == SelectSeq(a.lexical, LAMBDA d : a.decl[d].lex = c)
Tags == Records \cup {"enum", "injected class name"}

(* In reverse, and types last: mangling the others may need them. *)
VisitDeclContext(a, c) ==
  LET tags == SelectSeq(Children(a, c), LAMBDA d : a.decl[d].kind \in Tags)
      others == SelectSeq(Children(a, c), LAMBDA d : a.decl[d].kind \notin Tags)
  IN FoldLeft(LAMBDA b, d : Visit(b, d), a, Reverse(others) \o Reverse(tags))

(* Also the variables that llvm::Module calls @func.var. *)
RemoveFunctionCode(a, d) ==
  FoldLeft(LAMBDA b, v : IF b.decl[v].kind = "static local" THEN MaybeRemoveDeclFromModule(b, v) ELSE b,
           MaybeRemoveDeclFromModule(a, d), Children(a, d))

(* A member function of an instantiated class becomes an instantiation that *)
(* is pending.  Only a canonical declaration is on the list of its template. *)
VisitFunctionDecl(a, d, RemoveSpec) ==
  LET wasCanonical == a.decl[d].first = d
      emptied == VisitDeclContext(RemoveFunctionCode(a, d), d)
      removed == VisitDeclaratorDecl(VisitRedeclarable(emptied, d), d)
  IN IF a.decl[d].kind = "method"
     THEN [emptied EXCEPT !.decl[d].def = FALSE, !.decl[d].pending = TRUE]
     ELSE IF RemoveSpec /\ a.decl[d].kind \in FunctionSpecs /\ wasCanonical
     THEN RemoveSpecialization(removed, a.decl[d].of, "full", d) ELSE removed

VisitNamespaceDecl(a, d) ==
  LET forgotten == IF a.decl[d].name = "" /\ a.decl[d].first = d
                   THEN [a EXCEPT !.anon = {n \in @ : n[1] # a.decl[d].sem}] ELSE a
  IN VisitNamedDecl(VisitRedeclarable(VisitDeclContext(forgotten, d), d), d)

(* What extern "C" declarations redeclare is in the translation unit.        *)
VisitLinkageSpecDecl(a, d) ==
  LET handBack(b, c) ==
        IF a.decl[c].name = "" THEN b
        ELSE ForgetIn(HandleRedelaration(b, c, TU), {ExternC}, c)
      given == IF Kind(a, d) = "extern C" THEN FoldLeft(handBack, a, Children(a, d)) ELSE a
  IN VisitDecl(VisitDeclContext(given, d), d)

VisitTagDecl(a, d) ==
  VisitNamedDecl(VisitRedeclarable(VisitDeclContext(a, d), d), d)

(* The implicit declaration of a class name in the class stays with it; on  *)
(* the chain of the class it would be next to the class.                     *)
VisitRecordDecl(a, d) ==
  LET beside == {e \in Chain(a, d) : /\ a.decl[e].kind = "injected class name"
                                     /\ \/ e = a.decl[d].prev
                                        \/ a.decl[e].prev = d}
  IN IF a.decl[d].kind = "injected class name" THEN a
     ELSE VisitTagDecl(FoldSet(LAMBDA e, b : VisitRedeclarable(b, e), a, beside), d)

-----------------------------------------------------------------------------
(* Templates.                                                                *)
VisitRedeclarableTemplateDecl(a, d) == VisitNamedDecl(VisitRedeclarable(a, d), d)

Pattern(a, d) == CHOOSE e \in DOMAIN a.decl :
                   a.decl[e].kind \in {"pattern", "class pattern"} /\ a.decl[e].of = d

(* All declarations of a template share its specializations. *)
LoadedSpecs(a, d) == {s[3] : s \in {x \in a.specs : x[1] = a.decl[d].first /\ x[2] = "full"}}

VisitFunctionTemplateDecl(a, d) ==
  LET specs == FoldSet(LAMBDA s, b : VisitFunctionDecl(b, s, FALSE), a, LoadedSpecs(a, d))
  IN VisitFunctionDecl(VisitRedeclarableTemplateDecl(specs, d), Pattern(a, d), TRUE)

(* The specialization that is forgotten is the first one of the chain.      *)
VisitClassTemplateSpecializationDecl(a, d, RemoveSpec) ==
  LET removed == VisitRecordDecl(a, d)
  IN IF ~RemoveSpec THEN removed
     ELSE RemoveSpecialization(removed, a.decl[d].of,
            IF a.decl[d].kind = "partial specialization" THEN "partial" ELSE "full",
            a.decl[d].first)

VisitClassTemplateDecl(a, d) ==
  LET specs == FoldSet(LAMBDA s, b : VisitClassTemplateSpecializationDecl(b, s, FALSE),
                       a, LoadedSpecs(a, d))
  IN VisitRecordDecl(VisitRedeclarableTemplateDecl(specs, d), Pattern(a, d))

(* The dispatch on the class of the declaration. *)
Visit(a, d) ==
  LET kind == a.decl[d].kind
  IN CASE kind \in Functions_ -> VisitFunctionDecl(a, d, TRUE)
       [] kind \in {"variable", "static local"} -> VisitVarDecl(a, d)
       [] kind = "typedef" -> VisitTypedefNameDecl(a, d)
       [] kind \in Namespaces -> VisitNamespaceDecl(a, d)
       [] kind \in LinkageSpecs -> VisitLinkageSpecDecl(a, d)
       [] kind = "enum" -> VisitTagDecl(a, d)
       [] kind \in ClassSpecs -> VisitClassTemplateSpecializationDecl(a, d, TRUE)
       [] kind \in Records \cup {"injected class name"} -> VisitRecordDecl(a, d)
       [] kind = "function template" -> VisitFunctionTemplateDecl(a, d)
       [] kind = "class template" -> VisitClassTemplateDecl(a, d)
       [] kind = "field" -> VisitDeclaratorDecl(a, d)
       [] OTHER -> VisitNamedDecl(a, d)

UnloadDecl(a, d) == Visit(a, d)

-----------------------------------------------------------------------------
(* The directive of an #undef has no MacroInfo: that is reported as failure. *)
MacroIsDefined(directive) == directive.def

VisitMacro(a, directive) ==
  [a EXCEPT !.macros = SelectSeq(@, LAMBDA m : ~(m = directive /\ MacroIsDefined(m)))]

=============================================================================
