--------------------------------- MODULE Ast ---------------------------------
(***************************************************************************)
(* The part of Clang's AST that the unloading of declarations takes apart: *)
(* lists of declarations, lookup tables, scopes, redeclaration chains and  *)
(* the specializations of templates, as Sema builds them.                  *)
(***************************************************************************)
EXTENDS Integers, Sequences, FiniteSets, SequencesExt, FiniteSetsExt, TLC

None == -1
TU == 0           \* the translation unit; other contexts are declarations
ExternC == -2     \* ASTContext::getExternCContextDecl()

(* decl:    declarations ever made; their numbers are their addresses       *)
(* lexical: those linked into the list of their context, in order           *)
(* table:   <<primary context, name, declaration>> of the lookup maps       *)
(* scope:   the translation unit's Scope and the IdentifierResolver         *)
(* specs:   <<first declaration of the template, list, specialization>>     *)
(* anon:    DeclContexts' anonymous namespace;  unused: UnusedFileScopedDecls *)
(* macros:  the directives of each macro;  mod: the llvm::Module of the     *)
(*          transaction that is being unloaded                              *)
NoModule == [globals |-> {}, body |-> <<>>, used |-> {}]

EmptyAst ==
  [decl |-> <<>>, lexical |-> <<>>, table |-> {}, scope |-> {}, specs |-> {},
   anon |-> {}, unused |-> <<>>, macros |-> <<>>, mod |-> NoModule]

Kind(a, c) == IF c = TU THEN "TU" ELSE a.decl[c].kind

(* Their names are visible in the parent too. *)
Transparent(a, c) == Kind(a, c) \in {"extern C", "extern C++", "enum"}
InlineNS(a, c) == Kind(a, c) = "inline namespace"
Namespaces == {"namespace", "inline namespace"}
LinkageSpecs == {"extern C", "extern C++"}
FunctionSpecs == {"function specialization"}
ClassSpecs == {"class specialization", "partial specialization"}
Specializations == FunctionSpecs \cup ClassSpecs
Functions_ == {"function", "method", "pattern"} \cup FunctionSpecs
Records == {"record", "class pattern"} \cup ClassSpecs
Templates == {"function template", "class template"}

(* getPrimaryContext, getRedeclContext, and the contexts whose maps list    *)
(* the names of a context.                                                  *)
Primary(a, c) == IF Kind(a, c) \in Namespaces THEN a.decl[c].first ELSE c

RedeclContext(a, c) ==
  LET up[x \in 0..Len(a.decl)] == IF Transparent(a, x) THEN up[a.decl[x].sem] ELSE Primary(a, x)
  IN up[c]

VisibleIn(a, c) ==
  LET up[x \in 0..Len(a.decl)] ==
        (IF Kind(a, x) \in LinkageSpecs THEN {} ELSE {Primary(a, x)})
        \cup IF Transparent(a, x) \/ InlineNS(a, x) THEN up[a.decl[x].sem] ELSE {}
  IN up[c]

Lookup(a, c, name) == {e[3] : e \in {t \in a.table : t[1] = c /\ t[2] = name}}

SameEntity(a, d, e) == a.decl[d].first = a.decl[e].first
Redecls(a, d) == {e \in 1..Len(a.decl) : SameEntity(a, d, e)}

(* The redeclarations that the chain reaches from its latest one. *)
Chain(a, d) ==
  LET back[n \in 0..Len(a.decl)] ==
        IF n = 0 THEN {a.decl[a.decl[d].first].latest}
        ELSE LET later == back[n - 1] IN later \cup ({a.decl[e].prev : e \in later} \ {None})
  IN back[Len(a.decl)]

(* StoredDeclsList::addOrReplaceDecl and remove. *)
AddOrReplaceDecl(a, c, d) ==
  [a EXCEPT !.table = {t \in @ : ~(t[1] = c /\ SameEntity(a, t[3], d))}
                      \cup {<<c, a.decl[d].name, d>>}]
ForgetIn(a, contexts, d) == [a EXCEPT !.table = {t \in @ : ~(t[1] \in contexts /\ t[3] = d)}]

(* Names that lookup never finds: none, and those of specializations. *)
Hidden(a, d) == a.decl[d].name = "" \/ a.decl[d].kind \in Specializations

(* DeclContext::addDecl and makeDeclVisibleInContext: the newest declaration *)
(* takes the place of the one that it redeclares.                           *)
ListDecl(a, d) == [a EXCEPT !.lexical = Append(@, d)]
ShowDecl(a, d) ==
  IF Hidden(a, d) THEN a
  ELSE FoldSet(LAMBDA c, b : AddOrReplaceDecl(b, c, d), a, VisibleIn(a, a.decl[d].sem))
AddDecl(a, d) == ShowDecl(ListDecl(a, d), d)

(* Sema::PushOnScopeChains: what is at namespace scope only stays there.    *)
PushScope(a, d) ==
  IF Hidden(a, d) \/ RedeclContext(a, a.decl[d].sem) # TU THEN a
  ELSE [a EXCEPT !.scope = {e \in @ : ~SameEntity(a, d, e)} \cup {d}]
PushOnScopeChains(a, d) == PushScope(AddDecl(a, d), d)

(* DeclContext::removeDecl: from the list, and from the maps.               *)
RemoveDecl(a, d) ==
  LET up[x \in 0..Len(a.decl)] ==
        {Primary(a, x)} \cup IF Transparent(a, x) THEN up[a.decl[x].sem] ELSE {}
      unlisted == [a EXCEPT !.lexical = SelectSeq(@, LAMBDA e : e # d)]
  IN IF Hidden(a, d) THEN unlisted ELSE ForgetIn(unlisted, up[a.decl[d].sem], d)

(* What a declaration in the context redeclares. *)
Previous(a, r) ==
  LET rc == RedeclContext(a, r.sem)
      same == {d \in Lookup(a, rc, r.name) :
                 /\ a.decl[d].kind = r.kind /\ a.decl[d].sig = r.sig
                 /\ RedeclContext(a, a.decl[d].sem) = rc}
      registered == {s[3] : s \in {x \in a.specs : x[1] = r.of /\ a.decl[x[3]].sig = r.sig}}
      from == IF r.kind \in Specializations THEN registered
              ELSE IF r.name = "" /\ r.kind \in Namespaces
                   THEN {n[2] : n \in {x \in a.anon : x[1] = r.sem}} ELSE same
  IN IF from = {} THEN None ELSE a.decl[a.decl[Max(from)].first].latest

New(a) == Len(a.decl) + 1

(* A declaration, with the statements of its body or initializer; all       *)
(* declarations of a class know its definition.                             *)
MakeDecl(a, r, prev) ==
  LET d == New(a)
      first == IF prev = None THEN d ELSE a.decl[prev].first
      made == Append(a.decl,
                r @@ [body |-> <<>>, first |-> first, prev |-> prev, latest |-> d, invalid |-> FALSE,
                      pending |-> r.kind = "method",
                      data |-> IF prev = None THEN None ELSE a.decl[prev].data])
      linked == [made EXCEPT ![first].latest = d]
      know == Chain([a EXCEPT !.decl = linked], d)
  IN [a EXCEPT !.decl =
        IF ~(r.def /\ r.kind \in Records) THEN linked
        ELSE [e \in 1..d |-> IF e \in know THEN [linked[e] EXCEPT !.data = d] ELSE linked[e]]]

=============================================================================
