----------------------------- MODULE DeclExtractor -----------------------------
(***************************************************************************)
(* DeclExtractor: what an input at the prompt declares is moved out of the *)
(* wrapper function around it, next to the wrapper.  The statements before *)
(* a declaration become a function that initializes a variable, so that    *)
(* they run before the declaration is initialized.                         *)
(***************************************************************************)
EXTENDS DefinitionShadower

(* DeclCollector appends what a transformer emits, without transforming it. *)
Emit(T, d) == [T EXCEPT !.queue = Append(@, [call |-> "top level", decls |-> <<d>>])]

(* Mutant: the statements stay in the wrapper. *)
EnforceInitOrderNever(T, stmts) == T

(* Function and variable are not found by name: the function is in no list. *)
EnforceInitOrder(T, stmts) ==
  LET fd == New(T.a)
      r == [kind |-> "function", name |-> "__fd_init_order", sig |-> fd, sem |-> TU, lex |-> TU,
            def |-> TRUE, of |-> None, body |-> stmts]
      vd == [r EXCEPT !.kind = "variable", !.name = "__vd_init_order"]
  IN Emit(Emit([T EXCEPT !.a = ListDecl(MakeDecl(MakeDecl(@, r, None), vd, None), fd + 1)], fd), fd + 1)

(* Sema::CheckVariableDeclaration: a redefinition is invalid, and anything  *)
(* else is redeclared.                                                      *)
CheckVariableDeclaration(a, v, previous) ==
  LET same == {e \in previous : a.decl[e].kind = "variable"}
      p == Max(same)
      clash == \/ \E e \in previous : a.decl[e].kind \notin {"variable", "record", "enum"}
               \/ \E e \in same : a.decl[v].def /\ \E f \in Redecls(a, e) \cap Chain(a, e) : a.decl[f].def
  IN IF clash THEN [a EXCEPT !.decl[v].invalid = TRUE]
     ELSE IF same = {} THEN a
     ELSE [a EXCEPT !.decl[v].prev = a.decl[a.decl[p].first].latest, !.decl[v].first = a.decl[p].first,
                    !.decl[a.decl[p].first].latest = v]

(* A tag clashes with a definition, another kind of tag or another kind of  *)
(* declaration of that name; a template is in its scope too.                *)
CheckTagDeclaration(a, d, previous) ==
  a.decl[d].invalid = FALSE /\ \A e \in previous :
    /\ a.decl[e].kind = a.decl[d].kind
    /\ ~(a.decl[d].def /\ \E f \in Redecls(a, e) \cap Chain(a, e) : a.decl[f].def)

Checked(a, d) == [a |-> a, clash |-> a.decl[d].invalid]

CheckDecl(a, d, previous) ==
  CASE a.decl[d].kind \in {"record", "enum"} ->
         [a |-> a, clash |-> a.decl[d].name # "" /\ ~CheckTagDeclaration(a, d,
            {e \in previous : a.decl[e].kind \in {"record", "enum", "typedef", "class template"}})]
    [] a.decl[d].kind = "variable" -> Checked(CheckVariableDeclaration(a, d, previous), d)
    [] OTHER -> [a |-> a, clash |-> FALSE]

(* Stops at the first clash. *)
CheckForClashingNames(a, decls, dc) ==
  FoldLeft(LAMBDA r, d : IF r.clash THEN r
                         ELSE CheckDecl(r.a, d, Lookup(r.a, Primary(r.a, dc), r.a.decl[d].name)),
           [a |-> a, clash |-> FALSE], decls)

(* Out of the wrapper, to the context of the wrapper. *)
MoveOut(a, d, dc) ==
  LET out == RemoveDecl(a, d)
  IN [out EXCEPT !.scope = @ \ {d}, !.decl[d].lex = dc, !.decl[d].sem = dc]

ExtractStep(r, s, dc) ==
  LET MoveFrom(T) == Emit([T EXCEPT !.a = MoveOut(@, s[2], dc)], s[2])
  IN IF s[1] = "stmt" THEN [r EXCEPT !.stmts = Append(@, s)]
     ELSE IF r.T.a.decl[s[2]].kind = "using directive" THEN r  \* it is lost
     ELSE [T |-> MoveFrom(IF r.stmts = <<>> THEN r.T ELSE EnforceInitOrder(r.T, r.stmts)),
           stmts |-> <<>>, touched |-> Append(r.touched, s[2])]

RegisterEnumerators(a, d) ==
  FoldSet(LAMBDA e, b : ShowDecl(b, e), a,
          {e \in DOMAIN a.decl : /\ a.decl[d].kind = "enum" /\ a.decl[e].lex = d
                                 /\ e \in ToSet(a.lexical)})

RegisterName(a, d) == IF a.decl[d].name = "" THEN a ELSE PushOnScopeChains(a, d)

(* The names are found from now on: the enumerators', and their own. *)
Register(a, d) == RegisterName(RegisterEnumerators(a, d), d)

(* The wrapper keeps the statements after the last declaration, and follows *)
(* the declarations.                                                         *)
FollowDecls(a, w, stmts, touched) ==
  LET Shorten(b) == [b EXCEPT !.decl[w].body = stmts]
  IN IF touched = <<>> THEN Shorten(a)
     ELSE AddDecl(RemoveDecl(Shorten(FoldLeft(LAMBDA b, d : Register(b, d), a, touched)), w), w)

Finish(moved, w, checked) ==
  [moved.T EXCEPT !.errors = checked.clash,
                  !.a = IF checked.clash THEN [checked.a EXCEPT !.decl[w].body = moved.stmts]
                        ELSE FollowDecls(checked.a, w, moved.stmts, moved.touched)]

CheckMoved(moved, w, dc) == Finish(moved, w, CheckForClashingNames(moved.T.a, moved.touched, dc))

ExtractDecl(T, w) ==
  LET dc == T.a.decl[w].sem
  IN CheckMoved(FoldLeft(LAMBDA r, s : ExtractStep(r, s, dc),
                         [T |-> T, stmts |-> <<>>, touched |-> <<>>], T.a.decl[w].body), w, dc)

DeclExtractorTransform(T, w) ==
  IF T.opts.extract /\ T.a.decl[w].body # <<>> THEN ExtractDecl(T, w) ELSE T

(* The transformers of a declaration; those of wrappers see whether they    *)
(* fail themselves.                                                         *)
TransformWrapper(T, w) ==
  LET Result(E) == [T |-> [E EXCEPT !.errors = @ \/ T.errors], ok |-> ~E.errors]
  IN Result(DeclExtractorTransform([T EXCEPT !.errors = FALSE], w))

TransformShadowed(T, d) == IF IsWrapper(T.a, d) THEN TransformWrapper(T, d) ELSE [T |-> T, ok |-> TRUE]

TransformDecl(T, d) == TransformShadowed(ShadowTransform(T, d), d)

(* DeclCollector::HandleTopLevelDecl: the transformers, then into the       *)
(* transaction, unless a transformer failed.                                *)
CollectAll(r, decls) ==
  IF r.ok THEN [r.T EXCEPT !.queue = Append(@, [call |-> "top level", decls |-> decls])] ELSE r.T

HandleTopLevelDecl(T, decls) ==
  CollectAll(FoldLeft(LAMBDA r, d : IF r.ok THEN TransformDecl(r.T, d) ELSE r,
                      [T |-> T, ok |-> TRUE], decls), decls)

=============================================================================
