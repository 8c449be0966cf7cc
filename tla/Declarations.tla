----------------------------- MODULE Declarations -----------------------------
(***************************************************************************)
(* What the user declares and takes back.  An input is parsed into a       *)
(* transaction: Sema builds the declarations, DeclCollector transforms and *)
(* collects them.  TransactionUnloader takes the last transaction out of   *)
(* the AST again, and an input with errors at once.                         *)
(*                                                                         *)
(* A transaction is [a: AST, queue, nested, ns, macros, mod, errors, opts]. *)
(***************************************************************************)
EXTENDS DeclUnloader, DeclExtractor

CONSTANT
  Sessions    \* [opts, inputs, max]: the inputs that may come, and a bound
              \* on how many of them come

VARIABLES
  session,  \* the session
  ast,      \* the AST
  log,      \* Seq(transaction): those that are committed
  inputs,   \* how many inputs there were
  undone,   \* history: the transactions that the last step has unloaded
  astray    \* history: entities whose names unloading does not put right

vars == <<session, ast, log, inputs, undone, astray>>

-----------------------------------------------------------------------------
(* Parsing (clang::Sema).  An item is what the user writes.                  *)
Item(k, n) == [k |-> k, n |-> n, def |-> TRUE, sig |-> 0, uses |-> {}, static |-> FALSE,
               prompt |-> TRUE, in |-> <<>>]
Forward(i) == [i EXCEPT !.def = FALSE]

Decl(i, c) == [kind |-> i.k, name |-> i.n, sig |-> i.sig, sem |-> c, lex |-> c, def |-> i.def,
               of |-> None]

(* A name that another one redeclares keeps its redeclaration chain. *)
Plain(a, r) == PushOnScopeChains(MakeDecl(a, r, Previous(a, r)), New(a))
Member(a, kind, name, c) ==
  Plain(a, [kind |-> kind, name |-> name, sig |-> 0, sem |-> c, lex |-> c, def |-> TRUE, of |-> None])

RECURSIVE Parse(_, _, _)
ParseAll(a, items, c) == FoldLeft(LAMBDA b, i : Parse(b, i, c), a, items)

(* The global values of a declaration that has code.                         *)
Named(a, name) == {<<a.decl[d].first, FALSE>> : d \in Lookup(a, TU, name)}

(* What Sema notes of the new declaration d: a static one is unused so far,  *)
(* the first one in extern "C" and the first anonymous namespace are known    *)
(* to the context.                                                           *)
NoteUnused(a, i, d) == IF i.static THEN [a EXCEPT !.unused = Append(@, d)] ELSE a
NoteExternC(a, i, d, c) ==
  IF i.k \in {"variable", "function"} /\ a.decl[d].first = d /\ Kind(a, c) = "extern C"
  THEN [a EXCEPT !.table = @ \cup {<<ExternC, i.n, d>>}] ELSE a
NoteAnonymous(a, i, d, c) ==
  IF i.k \in Namespaces /\ i.n = "" /\ a.decl[d].first = d
  THEN [a EXCEPT !.anon = @ \cup {<<c, d>>}] ELSE a
AddSpec(a, template, list, d) == [a EXCEPT !.specs = @ \cup {<<template, list, d>>}]

ParseRecord(a, i, d) ==
  IF i.def THEN Member(Member(a, "injected class name", i.n, d), "field", "m", d) ELSE a

(* The pattern of template d, on a chain of its own. *)
MakePattern(a, r, kind, d) ==
  LET before == {e \in DOMAIN a.decl : a.decl[e].kind = kind /\ a.decl[e].of = a.decl[d].prev}
  IN MakeDecl(a, [r EXCEPT !.kind = kind, !.of = d], IF a.decl[d].prev = None THEN None ELSE Max(before))

(* The implicit declaration of a specialization comes first.                 *)
DeclareImplicitly(a, r) ==
  IF Previous(a, r) # None THEN a ELSE AddSpec(MakeDecl(a, r, None), r.of, "full", New(a))
Redeclare(a, r) == ListDecl(MakeDecl(a, r, Previous(a, r)), New(a))

(* The first declaration of a specialization is on the list of its template. *)
NoteSpec(a, d) ==
  IF a.decl[d].first # d THEN a
  ELSE AddSpec(a, a.decl[d].of, IF a.decl[d].kind = "partial specialization" THEN "partial" ELSE "full", d)
ParseClassSpec(a, i, d) == IF i.def THEN Member(NoteSpec(a, d), "field", "m", d) ELSE NoteSpec(a, d)

(* An instance of a class template, whose method is pending.                 *)
Instantiate(a, r) ==
  LET d == New(a)
      method == [r EXCEPT !.kind = "method", !.name = "get", !.sem = d, !.lex = d, !.def = FALSE,
                          !.of = None]
  IN AddDecl(MakeDecl(AddSpec(MakeDecl(a, r, None), r.of, "full", d), method, None), d + 1)

(* The item is about template: the first declaration of that name.           *)
ParseSpecialization(a, i, r) ==
  CASE i.k = "function specialization" -> Redeclare(DeclareImplicitly(a, [r EXCEPT !.def = FALSE]), r)
    [] i.k = "instance" -> Instantiate(a, [r EXCEPT !.kind = "class specialization"])
    [] OTHER -> ParseClassSpec(Redeclare(a, r), i, New(a))

(* What is in the declaration d is parsed.                                   *)
ParseInside(a, i, d, c) ==
  CASE i.k = "record" -> ParseRecord(a, i, d)
    [] i.k = "enum" -> Member(a, "enumerator", "e", d)
    [] i.k = "class template" -> MakePattern(a, Decl(i, c), "class pattern", d)
    [] i.k = "function template" -> MakePattern(a, Decl(i, c), "pattern", d)
    [] OTHER -> ParseAll(NoteAnonymous(NoteExternC(NoteUnused(a, i, d), i, d, c), i, d, c), i.in, d)

(* Declares the item in context c; its declaration is number New(a), or the  *)
(* one after for an explicit specialization of a function, for which Sema    *)
(* makes an implicit declaration first.                                       *)
Parse(a, i, c) ==
  LET d == New(a)
      sig == IF i.n = "__cling_Un1Qu3" THEN d ELSE i.sig
      template == a.decl[Max(Lookup(a, TU, i.n))].first
  IN IF i.k \in Specializations \cup {"instance"}
     THEN ParseSpecialization(a, i, [Decl(i, c) EXCEPT !.of = template])
     ELSE ParseInside(Plain(a, [Decl(i, c) EXCEPT !.sig = sig]), i, d, c)

-----------------------------------------------------------------------------
(* The code of a transaction: a global value for each definition, and for   *)
(* what it uses.                                                             *)
Uses(a, d, i) ==
  UNION {Named(a, u) : u \in i.uses} \cup
  {<<a.decl[v].first, TRUE>> : v \in {e \in DOMAIN a.decl : a.decl[e].kind = "static local" /\ a.decl[e].lex = d}}

Define(mod, name, uses, kept) ==
  LET globals == mod.globals \cup uses \cup {name}
  IN [globals |-> globals,
      body |-> [g \in globals |-> IF g = name THEN uses ELSE IF g \in mod.globals THEN mod.body[g] ELSE {}],
      used |-> IF kept THEN mod.used \cup {name} ELSE mod.used]

Generate(T, d, i) ==
  IF i.k \notin {"variable", "function"} \/ ~i.def THEN T
  ELSE [T EXCEPT !.mod = Define(@, MangledName(T.a, d), Uses(T.a, d, i), i.n = "kept")]

NewTransaction(a, opts) ==
  [a |-> a, queue |-> <<>>, nested |-> <<>>, ns |-> None, macros |-> <<>>, mod |-> NoModule,
   errors |-> FALSE, opts |-> opts, snap |-> <<>>, input |-> <<>>]

Collect(T, call, d) == [T EXCEPT !.queue = Append(@, [call |-> call, decls |-> <<d>>])]

(* A statement or a declaration of wrapper w. *)
ParseLocal(a, s, w) ==
  IF s.k = "stmt" THEN [a EXCEPT !.decl[w].body = Append(@, <<"stmt", s.n>>)]
  ELSE [Parse(a, s, w) EXCEPT
          !.decl[w].body = Append(@, <<"decl", New(a)>>),
          !.decl[New(a)].body = IF s.k = "variable" THEN <<<<"stmt", s.n>>>> ELSE <<>>]

(* A wrapper with its statements. *)
ParseWrapper(a, i) ==
  LET w == New(a)
  IN FoldLeft(LAMBDA b, s : ParseLocal(b, s, w),
              Plain(a, [Decl(i, TU) EXCEPT !.kind = "function", !.sig = w]), i.in)

(* A macro directive goes to the preprocessor. *)
Directive(T, i) ==
  LET m == [name |-> i.n, def |-> i.def, at |-> Max({0} \cup {x.at : x \in ToSet(T.a.macros)}) + 1]
  IN [T EXCEPT !.macros = Append(@, m), !.a.macros = Append(@, m)]

(* A nested transaction leaves a marker in the queue. *)
Nest(T, N) ==
  [T EXCEPT !.a = N.a, !.nested = Append(@, N), !.queue = Append(@, [call |-> "none", decls |-> <<>>])]

(* The body of a method that an instance has pending. *)
DefineMethod(T, method) ==
  Collect([T EXCEPT !.a.decl[method].def = TRUE, !.a.decl[method].pending = FALSE],
          "implicit instantiation", method)
Method(a) == Max({e \in DOMAIN a.decl : a.decl[e].kind = "method"})

IsNewAnonymous(a, i, d) == i.k \in Namespaces /\ i.n = "" /\ a.decl[d].first = d

(* What is collected before the declarations, and the declarations.          *)
Precede(T, i, d) ==
  CASE i.k = "member" -> DefineMethod(T, Method(T.a))
    [] i.k \in {"record", "enum"} \cup ClassSpecs ->
         IF i.def THEN Collect(Collect(T, "tag", d), "vtable", d) ELSE T
    [] i.k \in Namespaces /\ IsNewAnonymous(T.a, i, d) ->
         [T EXCEPT !.a = AddDecl(MakeDecl(@, [Decl(i, TU) EXCEPT !.kind = "using directive",
                                                !.name = "using directive"], None), New(@))]
    [] OTHER -> Generate(T, d, i)

Group(a, i, d) ==
  CASE i.k = "member" -> <<Method(a)>>
    [] i.k = "function specialization" -> <<Len(a.decl)>>
    [] i.k \in Namespaces /\ IsNewAnonymous(a, i, d) -> <<d, New(a)>>
    [] OTHER -> <<d>>

HandleParsed(T, i, d) ==
  IF i.k = "instance" THEN Collect(T, "tag", d)
  ELSE HandleTopLevelDecl(Precede(T, i, d), Group(T.a, i, d))

(* Members of instances are instantiated without being parsed again.         *)
ParseInput(a, i) ==
  CASE i.k = "wrapper" -> ParseWrapper(a, i)
    [] i.k = "member" -> a
    [] OTHER -> Parse(a, i, TU)

RECURSIVE Consume(_, _)
(* The parser hands each declaration to the DeclCollector.                   *)
Consume(T, i) ==
  CASE i.k = "macro" -> Directive(T, i)
    [] i.k = "nested" ->
         Nest(T, FoldLeft(LAMBDA N, j : Consume(N, j), NewTransaction(T.a, T.opts), i.in))
    [] OTHER -> HandleParsed([T EXCEPT !.a = ParseInput(@, i)], i, New(T.a))

-----------------------------------------------------------------------------
(* TransactionUnloader.                                                      *)
Skipped(a, entry) ==
  \/ entry.call \in {"vtable", "implicit instantiation"}
  \/ entry.call = "tag" /\ a.decl[entry.decls[1]].kind \in {"record", "class pattern"}

UnloadGroup(a, decls) == FoldLeft(LAMBDA b, d : UnloadDecl(b, d), a, Reverse(decls))

RECURSIVE RevertTransaction(_, _, _)

(* In reverse. The marker of a nested transaction leaves the queue when the  *)
(* nested one is unloaded: the loop then reads the entry that has moved to    *)
(* its place, and unloads those declarations once more.                       *)
UnloadNested(r, i) ==
  [a |-> RevertTransaction(Last(r.nested), r.a, FALSE), queue |-> RemoveAt(r.queue, i),
   nested |-> Front(r.nested)]

UnloadEntry(r, i) ==
  IF i > Len(r.queue) \/ Skipped(r.a, r.queue[i]) THEN r
  ELSE [r EXCEPT !.a = UnloadGroup(@, r.queue[i].decls)]

UnloadDeclarations(T, a) ==
  FoldLeft(LAMBDA r, i : UnloadEntry(IF r.queue[i].call = "none" THEN UnloadNested(r, i) ELSE r, i),
           [a |-> a, queue |-> T.queue, nested |-> T.nested],
           Reverse([i \in DOMAIN T.queue |-> i])).a

UnloadFromPreprocessor(T, a) == FoldLeft(LAMBDA b, m : VisitMacro(b, m), a, Reverse(T.macros))

(* Code is erased from the module only if the transaction was committed.     *)
RevertTransaction(T, a, committed) ==
  UnloadFromPreprocessor(T,
    UnloadDeclarations(T, [a EXCEPT !.mod = IF committed THEN T.mod ELSE NoModule]))

-----------------------------------------------------------------------------
(* Entities that unloading T does not put right: redeclared in a context    *)
(* whose enclosing contexts know the name too; class specializations that    *)
(* were declared before; specializations of a template that was; what was    *)
(* shadowed; and the wrapper of an input that is refused, which is in no      *)
(* transaction.                                                               *)
Astray(a, T) ==
  LET b == T.snap
      added == (Len(b.decl) + 1)..Len(a.decl)
      within == {d \in added : Kind(a, a.decl[d].sem) \in {"extern C++", "inline namespace"}}
      again == {d \in added : a.decl[d].kind \in ClassSpecs}
      templates == {a.decl[d].first : d \in {e \in added : a.decl[e].kind \in Templates}}
      specs == {s[3] : s \in {x \in b.specs : x[1] \in templates}}
      members == {d \in DOMAIN b.decl : b.decl[d].lex \in specs}
      shadowed == {e \in DOMAIN b.decl : \E d \in added :
                     /\ T.ns # None /\ a.decl[d].sem = T.ns /\ a.decl[d].name = b.decl[e].name
                     /\ ~IsOverload(a, d, e) /\ ~(IsDefinition(a, e) /\ ~IsDefinition(a, d))}
      enumerators == {e \in DOMAIN b.decl : b.decl[e].kind = "enumerator" /\ b.decl[e].sem \in shadowed}
      refused == {d \in added : T.errors /\ IsWrapper(a, d)}
  IN {a.decl[d].first : d \in within \cup again \cup specs \cup members \cup shadowed
                             \cup enumerators \cup refused}

(* What Sema rejects: a second definition, no template to specialize. *)
Accepted(i) ==
  LET same == {d \in Lookup(ast, TU, i.n) : /\ ast.decl[d].kind = i.k /\ ast.decl[d].sig = i.sig
                                             /\ RedeclContext(ast, ast.decl[d].sem) = TU}
      templates == {d \in Lookup(ast, TU, i.n) : ast.decl[d].kind \in Templates}
      specs == {s[3] : s \in {x \in ast.specs : \E d \in templates : x[1] = ast.decl[d].first}}
      defined(d) == \E e \in Chain(ast, d) : ast.decl[e].def
  IN CASE i.k \in {"variable", "function", "record", "enum"} ->
            i.def => \A d \in same : ~defined(d)
       [] i.k \in Templates -> i.def => \A d \in same : \A e \in Chain(ast, d) :
                                 ~IsDefinition(ast, e)
       [] i.k \in Specializations \cup {"instance"} ->
            templates # {} /\ (i.def => \A d \in specs : ast.decl[d].sig = i.sig => ~defined(d))
       [] i.k = "member" -> \E s \in specs : \E e \in DOMAIN ast.decl :
                              ast.decl[e].kind = "method" /\ ast.decl[e].pending /\ ast.decl[e].sem = s
       [] OTHER -> TRUE

Commit(T, done) ==
  IF T.errors
  THEN /\ ast' = RevertTransaction(T, T.a, FALSE)
       /\ undone' = <<done>> /\ astray' = astray \cup Astray(ast', done)
       /\ UNCHANGED log
  ELSE /\ ast' = T.a /\ log' = Append(log, done) /\ undone' = <<>>
       /\ UNCHANGED astray

Input(i) ==
  /\ inputs < session.max /\ Accepted(i)
  /\ inputs' = inputs + 1
  /\ \E T \in {Consume(NewTransaction(ast, [session.opts EXCEPT !.prompt = i.prompt]), i)} :
       Commit(T, [T EXCEPT !.a = <<>>, !.snap = ast, !.input = i.in])
  /\ UNCHANGED session

Unload ==
  LET T == log[Len(log)]
  IN /\ log # <<>>
     /\ ast' = RevertTransaction(T, ast, TRUE)
     /\ log' = SubSeq(log, 1, Len(log) - 1)
     /\ undone' = <<T>> /\ astray' = astray \cup Astray(ast', T)
     /\ UNCHANGED <<session, inputs>>

Init ==
  /\ session \in Sessions
  /\ ast = EmptyAst /\ log = <<>> /\ inputs = 0 /\ undone = <<>> /\ astray = {}

Next == (\E i \in session.inputs : Input(i)) \/ Unload

Spec == Init /\ [][Next]_vars

-----------------------------------------------------------------------------
(* Chains, contexts and logs only name declarations that were made (Sema,     *)
(* DeclUnloader).                                                            *)
TypeOK ==
  /\ session \in Sessions /\ inputs \in 0..session.max /\ Len(log) <= inputs
  /\ \A d \in DOMAIN ast.decl :
       /\ ast.decl[d].first \in 1..d /\ ast.decl[d].prev \in (1..d) \cup {None}
       /\ ast.decl[d].latest \in DOMAIN ast.decl
  /\ ToSet(ast.lexical) \subseteq DOMAIN ast.decl
  /\ astray \subseteq DOMAIN ast.decl

(* These have no name that lookup finds, and stay in the list of their      *)
(* context; the namespace of a transaction stays too.                        *)
LeftBehind == {"", "__vd_init_order", "__cling_N5"}

(* Unloading T takes the AST back to what it was before T, in the contexts   *)
(* that there were.                                                           *)
Same(a, T) ==
  LET b == T.snap
      n == Len(b.decl)
      regular(d) == /\ a.decl[d].lex <= n /\ a.decl[d].first \notin astray
                    /\ d > n => a.decl[d].name \notin LeftBehind
      settled(table) == {t \in table : t[1] <= n /\ regular(t[3])}
      regularSpecs(c) == {s \in c.specs : s[1] <= n /\ c.decl[s[3]].first \notin astray}
  IN /\ SelectSeq(a.lexical, regular) = SelectSeq(b.lexical, regular)
     /\ settled(a.table) = settled(b.table)
     /\ \A d \in a.scope \ b.scope : ~regular(d)
     /\ {s \in regularSpecs(a) : s[3] <= n} = regularSpecs(b)
     /\ \A s \in regularSpecs(a) : s[3] > n => a.decl[s[3]].kind \in FunctionSpecs
     /\ a.anon = b.anon /\ a.unused = b.unused
     /\ SelectSeq(a.macros, LAMBDA m : m.def \/ m \in ToSet(b.macros)) = b.macros
     /\ \A d \in 1..n : a.decl[d].first \in astray \/ a.decl[d] = b.decl[d]

Restores == \A i \in DOMAIN undone : Same(ast, undone[i])

(* What is left of a module uses only what is left of it. *)
NoDanglingUse == \A g \in ast.mod.globals : ast.mod.body[g] \subseteq ast.mod.globals

(* The statements of an input run in the order of the text: declarations are *)
(* initialized one after the other, and the wrapper runs last.               *)
Statements(T) ==
  LET written(s) == IF s.k \in {"stmt", "variable"} THEN <<<<"stmt", s.n>>>> ELSE <<>>
  IN FlattenSeq([i \in DOMAIN T.input |-> written(T.input[i])])
Execution(T) ==
  LET runs(e, wrapper) ==
        LET ran == SelectSeq(e.decls, LAMBDA d : IF wrapper THEN IsWrapper(ast, d)
                                                 ELSE ast.decl[d].kind = "variable")
        IN FlattenSeq([k \in DOMAIN ran |-> ast.decl[ran[k]].body])
  IN FlattenSeq([i \in DOMAIN T.queue |-> runs(T.queue[i], FALSE)]
                \o [i \in DOMAIN T.queue |-> runs(T.queue[i], TRUE)])
RunsInOrder ==
  \A i \in DOMAIN log :
    (\E k \in DOMAIN log[i].queue : \E d \in ToSet(log[i].queue[k].decls) : IsWrapper(ast, d))
      => Execution(log[i]) = Statements(log[i])

(* A valid declaration that the prompt made under shadowing is the only      *)
(* meaning of its name among what there was before it, its overloads apart.   *)
Unambiguous ==
  \A name \in {t[2] : t \in ast.table} : \A d, e \in Lookup(ast, TU, name) :
    (e < d /\ ~ast.decl[d].invalid /\ InlineNS(ast, RedeclContext(ast, ast.decl[d].sem)))
      => IsOverload(ast, d, e)

(* The AST and the module stay consistent when declarations hide one another *)
(* and go again (DeclUnloader, DefinitionShadower).                          *)
AstOK == TypeOK /\ NoDanglingUse /\ Unambiguous

=============================================================================
