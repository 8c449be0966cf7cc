----------------------------- MODULE LookupHelper -----------------------------
(***************************************************************************)
(* Reflection (cling::LookupHelper): types, scopes and functions are looked *)
(* up by name while declarations come and go; what a lookup instantiates is *)
(* a transaction of its own, and a lookup may start another one in a        *)
(* callback of the parser.                                                  *)
(***************************************************************************)
EXTENDS NameLookup

CONSTANT
  Worlds   \* [p: what the user declares, batches: where each of his inputs
           \* ends, names, types (with a declaration they need), calls, string:
           \* the declaration of std::string, max: a bound on the steps, depth]

VARIABLES
  world,      \* the session
  txns,       \* the transactions: [id, n: declarations so far, made: instances]
  instances,  \* the specializations that lookups have made complete
  nextId,     \* the id of the next transaction
  cachedTrn,  \* getStdStringTransaction()
  stringTy,   \* m_StringTy[kStdString]: the transaction that declared it
  parser,     \* [suppress, spelling, sfinae, errors, running]
  frames,     \* StartParsingRAII: what each restores
  looks       \* how many steps there were

lookupVars == <<world, txns, instances, nextId, cachedTrn, stringTy, parser, frames, looks>>

-----------------------------------------------------------------------------
Loaded == IF txns = <<>> THEN 0 ELSE Last(txns).n
Absent(d) == [d EXCEPT !.kind = "absent", !.def = FALSE]
Now == [d \in DOMAIN world.p |->
          LET x == world.p[d]
          IN CASE d > Loaded \/ (x.hidden /\ d \notin instances) -> Absent(x)
               [] d \in instances -> [x EXCEPT !.def = TRUE]
               [] OTHER -> x]

(* An instance can be made of a template that is defined; hidden ones come into  *)
(* being with the lookup.                                                        *)
SpecsOf(k) ==
  {d \in 1..Loaded : world.p[d].kind = "spec" /\ k.c = "inst" /\ world.p[d].target = k.d
                     /\ CanonicalArgs(world.p, world.p[d].args) = k.args}
Potential(t) == IF t = Nothing THEN {} ELSE SpecsOf(Canonical(world.p, t))

-----------------------------------------------------------------------------
(* findScope: [d: the definition, None, or TU, made: what had to be instantiated]. *)
Found(d) == [d |-> d, made |-> {}]
CompleteOf(p, d, instantiateTemplate) ==
  IF Definition(p, d) # None THEN Found(Definition(p, d))
  ELSE IF instantiateTemplate /\ Completable(p, d) THEN [d |-> d, made |-> {d}]
  ELSE Found(None)
WithSpec(p, d) == IF p[d].kind = "absent" THEN [p EXCEPT ![d] = world.p[d]] ELSE p
FoundScope(p, c, specs, instantiateTemplate) ==
  CASE specs # {} -> CompleteOf(WithSpec(p, Min(specs)), Min(specs), instantiateTemplate)
    [] specs = {} /\ c \in {None, TU} -> Found(c)
    [] specs = {} /\ IsTag(p, c) -> CompleteOf(p, c, instantiateTemplate)
    [] OTHER -> Found(First(p, c))
ParsedScope(p, path, instantiateTemplate) ==
  LET Complete(s) == FoundScope(p, s.c, Potential(s.t), instantiateTemplate)
  IN Complete(ParseScope(p, path))

(* The quick way: an incomplete specialization is left to the parser.            *)
QuickFound(p, d, tag, instantiateTemplate) ==
  CASE tag # None -> IF Definition(p, tag) # None THEN Sure(Definition(p, tag))
                     ELSE [Unsure EXCEPT !.sure = ~(instantiateTemplate /\ p[tag].kind = "spec")]
    [] p[d].kind = "namespace" -> Sure(First(p, d))
    [] p[d].kind = "namespace alias" -> Sure(First(p, p[d].target))
    [] OTHER -> Sure(None)
quickFindScope(p, path, instantiateTemplate) ==
  LET Complete(quick) == IF ~quick.sure \/ quick.d = None THEN quick
                         ELSE QuickFound(p, quick.d, TagOf(p, quick.d), instantiateTemplate)
  IN Complete(quickFindDecl(p, path, TRUE))
findScope(p, path, instantiateTemplate) ==
  LET OrParse(quick) == IF quick.sure THEN Found(quick.d) ELSE ParsedScope(p, path, instantiateTemplate)
  IN OrParse(quickFindScope(p, path, instantiateTemplate))

(* findType may have to make the scopes complete in which the type is.            *)
InstantiatedBy(p, path) ==
  {d \in {ParseScope(p, SubSeq(path, 1, i)).c : i \in 1..Len(path)-1} \ {None, TU} :
     Definition(p, d) = None /\ Completable(p, d)}

(* findClassTemplate, of a name without arguments: one that stands alone may be a  *)
(* deduced template; otherwise only the scope itself is searched, and not through  *)
(* an alias.                                                                       *)
TemplatesIn(p, n, c) == {d \in Direct(p, n, c) : p[d].kind = "template"}
EntityAt(p, path) ==
  NestedName(p, Last(path).n, IF Len(path) = 1 THEN Unqualified ELSE ParseScope(p, Front(path)).c)
IsAlias(p, d) == d # None /\ p[d].kind = "namespace alias"
AliasAt(p, path) == IsAlias(p, EntityAt(p, path))
FirstOf(ds) == IF ds = {} THEN None ELSE Min(ds)
TemplateOr(p, d, other) == IF d \notin {None, Several} /\ p[d].kind = "template" THEN d ELSE other
TemplateAt(p, n, c) == IF c = None THEN None ELSE FirstOf(TemplatesIn(p, n, c))
findClassTemplate(p, path) ==
  LET n == Last(path).n
      outer == Front(path)
  IN CASE outer = <<>> -> TemplateOr(p, Named_(p, n, Unqualified), TemplateAt(p, n, TU))
       [] outer # <<>> /\ Last(outer).n # "" /\ AliasAt(p, outer) -> None
       [] OTHER -> TemplateAt(p, n, ParseScope(p, outer).c)

findDataMember(p, c, n) == FirstOf({d \in Direct(p, n, First(p, c)) : p[d].kind = "variable"})

-----------------------------------------------------------------------------
(* Functions.  An argument is given by its type, without the reference, and      *)
(* whether it is an lvalue (ExprFromTypes, ParseProto).                          *)
GivenAs(k) == [t |-> IF WrittenReference(k) THEN k.of ELSE k, lvalue |-> k.c = "lvalue reference"]
Given(p, t) == GivenAs(Canonical(p, t))
Params(p, f) == [i \in DOMAIN p[f].params |->
                   [Canonical(p, p[p[f].params[i]].type) EXCEPT !.q = {}]]
IsMethod(p, f) == p[f].in # TU /\ p[p[f].in].kind \in {"record", "spec"}
                  /\ ~p[f].static /\ p[f].name # p[p[f].in].name

(* How well an argument converts (external): 0 exactly, None not at all.         *)
Arithmetic == {"int", "double", "char", "signed char", "unsigned char"}
Bare(t) == [t EXCEPT !.q = {}]
Converts(from, to) == from.c = "builtin" /\ to.c = "builtin" /\ {from.n, to.n} \subseteq Arithmetic
Rank(param, a) ==
  LET of == IF WrittenReference(param) THEN param.of ELSE param
      same == Bare(of) = Bare(a.t)
      binds == /\ param.c = "lvalue reference" => a.lvalue \/ "const" \in of.q
               /\ param.c = "rvalue reference" => ~a.lvalue
  IN CASE ~WrittenReference(param) -> IF same THEN 0 ELSE IF Converts(a.t, param) THEN 3 ELSE None
       [] WrittenReference(param) /\ same /\ binds /\ a.t.q \subseteq of.q ->
            IF a.lvalue /\ a.t.q # of.q THEN 1 ELSE IF ~a.lvalue /\ param.c = "lvalue reference" THEN 2 ELSE 0
       [] WrittenReference(param) /\ Converts(a.t, of) /\ (param.c = "rvalue reference" \/ "const" \in of.q) -> 3
       [] OTHER -> None

(* The candidates; a template stands for its instance of the given types. *)
InstancesOf(p, f) == {x \in DOMAIN p : p[x].kind = "function instance" /\ p[x].target = f}
Candidates(p, found, targs, args) ==
  {f \in found : p[f].kind = "function" /\ targs = <<>>}
  \cup {x \in UNION {InstancesOf(p, f) : f \in {g \in found : p[g].kind = "function template"}} :
          Params(p, x) = [i \in DOMAIN args |-> Bare(args[i].t)] /\ targs \in {<<>>, p[x].args}}
(* The object argument counts as one more. *)
Ranks(p, f, args, objectIsConst) ==
  [i \in 0..Len(args) |->
     IF i > 0 THEN Rank(Params(p, f)[i], args[i])
     ELSE IF ~IsMethod(p, f) THEN 0
     ELSE IF objectIsConst /\ ~p[f].const THEN None ELSE IF p[f].const /\ ~objectIsConst THEN 1 ELSE 0]
Viable(p, fs, args, objectIsConst) ==
  {f \in fs : Len(p[f].params) = Len(args)
              /\ \A i \in 0..Len(args) : Ranks(p, f, args, objectIsConst)[i] # None}
BetterRanks(a, b, tie) ==
  /\ \A i \in DOMAIN a : a[i] <= b[i]
  /\ (\E i \in DOMAIN a : a[i] < b[i]) \/ tie
Better(p, f, g, args, objectIsConst) ==
  BetterRanks(Ranks(p, f, args, objectIsConst), Ranks(p, g, args, objectIsConst),
              p[f].kind = "function" /\ p[g].kind # "function")
overloadFunctionSelector(p, found, targs, args, objectIsConst) ==
  LET Best(viable) == FirstOf({f \in viable : \A g \in viable \ {f} : Better(p, f, g, args, objectIsConst)})
  IN Best(Viable(p, Candidates(p, found, targs, args), args, objectIsConst))

(* Mutant: overload resolution has the last word. *)
FuncArgTypesConvert(p, args, f) == Len(p[f].params) = Len(args)

(* Its parameters must be what was given, and its constness that of the object.  *)
ArgMatches(a, param) == a.t = IF a.lvalue /\ WrittenReference(param) THEN param.of ELSE param
FuncArgTypesMatch(p, args, f) == \A i \in DOMAIN args : ArgMatches(args[i], Params(p, f)[i])
IsMember(p, f) == p[f].in # TU /\ p[p[f].in].kind \in {"record", "spec"}
matchFunctionSelector(p, found, targs, args, objectIsConst) ==
  LET Matching(f) == IF f = None \/ ~FuncArgTypesMatch(p, args, f) \/ (IsMember(p, f) /\ p[f].const # objectIsConst)
                     THEN None ELSE f
  IN Matching(overloadFunctionSelector(p, found, targs, args, objectIsConst))

(* findFunction: only functions may have the name.                                *)
FunctionKinds == {"function", "function template"}
getCompleteContext(p, c) ==
  c = TU \/ p[c].kind = "namespace" \/ (p[c].kind \in {"record", "spec"} /\ Definition(p, c) # None)
FunctionsAlone(p, found) ==
  IF Cardinality(found) > 1 /\ (\E d \in found : p[d].kind \notin FunctionKinds) THEN {} ELSE found
FunctionsIn(p, c, n, targs) ==
  FunctionsAlone(p, Resolve(p,
    LookupIn(p, n, c, LAMBDA d : targs = <<>> \/ p[Underlying(p, d)].kind = "function template")))

hasFunctionSelector(p, found) == Cardinality(found) > 1 \/ \E d \in found : p[d].kind = "function"
findFunctionTemplateSelector(p, found) == {d \in found : p[d].kind = "function template"}
(* Any of them: the first one, whichever it is.                                    *)
findAnyFunctionSelector(p, found, targs) ==
  LET instance(f) == IF targs = <<>> /\ InstancesOf(p, f) # {} THEN InstancesOf(p, f)
                     ELSE {x \in InstancesOf(p, f) : p[x].args = targs}
  IN IF Cardinality(found) <= 1 THEN {d \in found : p[d].kind = "function"}
     ELSE UNION {IF p[f].kind = "function" THEN {f} ELSE instance(f) : f \in found}

(* execFindFunction of a call [c: scope, n, targs, proto: names of types, const]. *)
Prototype(p, proto) == [i \in DOMAIN proto |-> ParseType(p, proto[i])]
execFindFunction(p, call, types, select(_, _)) ==
  IF ~getCompleteContext(p, call.c) \/ Nothing \in ToSet(types) THEN None
  ELSE select(FunctionsIn(p, call.c, call.n, call.targs), [i \in DOMAIN types |-> Given(p, types[i])])
matchFunctionProto(p, call) ==
  execFindFunction(p, call, Prototype(p, call.proto),
                   LAMBDA found, args : matchFunctionSelector(p, found, call.targs, args, call.const))
findFunctionProto(p, call) ==
  execFindFunction(p, call, Prototype(p, call.proto),
                   LAMBDA found, args : overloadFunctionSelector(p, found, call.targs, args, call.const))
hasFunction(p, call) == getCompleteContext(p, call.c)
                        /\ hasFunctionSelector(p, FunctionsIn(p, call.c, call.n, call.targs))
findAnyFunction(p, call) ==
  IF getCompleteContext(p, call.c) THEN findAnyFunctionSelector(p, FunctionsIn(p, call.c, call.n, call.targs), call.targs)
  ELSE {}

-----------------------------------------------------------------------------
(* The parser while lookups run (StartParsingRAII, ParserStateRAII).               *)
Resting == [suppress |-> FALSE, spelling |-> TRUE, sfinae |-> FALSE, errors |-> FALSE, running |-> FALSE]

StartParsing(diagnostics) ==
  /\ frames' = Append(frames, parser)
  /\ parser' = [suppress |-> ~diagnostics, spelling |-> FALSE, sfinae |-> TRUE,
                errors |-> parser.errors, running |-> TRUE]
Restored(saved) == [saved EXCEPT !.errors = saved.errors /\ parser.errors]
EndParsing ==
  /\ frames' = Front(frames)
  /\ parser' = Restored(Last(frames))

-----------------------------------------------------------------------------
LookupInit ==
  /\ world \in Worlds
  /\ txns = <<>> /\ instances = {} /\ nextId = 1 /\ cachedTrn = None /\ stringTy = None
  /\ parser = Resting /\ frames = <<>> /\ looks = 0

Step == looks < world.max /\ looks' = looks + 1 /\ UNCHANGED world
Commit(n, made) ==
  /\ txns' = Append(txns, [id |-> nextId, n |-> n, made |-> made])
  /\ nextId' = nextId + 1
  /\ instances' = instances \cup made

(* The next input of the user. *)
Declare ==
  /\ Step
  /\ frames = <<>>
  /\ \E i \in DOMAIN world.batches :
       /\ world.batches[i] > Loaded
       /\ \A j \in 1..i-1 : world.batches[j] <= Loaded
       /\ Commit(world.batches[i], {})
  /\ UNCHANGED <<cachedTrn, stringTy, parser, frames>>

(* Mutant: the transaction of std::string stays remembered. *)
UndoRemembering ==
  /\ Step
  /\ frames = <<>> /\ txns # <<>>
  /\ \A d \in Last(txns).made : world.p[d].hidden
  /\ txns' = Front(txns)
  /\ instances' = instances \ Last(txns).made
  /\ UNCHANGED <<nextId, cachedTrn, stringTy, parser, frames>>

(* .undo; a specialization that declarations still name would go with it: left out. *)
Undo_ ==
  /\ Step
  /\ frames = <<>> /\ txns # <<>>
  /\ \A d \in Last(txns).made : world.p[d].hidden
  /\ txns' = Front(txns)
  /\ instances' = instances \ Last(txns).made
  /\ cachedTrn' = IF cachedTrn = Last(txns).id THEN None ELSE cachedTrn
  /\ UNCHANGED <<nextId, stringTy, parser, frames>>

(* A lookup: with its own transaction, which is kept if it has made something.      *)
Keep(made) ==
  /\ made # {}
  /\ Commit(Loaded, made)
  /\ UNCHANGED <<cachedTrn, stringTy, parser, frames>>
FindScope(nm) ==
  /\ Step
  /\ Keep(findScope(Now, nm.path, TRUE).made)
FindType(nm) ==
  /\ Step
  /\ ~quickFindType(Now, nm).sure
  /\ Keep(InstantiatedBy(Now, nm.path))
NewInstance(f) ==
  IF f = None THEN {} ELSE {x \in {f} : world.p[x].kind = "function instance" /\ x \notin instances}
FindFunction(call) ==
  /\ Step
  /\ Keep(NewInstance(findFunctionProto(Now, call)))

(* The lookups that need the parser: it may ask for another one, or complain.       *)
BeginLookup(diagnostics) ==
  /\ Step
  /\ Len(frames) < world.depth
  /\ StartParsing(diagnostics)
  /\ UNCHANGED <<txns, instances, nextId, cachedTrn, stringTy>>
Complain ==
  /\ Step
  /\ frames # <<>> /\ ~parser.suppress /\ ~parser.errors
  /\ parser' = [parser EXCEPT !.errors = TRUE]
  /\ UNCHANGED <<txns, instances, nextId, cachedTrn, stringTy, frames>>
EndLookup ==
  /\ Step
  /\ frames # <<>>
  /\ EndParsing
  /\ UNCHANGED <<txns, instances, nextId, cachedTrn, stringTy>>

(* getStringType: the types are looked up again when their transaction is gone.     *)
DeclaredBy(d) ==
  LET made == {i \in DOMAIN txns : txns[i].n >= d}
  IN IF d = None \/ made = {} THEN None ELSE txns[Min(made)].id
GetStringType ==
  LET qt == DeclaredBy(world.string)
      fresh == cachedTrn # None /\ stringTy # None
  IN /\ Step
     /\ frames = <<>>
     /\ stringTy' = IF fresh THEN stringTy ELSE qt
     /\ cachedTrn' = IF fresh \/ qt = None THEN cachedTrn ELSE Last(txns).id
     /\ UNCHANGED <<txns, instances, nextId, parser, frames>>

LookupNext ==
  \/ Declare \/ Undo_ \/ Complain \/ EndLookup \/ GetStringType
  \/ \E nm \in world.names : FindScope(nm) \/ FindType(nm)
  \/ \E call \in world.calls : FindFunction(call)
  \/ \E diagnostics \in BOOLEAN : BeginLookup(diagnostics)

-----------------------------------------------------------------------------
(* Where the quick way is known to read a name otherwise than the parser does: *)
(* a leading ::, a component that is an alias of a namespace or that something  *)
(* hides which is no scope, void and unsigned, a plain char, a reference with   *)
(* something behind it, whether written or named by a typedef.                  *)
Scope(p, path, i) == IF i = 1 THEN Unqualified ELSE ParseScope(p, SubSeq(path, 1, i - 1)).c
VisibleAt(p, n, c) == IF c = None THEN {} ELSE Direct(p, n, IF c = Unqualified THEN TU ELSE First(p, c))
Hides(p, visible) == \E d, e \in visible : p[d].kind \in ScopeKinds /\ p[e].kind \notin ScopeKinds
Hidden(p, path, i) == Hides(p, VisibleAt(p, path[i].n, Scope(p, path, i)))
MisreadScope(p, path, n) ==
  \/ path[1].n = ""
  \/ \E i \in 1..n : Hidden(p, path, i)
  \/ \E i \in 1..Len(path)-1 : AliasAt(p, SubSeq(path, 1, i))
MisreadType(p, nm) ==
  \/ MisreadScope(p, nm.path, Len(nm.path) - 1)
  \/ nm.path[1].n \in {"char", "void", "unsigned"}
  \/ "&" \in ToSet(nm.ops) /\ Len(nm.ops) > 1
  \/ nm.ops # <<>> /\ IsReference(p, ParseType(p, NameOf(nm.path)))

(* Whenever the quick way is sure of a type or a scope, the parser would have   *)
(* found the same one (the check of findType that is commented out).            *)
TypeIsRight(p, nm, type) ==
  type.sure /\ ~MisreadType(p, nm) => Canonical(p, type.t) = Canonical(p, ParseType(p, nm))
ScopeIsRight(p, path, scope) ==
  scope.sure /\ ~MisreadScope(p, path, Len(path)) => scope.d = ParsedScope(p, path, TRUE).d
(* And what the declarations of a scope are searched for alone is what the      *)
(* parser takes the name for: the template of a type, unless it is reached by   *)
(* an alias of a namespace, or the variable.                                    *)
TemplateIsRight(p, path) ==
  Base(p, path).c = "inst" /\ ~MisreadScope(p, path, Len(path))
    => findClassTemplate(p, Append(Front(path), Ident(Last(path).n))) = Base(p, path).d
MemberIsRight(p, n, c) ==
  \A d \in {Named_(p, n, c)} \ {None, Several} :
    p[d].kind = "variable" /\ First(p, c) \in Contexts(p, d) => findDataMember(p, c, n) = d
QuickIsRight ==
  \A p \in {Now} : \A nm \in world.names :
    /\ TypeIsRight(p, nm, quickFindType(p, nm))
    /\ ScopeIsRight(p, nm.path, quickFindScope(p, nm.path, TRUE))
    /\ TemplateIsRight(p, nm.path)
    /\ \A c \in {ParseScope(p, Front(nm.path)).c} \ {None} : MemberIsRight(p, Last(nm.path).n, c)

(* What is printed of a fully qualified type, or of a desugared one, names that *)
(* type again, if it can be named at all (utils::TypeName, utils::Transform):   *)
(* unless some part of it names several things, or is plain char.               *)
Obscured(p, path) ==
  \/ path[1].n = "char"
  \/ \E i \in DOMAIN path :
       \/ Hidden(p, path, i)
       \/ \E c \in {Scope(p, path, i)} : c # None /\ Named_(p, path[i].n, c) = Several
ReadsAs(p, nm, t) ==
  nm = NoName \/ Obscured(p, nm.path) \/ Canonical(p, findType(p, nm)) = Canonical(p, t)
NamesSurvive ==
  \A p \in {Now} : \A x \in {y \in world.types : p[y.d].kind # "absent"} :
    \A t \in {FullyQualified(p, x.t), PartiallyDesugared(p, NoConfig, x.t, TRUE, TRUE)} :
      ReadsAs(p, Written(p, t, FALSE), x.t)

(* A function that is matched has the parameters that were given, but for a     *)
(* reference that its parameter is not ("a bit sloppy", FuncArgTypesMatch), and *)
(* the constness of the object; and when one function alone is like that, it is *)
(* the one: overload resolution prefers no other, unless it cannot choose       *)
(* between a value and a reference.  No && is ever matched.                     *)
Suits(param, k) == param \in {k, IF k.c = "lvalue reference" THEN k.of ELSE k}
Alike(p, f, types, call) ==
  /\ Len(p[f].params) = Len(types)
  /\ \A i \in DOMAIN types : Suits(Params(p, f)[i], Canonical(p, types[i]))
  /\ IsMember(p, f) => p[f].const = call.const
Referred(t) == IF WrittenReference(t) THEN Bare(t.of) ELSE t
Confusable(a, b) == WrittenReference(a) # WrittenReference(b) /\ Referred(a) = Referred(b)
Rivals(p, f, g) ==
  Len(p[f].params) = Len(p[g].params)
  /\ \E i \in DOMAIN p[f].params : Confusable(Params(p, f)[i], Params(p, g)[i])

MatchesAlone(p, f, named, alike) ==
  \A g \in alike : f = g \/ \E h \in named \ {g} : h \in alike \/ Rivals(p, g, h)
MatchesAlike(p, call, types, f) ==
  /\ f # None => Alike(p, f, types, call)
  /\ \/ call.targs # <<>> \/ \E t \in ToSet(types) : Canonical(p, t).c = "rvalue reference"
     \/ \E named \in {{g \in FunctionsIn(p, call.c, call.n, call.targs) : p[g].kind = "function"}} :
          MatchesAlone(p, f, named, {g \in named : Alike(p, g, types, call)})
(* Those that ask for any function of the name find one as well, but they do    *)
(* not count a function template that stands alone.                             *)
FindersAgree(p, call, found) ==
  \/ Cardinality(found) = 1 /\ found = findFunctionTemplateSelector(p, found)
  \/ hasFunction(p, call) /\ findAnyFunction(p, call) # {}
MatchIsExact ==
  \A p \in {Now} : \A call \in world.calls :
    getCompleteContext(p, call.c)
      => \A f \in {matchFunctionProto(p, call)} :
           /\ MatchesAlike(p, call, Prototype(p, call.proto), f)
           /\ f # None => FindersAgree(p, call, FunctionsIn(p, call.c, call.n, call.targs))

(* The string types that are remembered are those of a declaration that is      *)
(* still there (the cache is discarded with the transaction it depends on).     *)
StringTypesLive ==
  cachedTrn # None /\ stringTy # None =>
    \E i, j \in DOMAIN txns : i <= j /\ txns[i].id = stringTy /\ txns[j].id = cachedTrn

(* However lookups nest, the parser is as it was once all are over.             *)
Rests == frames = <<>> => parser = Resting

(* A lookup leaves nothing that a later one trips over (getStringType,           *)
(* StartParsingRAII).                                                           *)
LookupsLeaveNothing == StringTypesLive /\ Rests

=============================================================================
