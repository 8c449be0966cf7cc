------------------------ MODULE SourceNormalization ------------------------
(***************************************************************************)
(* Where the wrapper function of an input begins (SourceNormalization.cpp). *)
(* An input is the tokens of its text and whether blanks follow the last    *)
(* of them, which is what the raw lexer's "at the end" depends on.  A lexer *)
(* state is the position of its current token; 0 is a lexer that gave up.   *)
(* The tokens are clean, and the language is C++ without CUDA.              *)
(***************************************************************************)
EXTENDS Integers, Sequences, FiniteSetsExt

Punctuation ==
  {"(", ")", "{", "}", "[", "]", "<", ">", "::", "~", "*", "&", ";", ":", "=", ",", "+", "#", "eod"}
Literal == {"1", "\"\""}

Tok(in, p) ==
  CASE p \in 1 .. Len(in.toks) -> in.toks[p]
    [] p > Len(in.toks) -> "eof"
    [] OTHER -> "none"

(* tok::raw_identifier *)
IsIdentifier(in, p) == p \in 1 .. Len(in.toks) /\ in.toks[p] \notin Punctuation \cup Literal

(* LexFromRawLexer's answer: the buffer ends with this token. *)
AtEnd(in, p) == p > Len(in.toks) \/ (p = Len(in.toks) /\ ~in.blank)

Lex(in, p) == IF p > Len(in.toks) THEN p ELSE p + 1

LexClean(in, p) == IF p = 0 \/ AtEnd(in, Lex(in, p)) THEN 0 ELSE Lex(in, p)

(* Where AdvanceTo stops; 0 when the last token of the buffer came first, even if it is of the kind. *)
AdvanceTo(in, p, kind) ==
  LET found == {q \in p + 1 .. Len(in.toks) : in.toks[q] = kind /\ ~AtEnd(in, q)}
  IN  IF p = 0 \/ found = {} THEN 0 ELSE Min(found)

Closer(t) ==
  CASE t = "(" -> ")" [] t = "{" -> "}" [] t = "[" -> "]" [] OTHER -> ">"

(* CheckBalance: the token that closes the one at p, the last of the buffer included. *)
CheckBalance(in, p) ==
  LET open  == Tok(in, p)
      depth(q) ==
        Cardinality({r \in p .. q : in.toks[r] = open}) - Cardinality({r \in p .. q : in.toks[r] = Closer(open)})
      found == {q \in p + 1 .. Len(in.toks) : depth(q) = 0}
  IN  IF p = 0 \/ found = {} THEN 0 ELSE Min(found)

(* SkipScopes: the token after A::B::C, and the last identifier of the chain (LastTok). *)
RECURSIVE SkipScopesFrom(_, _, _)
SkipScopesFrom(in, p, last) ==
  IF p = 0 \/ Tok(in, p) # "::" THEN [at |-> p, last |-> last]
  ELSE LET name == LexClean(in, p)
       IN  IF IsIdentifier(in, name) THEN SkipScopesFrom(in, LexClean(in, name), name)
           ELSE [at |-> 0, last |-> 0]

SkipScopes(in, p) == SkipScopesFrom(in, p, p)

RECURSIVE SkipPointerRefs(_, _)
SkipPointerRefs(in, p) ==
  IF Tok(in, p) \in {"*", "&"} THEN SkipPointerRefs(in, LexClean(in, p)) ELSE p

(* What follows the keyword operator: its symbol, then the parameters. *)
SkipOperator(in, p) ==
  CASE Tok(in, p) \in {"(", "["} -> LexClean(in, CheckBalance(in, p))
    [] Tok(in, p) = "\"\"" -> LexClean(in, LexClean(in, p))
    [] OTHER -> LexClean(in, p)

(* What follows the name whose last identifier is at name. *)
EndOfName(in, name, p) ==
  IF ~IsIdentifier(in, name) THEN 0
  ELSE SkipScopes(in, IF Tok(in, name) = "operator" THEN SkipOperator(in, p) ELSE p).at

(* A second chain of scopes begins with '::', or the first one ends in the name. *)
SkipName(in, last, next) ==
  LET chain == SkipScopes(in, next)
  IN  EndOfName(in, IF Tok(in, next) = "::" THEN chain.last ELSE last, chain.at)

NameAfter(in, scope) == SkipName(in, scope.last, LexClean(in, scope.at))

(* SkipIdentifier *)
SkipIdentifier(in, p) ==
  NameAfter(in, SkipScopes(in, IF IsIdentifier(in, p) THEN p
                               ELSE SkipPointerRefs(in, SkipScopes(in, p).at)))

(* The chain CLASS::NESTED<...>::name: the token after it and the last two identifiers. *)
RECURSIVE QualifiedName(_, _, _, _)
QualifiedName(in, p, first, ident) ==
  LET q     == LexClean(in, p)
      isId  == IsIdentifier(in, q)
      f     == IF isId /\ ident # "" THEN ident ELSE first
      i     == IF isId THEN Tok(in, q) ELSE ident
      after == IF isId THEN LexClean(in, q) ELSE q
      end   == IF isId /\ Tok(in, after) = "<" THEN LexClean(in, CheckBalance(in, after)) ELSE after
  IN  IF Tok(in, end) = "::" THEN QualifiedName(in, end, f, i)
      ELSE [at |-> end, first |-> f, ident |-> i]

NoDefinition == [kind |-> "none", at |-> 0, body |-> TRUE]
Definition(kind, p, body) == IF p = 0 THEN NoDefinition ELSE [kind |-> kind, at |-> p, body |-> body]

(* = default; and its like: the ends of the words behind the '='. *)
Defaulted(in, word, semi) ==
  IF /\ AtEnd(in, word) => IsIdentifier(in, word)
     /\ AtEnd(in, semi) => Tok(in, semi) = ";"
  THEN Definition("function", semi, FALSE) ELSE NoDefinition

(* What follows the parameters. *)
AfterParameters(in, p, what) ==
  LET t == Tok(in, p)
  IN  CASE t = "{" -> Definition("function", p, TRUE)
        [] what = "ctor" /\ t = ":" -> Definition("function", AdvanceTo(in, p, "{"), TRUE)
        [] what # "other" /\ t = "=" -> Defaulted(in, Lex(in, p), Lex(in, Lex(in, p)))
        [] what # "ctor" /\ t = "const" /\ Tok(in, LexClean(in, p)) = "{" ->
             Definition("function", LexClean(in, p), TRUE)
        [] OTHER -> NoDefinition

(* The parameters of a constructor, a destructor or another function. *)
AfterName(in, p, what) ==
  AfterParameters(in, IF Tok(in, p) = "(" THEN LexClean(in, CheckBalance(in, p)) ELSE 0, what)

(* The class, the name of its member, and what is behind it. *)
MemberDefinition(in, class, member, p, what) ==
  IF class = member THEN AfterName(in, p, what)
  ELSE AfterName(in, SkipScopes(in, SkipIdentifier(in, SkipPointerRefs(in, p))).at, "other")

DestructorDefinition(in, q, name) ==
  IF ~IsIdentifier(in, name) THEN NoDefinition
  ELSE MemberDefinition(in, IF q.ident # "" THEN q.ident ELSE q.first, Tok(in, name),
                        LexClean(in, name), "dtor")

(* CLASS::CLASS(), CLASS::~CLASS(), CLASS::type name() *)
MemberOf(in, q) ==
  IF Tok(in, q.at) = "~" THEN DestructorDefinition(in, q, LexClean(in, q.at))
  ELSE MemberDefinition(in, q.first, q.ident, q.at, "ctor")

QualifiedDefinition(in, p, first) == MemberOf(in, QualifiedName(in, p, first, ""))

(* The name of a class: the token after A::B::C. *)
RECURSIVE ClassName(_, _)
ClassName(in, p) ==
  LET q == IF IsIdentifier(in, p) THEN LexClean(in, p) ELSE 0
  IN  IF Tok(in, q) = "::" /\ LexClean(in, q) # 0 THEN ClassName(in, LexClean(in, q)) ELSE q

Modifier == {"signed", "unsigned", "short", "long"}

(* Mutant: the second word of the type is taken for the name. *)
FunctionNameUnmodified(in, p, first) ==
  SkipIdentifier(in, IF first \in {"static", "constexpr", "inline", "const"} THEN LexClean(in, p) ELSE p)

(* The name of a function, behind at most one specifier and one modifier. *)
FunctionName(in, p, first) ==
  LET specified == first \in {"static", "constexpr", "inline", "const"}
      modifier  == IF specified THEN Tok(in, p) ELSE first
      name      == SkipIdentifier(in, IF specified THEN LexClean(in, p) ELSE p)
  IN  IF modifier \in Modifier /\ Tok(in, name) # "(" THEN SkipIdentifier(in, name) ELSE name

(* Behind the name of a class: its bases or its body, or a function that returns it. *)
AfterClassName(in, p) ==
  CASE Tok(in, p) = "{" -> Definition("class", p, TRUE)
    [] Tok(in, p) = ":" -> Definition("class", AdvanceTo(in, p, "{"), TRUE)
    [] OTHER -> AfterName(in, SkipIdentifier(in, p), "other")

(* The definition that begins with the identifier first, and goes on at p. *)
DefinitionAfter(in, first, p) ==
  CASE Tok(in, p) = "(" -> NoDefinition
    [] Tok(in, p) = "::" -> QualifiedDefinition(in, p, first)
    [] OTHER -> IF first \in {"struct", "class"} THEN AfterClassName(in, ClassName(in, p))
                ELSE AfterName(in, FunctionName(in, p, first), "other")

(* IsClassOrFunction: the definition whose first identifier is at p, and its '{' or its last ';'. *)
IsClassOrFunction(in, p) == DefinitionAfter(in, Tok(in, p), LexClean(in, p))

(* What getWrapPoint answers: npos, an offset, or npos after it has added the ';' of a class. *)
NoWrap == [how |-> "npos", at |-> 0]
WrapAt(p) == [how |-> "wrap", at |-> p]
AddSemi(p) == [how |-> "semi", at |-> p]

(* Behind a definition that ends at p: a ';', a variable of the class, statements. *)
AfterDefinition(in, kind, p) ==
  LET next    == Lex(in, p)
      semi    == Tok(in, next) = ";"
      later   == {q \in next + 1 .. Len(in.toks) : in.toks[q] = ";"}
      more    == Lex(in, next)
      ends    == IF semi \/ AtEnd(in, next) THEN AtEnd(in, next) \/ AtEnd(in, more)
                 ELSE kind = "class" /\ AdvanceTo(in, next, ";") = 0
      hasSemi == semi \/ (kind = "class" /\ ~AtEnd(in, next) /\ later # {})
  IN  CASE ~ends -> WrapAt(IF semi THEN more ELSE next)
        [] ends /\ kind = "class" /\ ~hasSemi ->
             IF IsIdentifier(in, next) THEN WrapAt(1) ELSE AddSemi(p)
        [] OTHER -> NoWrap

(* [[...]], as often as it comes; 0 when it is something else. *)
RECURSIVE SkipAttributes(_, _)
SkipAttributes(in, p) ==
  IF Tok(in, p) # "[" THEN p
  ELSE LET inner == Lex(in, p)
           outer == Lex(in, CheckBalance(in, inner))
       IN  IF Tok(in, inner) = "[" /\ CheckBalance(in, inner) # 0 /\ Tok(in, outer) = "]"
           THEN SkipAttributes(in, Lex(in, outer)) ELSE 0

(* The first token that is not of a preprocessor directive; 0 if there is none. *)
RECURSIVE SkipDirectives(_, _)
SkipDirectives(in, p) ==
  LET q == Lex(in, p)
  IN  CASE Tok(in, q) = "#" -> LET e == AdvanceTo(in, q, "eod")
                               IN  IF e = 0 THEN 0 ELSE SkipDirectives(in, e)
        [] Tok(in, q) = "eof" -> 0
        [] OTHER -> q

AfterUsing(semi) == IF semi = 0 THEN NoWrap ELSE WrapAt(semi + 1)

(* A definition, if it is one, whose body ends. *)
WrapBehind(in, d) ==
  LET end == IF d.body THEN CheckBalance(in, d.at) ELSE d.at
  IN  IF d.kind # "none" /\ end # 0 THEN AfterDefinition(in, d.kind, end) ELSE WrapAt(1)

(* Attributes are skipped up to p, and a '::' behind them. *)
WrapFrom(in, p) ==
  CASE p = 0 \/ ~IsIdentifier(in, p) -> WrapAt(1)
    [] Tok(in, p) = "using" -> AfterUsing(AdvanceTo(in, p, ";"))
    [] Tok(in, p) \in {"extern", "namespace", "template"} -> NoWrap
    [] OTHER -> WrapBehind(in, IsClassOrFunction(in, p))

SkipGlobal(in, p) == IF Tok(in, p) = "::" THEN Lex(in, p) ELSE p

WrapFirst(in, p) == IF p = 0 THEN NoWrap ELSE WrapFrom(in, SkipGlobal(in, SkipAttributes(in, p)))

(* getWrapPoint *)
WrapPoint(in) == WrapFirst(in, SkipDirectives(in, 0))

=============================================================================
