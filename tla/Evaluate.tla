------------------------------ MODULE Evaluate ------------------------------
(***************************************************************************)
(* An input from its text to its value (Interpreter.cpp): the wrap point,   *)
(* the wrapper and its transformers, the run, the Value the caller gets and *)
(* what is printed; and what callers do with their Values afterwards.  An   *)
(* input is pieces of text; the parser's part is whether each of them stands *)
(* where the language allows it.                                            *)
(***************************************************************************)
EXTENDS Naturals, ValueSynthesizers

CONSTANTS
  Session,       \* what the embedding program does in a behaviour
  Inputs(_),     \* session -> the inputs it passes on
  WrapPointOf(_), \* input -> where its wrapper begins, SourceNormalization
  Calls(_),      \* session -> the entry points it uses
  MaxInputs(_)   \* session -> how many inputs it passes on

VARIABLES
  session,
  raw,           \* m_RawInputEnabled
  last,          \* the last input, how it went, what it found in V and what it printed
  inputs         \* the inputs so far

vars == <<session, raw, heap, last, selfAssigned, inputs>>

(* No Value is given. *)
NoValue == "no value"

(* process() with disableValuePrinting. *)
Quiet == "process quietly"

NotWrapped == [how |-> "npos", at |-> 0]
AllWrapped == [how |-> "wrap", at |-> 1]

-----------------------------------------------------------------------------
(* Pieces: the tokens, the sort of the piece, the type of its value, the types it may return. *)

Tokens(pieces) == FlattenSeq([i \in 1 .. Len(pieces) |-> pieces[i].toks])
Source(in) == [toks |-> Tokens(in.pieces), blank |-> in.blank]

(* External: what the language allows outside of functions, and inside. *)
AtTop == {"directive", "function", "class", "using", "template", "extern", "variable", "type", "null"}
InBody == {"directive", "class", "using", "variable", "type", "null", "value", "auto", "return", "cond"}

(* A piece that ends here, without what comes behind it. *)
IsComplete(piece) ==
  \/ piece.toks[Len(piece.toks)] = ";"
  \/ piece.sort \in {"directive", "function", "template", "extern"}

EndOf(pieces, k) == Len(Tokens(SubSeq(pieces, 1, k)))

ParsesAtTop(pieces, added) ==
  \A i \in 1 .. Len(pieces) :
    pieces[i].sort \in AtTop /\ (IsComplete(pieces[i]) \/ (pieces[i].sort = "class" /\ EndOf(pieces, i) = added))

ParsesInBody(pieces) ==
  \A i \in 1 .. Len(pieces) : pieces[i].sort \in InBody /\ (i < Len(pieces) => IsComplete(pieces[i]))

(* The pieces in front of the wrapper. *)
Before(pieces, p) == {k \in 0 .. Len(pieces) : EndOf(pieces, k) + 1 = p}

StmtOf(piece) ==
  CASE piece.sort = "value" -> Stmt("expr", piece.type, {})
    [] piece.sort = "auto" -> Stmt("auto", piece.type, {})
    [] piece.sort = "variable" -> Stmt("decl", piece.type, {})
    [] piece.sort \in {"return", "cond"} -> Stmt(piece.sort, "none", piece.returns)
    [] piece.sort = "null" -> Null
    [] piece.sort = "using" -> Stmt("using", "none", {})
    [] OTHER -> Stmt("type", "none", {})

(* WrapInput: the rest of the input, and "\n;\n}", which ends it or is a statement of its own. *)
WrapperBody(pieces) ==
  LET code == Subsequence(pieces, {i \in 1 .. Len(pieces) : pieces[i].sort # "directive"})
      stmts == [i \in 1 .. Len(code) |-> StmtOf(code[i])]
  IN  IF code = <<>> \/ IsComplete(Last(code)) THEN Append(stmts, Null) ELSE stmts

(* What the transaction of an input has besides its wrapper. *)
HasContents(top, rest, extraction) ==
  \/ top # <<>>
  \/ \E i \in 1 .. Len(rest) :
       \/ rest[i].sort = "directive"
       \/ extraction /\ rest[i].sort \in {"variable", "auto", "class", "type"}

(* A piece as the parser gives it: a ';' by itself is one; what has a value has its type. *)
ValueSort == {"value", "variable", "auto"}
ValueType == Type \cup {"function", "unknown"}
Piece ==
  {piece \in [sort : AtTop \cup InBody, toks : Seq(STRING), type : ValueType \cup {"none"}, returns : SUBSET ValueType] :
     /\ piece.sort = "null" => IsComplete(piece)
     /\ piece.sort \in ValueSort => piece.type # "none"
     /\ piece.sort \in {"return", "cond"} <=> piece.returns # {}}

(* In front of a wrapper there are directives, definitions and using-declarations. *)
EvaluateAssumption ==
  /\ resultV \notin Handle /\ NoValue \notin Handle
  /\ \A s \in Session : \A in \in Inputs(s) :
       /\ in.pieces \in Seq(Piece)
       /\ WrapPointOf(Source(in)).how = "wrap" =>
            \A k \in Before(in.pieces, WrapPointOf(Source(in)).at) :
              \A i \in 1 .. k : in.pieces[i].sort # "variable"

ASSUME EvaluateAssumption

-----------------------------------------------------------------------------
(* Interpreter::DeclareInternal and EvaluateInternal. *)

Report(call, in, way, answer, target, printed) ==
  [call |-> call, in |-> in, way |-> way, answer |-> answer, target |-> target,
   before |-> IF target = NoValue THEN Invalid ELSE heap.values[target], printed |-> printed]

NoReport == [call |-> "none", printed |-> <<>>]

Answer(ok) == IF ok THEN "success" ELSE "failure"

(* The caller's Value stays as it is. *)
DeclareInternal(call, in, target) ==
  /\ last' = Report(call, in, "declared", Answer(ParsesAtTop(in.pieces, 0)), target, <<>>)
  /\ UNCHANGED heap

(* Mutant: an earlier value stays. *)
KeepValue(h, target) == h

(* *V = Value() *)
Reset(h, target) == IF target = NoValue THEN h ELSE AssignTemporary(h, target, Invalid)

(* The statement whose value is handed over in this run, 0 if there is none. *)
Leaves(body, taken) == {j \in 1 .. Len(body) : body[j].kind = "return" \/ (body[j].kind = "cond" /\ taken)}
Handing(body, taken) ==
  LET stop == IF Leaves(body, taken) = {} THEN Len(body) ELSE Min(Leaves(body, taken))
      js   == {j \in 1 .. stop : body[j].valued /\ (body[j].kind = "cond" => taken)}
  IN  IF js = {} THEN 0 ELSE Max(js)

HandedTypes(stmt) == IF stmt.kind = "expr" THEN {stmt.type} ELSE stmt.returns

(* setValueNoAlloc, or the placement new behind setValueWithAlloc; a function is its address. *)
HandOver(h, x, ty, outcome) ==
  LET made == Allocate(h, x, IF ty = "function" THEN "pointer" ELSE ty)
  IN  CASE Transport(ty) = "setValueWithAlloc" -> ConstructPayload(made, made.values[x].block, outcome)
        [] Transport(ty) = "setValueNoAlloc" /\ outcome = "built" -> made
        [] OTHER -> h

(* dumpIfNoStorage() in the wrapper, dump() after it. *)
Printed(h, x, ty, co) ==
  IF co.printing = "disabled" \/ Transport(ty) = "none" \/ ty = "void" THEN <<>> ELSE <<h.values[x].type>>

(* Mutant: resultV keeps its value. *)
LeaveResultV(h, target) == h

(* ~Value() of resultV *)
LeaveScope(h, target) == IF target = NoValue THEN Destroy(h, resultV) ELSE h

(* RunFunction: the Value is reset, the wrapper runs, and resultV goes.  An exception of the *)
(* user's code passes through.                                                               *)
RunWrapper(call, in, target, body, co) ==
  \E taken \in BOOLEAN :
  LET x    == IF target = NoValue THEN resultV ELSE target
      j    == Handing(body, taken)
      h    == Reset(heap, x)
  IN  IF j = 0
      THEN /\ heap' = LeaveScope(h, target)
           /\ last' = Report(call, in, "run", "success", target, <<>>)
      ELSE \E ty \in HandedTypes(body[j]), outcome \in {"built", "raw", "torn"} :
           LET r == HandOver(h, x, ty, outcome)
           IN  /\ outcome = "torn" => ty \in {"record", "array"}
               /\ heap' = LeaveScope(r, target)
               /\ last' = IF outcome = "built"
                          THEN Report(call, in, "run", "success", target, Printed(r, x, ty, co))
                          ELSE Report(call, in, "run", "thrown", target, <<>>)

(* The transaction of an input that compiles: its wrapper is made as the transformers leave it. *)
FinishTransaction(call, in, target, empty, decls, made) ==
  CASE empty /\ ~decls ->
         /\ heap' = Reset(heap, target)
         /\ last' = Report(call, in, "empty", "success", target, <<>>)
    [] empty /\ decls ->
         /\ last' = Report(call, in, "no wrapper", "success", target, <<>>)
         /\ UNCHANGED heap
    [] OTHER -> RunWrapper(call, in, target, made.body, made.co)

(* The pieces before the wrap point, and those in the wrapper. *)
Compile(call, in, wrap, options, target, top, rest, made) ==
  IF /\ ParsesAtTop(top, IF wrap.how = "semi" THEN wrap.at ELSE 0)
     /\ ParsesInBody(rest)
     /\ ~Diagnosed(made.body)
  THEN FinishTransaction(call, in, target, wrap.how # "wrap" \/ IsEmptyWrapper(made.body),
                         HasContents(top, rest, options.extraction), made)
  ELSE /\ heap' = Reset(heap, target)
       /\ last' = Report(call, in, "compiled", "failure", target, <<>>)

Cuts(in, wrap) == IF wrap.how = "wrap" THEN Before(in.pieces, wrap.at) ELSE {Len(in.pieces)}

EvaluateInternal(call, in, wrap, options, target) ==
  LET k    == Min(Cuts(in, wrap))
      rest == SubSeq(in.pieces, k + 1, Len(in.pieces))
  IN  IF Cuts(in, wrap) = {}
      THEN /\ heap' = Reset(heap, target)
           /\ last' = Report(call, in, "compiled", "failure", target, <<>>)
      ELSE Compile(call, in, wrap, options, target, SubSeq(in.pieces, 1, k), rest,
                   Transformed(WrapperBody(rest), options))

Targets == Handle \cup {NoValue}

Takes(call) ==
  /\ call \in Calls(session)
  /\ inputs' = inputs + 1
  /\ UNCHANGED <<session, raw, selfAssigned>>

ProcessAt(in, wrap, target, disabled) ==
  IF wrap.how = "npos" THEN DeclareInternal("process", in, target)
  ELSE EvaluateInternal(IF disabled THEN Quiet ELSE "process", in, wrap,
         Options(IF disabled THEN "disabled" ELSE "auto", target # NoValue, TRUE), target)

(* Interpreter::process *)
Process(in, target, disabled) ==
  /\ Takes("process")
  /\ ProcessAt(in, IF raw THEN NotWrapped ELSE WrapPointOf(Source(in)), target, disabled)

(* Interpreter::evaluate, echo and execute: all of it is wrapped, nothing is extracted. *)
EvaluateInput(in, target) ==
  /\ Takes("evaluate") /\ target # NoValue
  /\ EvaluateInternal("evaluate", in, AllWrapped, Options("disabled", TRUE, FALSE), target)

Echo(in, target) ==
  /\ Takes("echo")
  /\ EvaluateInternal("echo", in, AllWrapped, Options("enabled", target # NoValue, FALSE), target)

Execute(in) ==
  /\ Takes("execute")
  /\ EvaluateInternal("execute", in, AllWrapped, Options("disabled", FALSE, FALSE), NoValue)

(* Interpreter::declare, parse and parseForModule. *)
Declare(in) ==
  /\ Takes("declare")
  /\ DeclareInternal("declare", in, NoValue)

(* enableRawInput() *)
ToggleRawInput ==
  /\ "raw" \in Calls(session)
  /\ raw' = ~raw
  /\ last' = NoReport
  /\ UNCHANGED <<session, heap, selfAssigned, inputs>>

(* The callers' own use of their Values. *)
UseValues(x, y) ==
  /\ "own" \in Calls(session)
  /\ DropValue(x) \/ AssignValue(x, y) \/ MoveValue(x, y) \/ Renew(x, y) \/ RenewByMove(x, y)
  /\ last' = NoReport
  /\ UNCHANGED <<session, raw, inputs>>

-----------------------------------------------------------------------------
(* What an input says of its value, read off its text. *)

(* The pieces that have code, and whether a ';' ends the last of them. *)
CodeWithout(in, sorts) ==
  Subsequence(in.pieces, {i \in 1 .. Len(in.pieces) : in.pieces[i].sort \notin {"directive", "null"} \cup sorts})
Code(in) == CodeWithout(in, {})

LastOf(pieces) == IF pieces = <<>> THEN [sort |-> "none"] ELSE Last(pieces)

(* process() takes using-declarations out with the other declarations: what is before them is last. *)
Ending(report) ==
  LastOf(CodeWithout(report.in, IF report.call \in {"process", Quiet} THEN {"using"} ELSE {}))
IsHidden(in) == IsComplete(Last(in.pieces))

(* The Value that stands for a type: an object that is not a temporary is referred to. *)
ValueOf(sort, ty) ==
  LET t == IF sort = "value" THEN ty ELSE LValueOf(ty)
  IN  CASE Transport(t) \in {"none", "diagnosed"} -> "none"
        [] t = "function" -> "pointer"
        [] OTHER -> t

ReturnsValue(in, ty) ==
  \E i \in 1 .. Len(in.pieces) : ty \in {ValueOf("value", r) : r \in in.pieces[i].returns}

EndsInValue(report) == Ending(report).sort \in ValueSort
IsValueOf(report, ty) ==
  \/ EndsInValue(report) /\ ty = ValueOf(Ending(report).sort, Ending(report).type)
  \/ ReturnsValue(report.in, ty)

(* Whichever way the input is left. *)
HasValue(report) == EndsInValue(report) /\ ~IsValueOf(report, "none")

(* Nothing stands for a variable that has been extracted, unless the printer has put it there, *)
(* which looks at the last statement only.                                                    *)
IsLost(report) ==
  /\ Ending(report).sort = "variable"
  /\ report.call = Quiet \/ LastOf(Code(report.in)) # Ending(report)

-----------------------------------------------------------------------------
(* An input that has directives, at most one definition, and statements, the last of them     *)
(* perhaps without its ';', is accepted, but for what getWrapPoint misses: all of the text     *)
(* behind a template or a namespace; the last token of the text, when it is the only one      *)
(* behind a definition; what is behind a class with variables that ends with a ';'; and       *)
(* variables of a class that do not begin with a name.  SourceNormalization.cpp:435.          *)
First(in) == IF Code(in) = <<>> THEN [sort |-> "none"] ELSE Head(Code(in))
Behind(in) ==
  LET i == Min({j \in 1 .. Len(in.pieces) : in.pieces[j] = First(in)})
  IN  Len(Source(in).toks) - EndOf(in.pieces, i)

IsMissed(in) ==
  LET f == First(in)
      isClass == f.toks[1] \in {"struct", "class"}
  IN  CASE f.sort \in {"template", "extern"} -> Behind(in) > 0
        [] f.sort \in {"function", "class"} -> Behind(in) = 1 /\ ~in.blank
        [] f.sort = "variable" -> isClass /\ (IF IsComplete(f) THEN in.blank \/ Behind(in) > 0 ELSE "*" \in Range(f.toks))
        [] OTHER -> FALSE

Definitions(in) == {i \in 1 .. Len(in.pieces) : in.pieces[i].sort \notin InBody}
IsSensible(in) ==
  /\ \A i \in 1 .. Len(in.pieces) - 1 : IsComplete(in.pieces[i])
  /\ \A i \in Definitions(in) : \A j \in 1 .. i - 1 : in.pieces[j].sort = "directive"
  /\ Cardinality(Definitions(in)) <= 1
  /\ \A i \in 1 .. Len(in.pieces) : in.pieces[i].type # "unknown"
Wraps ==
  last.call \in {"process", Quiet} /\ ~raw /\ IsSensible(last.in) /\ ~IsMissed(last.in) =>
    last.answer # "failure"

(* The caller's Value: an input that fails to compile or throws leaves no value of an earlier *)
(* one; an input that runs leaves the value of one of its return statements or of its last    *)
(* statement, of the type the text gives it, or none; otherwise the Value is as it was or     *)
(* reset.  EvaluateInternal, Interpreter.cpp:1376.                                            *)
FreshValue ==
  last.call # "none" /\ last.target # NoValue =>
    LET v == heap.values[last.target]
    IN  /\ last.way = "declared" => v = last.before
        /\ last.way \in {"empty", "no wrapper"} => v \in {last.before, Invalid}
        /\ last.way = "compiled" => ~IsValid(v)
        /\ last.answer = "thrown" => (IsValid(v) => v.owns /\ heap.blocks[v.block].built = 0)
        /\ last.way = "run" /\ last.answer = "success" =>
             IF IsValid(v) THEN IsValueOf(last, v.type) ELSE HasValue(last) => IsLost(last)

(* The prompt prints the value of a statement that has no ';', and no other; an object is     *)
(* printed when it is complete.  tryAttachVP, ValuePrinterSynthesizer.cpp:54.                 *)
PrintsIffAsked ==
  last.call = "process" /\ last.way # "declared" /\ last.answer = "success" =>
    IF LastOf(Code(last.in)).sort \notin ValueSort \/ IsHidden(last.in) THEN last.printed = <<>>
    ELSE \E ty \in {"none", "void"} \cup {last.printed[i] : i \in 1 .. Len(last.printed)} :
           /\ IsValueOf(last, ty)
           /\ last.printed = IF ty \in {"none", "void"} THEN <<>> ELSE <<ty>>

-----------------------------------------------------------------------------
Init ==
  /\ session \in Session
  /\ raw = FALSE
  /\ ValuesInit
  /\ last = NoReport
  /\ inputs = 0

InputStep ==
  inputs < MaxInputs(session) /\
    \E in \in Inputs(session) :
      \/ \E target \in Targets :
           \/ \E disabled \in BOOLEAN : Process(in, target, disabled)
           \/ EvaluateInput(in, target)
           \/ Echo(in, target)
      \/ Execute(in)
      \/ Declare(in)

Next ==
  \/ InputStep
  \/ ToggleRawInput
  \/ \E x, y \in Handle : UseValues(x, y)

(* After a freed block has been used anything may happen. *)
Spec == Init /\ [][~heap.misused /\ Next]_vars

=============================================================================
