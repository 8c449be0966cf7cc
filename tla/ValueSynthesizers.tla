------------------------- MODULE ValueSynthesizers -------------------------
(***************************************************************************)
(* What the transformers make of the body of a wrapper: AutoSynthesizer,    *)
(* ValuePrinterSynthesizer, the extraction of declarations (DeclExtractor   *)
(* models it by itself), ValueExtractionSynthesizer and                     *)
(* CheckEmptyTransactionTransformer, in the order of SetTransformers().     *)
(* A statement is its kind, the type of the value it has, the types of the  *)
(* values it may return, and whether its value is handed to the caller.     *)
(***************************************************************************)
EXTENDS Integers, Sequences, SequencesExt, Values

(* The elements of s at the positions P, in their order. *)
Subsequence(s, P) ==
  [k \in 1 .. Cardinality(P) |-> s[CHOOSE i \in P : Cardinality({j \in P : j <= i}) = k]]

Stmt(kind, ty, returns) == [kind |-> kind, type |-> ty, returns |-> returns, valued |-> FALSE]
Null == Stmt("null", "none", {})

(* The options of a compilation: ValuePrinting, ResultEvaluation, DeclarationExtraction. *)
Options(printing, result, extraction) ==
  [printing |-> printing, result |-> result, extraction |-> extraction]

(* Analyze::GetOrCreateLastExpr: behind a declaration of a variable, the variable is an expression. *)
LastStmt(body) ==
  LET code == {i \in 1 .. Len(body) : body[i].kind # "null"} IN IF code = {} THEN 0 ELSE Max(code)

(* The value of a variable of a class is a reference to it. *)
LValueOf(ty) == IF ty \in {"record", "plain", "quiet", "nocopy"} THEN "reference" ELSE ty

(* AutoFixer::Fix: a variable that is declared by an assignment is declared just before it. *)
DeclareAuto(body) ==
  FlattenSeq([i \in 1 .. Len(body) |->
    IF body[i].kind = "auto"
    THEN <<Stmt("decl", body[i].type, {}), Stmt("expr", LValueOf(body[i].type), {})>>
    ELSE <<body[i]>>])

WithLastExpr(body) ==
  LET i == LastStmt(body)
  IN  IF i # 0 /\ body[i].kind = "decl" THEN InsertAt(body, i + 1, Stmt("expr", LValueOf(body[i].type), {}))
      ELSE body

(* ClearNullStmts *)
Cleared(body) == Subsequence(body, {i \in 1 .. Len(body) : body[i].kind # "null"})

(* Mutant: the ';' behind the last expression does not count. *)
AttachPrinterAlways(body, co) ==
  LET b == WithLastExpr(body)
      i == LastStmt(b)
  IN  IF co.printing = "disabled" THEN [body |-> body, co |-> co]
      ELSE IF i = 0 \/ b[i].kind # "expr" THEN [body |-> body, co |-> [co EXCEPT !.printing = "disabled"]]
      ELSE [body |-> Cleared(b), co |-> [co EXCEPT !.printing = "enabled"]]

(* ValuePrinterSynthesizer::tryAttachVP *)
AttachPrinter(body, co) ==
  LET b      == WithLastExpr(body)
      i      == LastStmt(b)
      hidden == co.printing = "auto" /\ i < Len(b) /\ b[i + 1].kind = "null"
  IN  IF co.printing = "disabled" THEN [body |-> body, co |-> co]
      ELSE IF i = 0 \/ b[i].kind # "expr" THEN [body |-> body, co |-> [co EXCEPT !.printing = "disabled"]]
      ELSE IF hidden THEN [body |-> b, co |-> [co EXCEPT !.printing = "disabled"]]
      ELSE [body |-> IF Cleared(b) = <<>> THEN b ELSE Cleared(b), co |-> [co EXCEPT !.printing = "enabled"]]

(* DeclExtractor: the declarations of the body become global, and what is in front of the last *)
(* of them becomes an initializer (EnforceInitOrder), whose return is its own.                *)
ExtractDecls(body, co) ==
  LET decls == {i \in 1 .. Len(body) : body[i].kind \in {"decl", "type"}}
      from  == IF decls = {} THEN 1 ELSE Max(decls) + 1
  IN  IF co.extraction THEN Subsequence(body, {i \in from .. Len(body) : body[i].kind # "using"}) ELSE body

(* SynthesizeSVRInit: how a value of the type reaches the caller. *)
Transport(ty) ==
  CASE ty \in {"void", "int", "float", "pointer", "reference", "function"} -> "setValueNoAlloc"
    [] ty \in {"record", "plain", "quiet", "array", "matrix", "member"} -> "setValueWithAlloc"
    [] ty = "unknown" -> "diagnosed"
    [] OTHER -> "none"

(* ValueExtractionSynthesizer::Transform: the return statements and the last expression give *)
(* their values away, except an object that cannot be copied and one of a dependent type.    *)
ExtractValue(body, co) ==
  LET b == WithLastExpr(body)
      i == LastStmt(b)
  IN  IF (co.printing = "disabled" /\ ~co.result) \/ i = 0 THEN body
      ELSE [j \in 1 .. Len(b) |->
              [b[j] EXCEPT !.valued = b[j].returns # {}
                                        \/ (j = i /\ b[j].kind = "expr" /\ Transport(b[j].type) # "none")]]

Diagnosed(body) ==
  \E j \in 1 .. Len(body) : body[j].valued /\ "unknown" \in {body[j].type} \cup body[j].returns

(* CheckEmptyTransactionTransformer *)
IsEmptyWrapper(body) == body = <<>> \/ (Len(body) = 1 /\ body[1].kind = "null")

(* The wrapper as it is compiled, and the options it has in the end. *)
Transformed(body, co) ==
  LET printer == AttachPrinter(DeclareAuto(body), co)
  IN  [body |-> ExtractValue(ExtractDecls(printer.body, printer.co), printer.co), co |-> printer.co]

=============================================================================
