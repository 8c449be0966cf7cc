----------------------------- MODULE MCEvaluate -----------------------------
(***************************************************************************)
(* Embedding programs for TLC: one passes on every input of up to two       *)
(* pieces, one goes on with a few inputs and Values of its own.             *)
(***************************************************************************)
EXTENDS Evaluate, SourceNormalization, TLC

CONSTANTS v1, v2

Part(sort, toks, ty, returns) == [sort |-> sort, toks |-> toks, type |-> ty, returns |-> returns]
Plain(sort, toks) == Part(sort, toks, "none", {})
Value(toks, ty) == Part("value", toks, ty, {})

Directive == Plain("directive", <<"#", "define", "M", "eod">>)

Functions ==
  {Plain("function", t) : t \in {
     <<"int", "f", "(", ")", "{", "}">>,
     <<"T", "*", "f", "(", "int", ")", "{", "{", "}", "}">>,
     <<"static", "unsigned", "long", "f", "(", ")", "{", "}">>,
     <<"[", "[", "a", "]", "]", "int", "f", "(", ")", "{", "}">>,
     <<"A", "::", "A", "(", ")", ":", "x", "(", "1", ")", "{", "}">>,
     <<"A", "::", "~", "A", "(", ")", "{", "}">>,
     <<"A", "::", "B", "f", "(", ")", "const", "{", "}">>,
     <<"A", "::", "B", "<", "int", ">", "::", "B", "(", ")", "=", "default", ";">>,
     <<"A", "operator", "+", "(", "A", ")", "{", "}">>,
     <<"int", "A", "::", "operator", "(", ")", "(", ")", "{", "}">>,
     <<"class", "T", "f", "(", ")", "{", "}">>}}
    \cup {Plain("template", <<"template", "<", "class", "T", ">", "int", "f", "(", ")", "{", "}">>),
          Plain("extern", <<"extern", "\"\"", "int", "f", "(", ")", "{", "}">>),
          Plain("extern", <<"namespace", "N", "{", "}">>)}

Classes ==
  {Plain("class", t) : t \in {
     <<"struct", "T", "{", "}">>, <<"struct", "T", "{", "}", ";">>,
     <<"class", "A", "::", "T", ":", "public", "B", "{", "int", "x", ";", "}", ";">>}}

ClassVariables ==
  {Part("variable", t, "record", {}) : t \in {
     <<"struct", "T", "{", "}", "t">>, <<"struct", "T", "{", "}", "t", ";">>,
     <<"struct", "T", "{", "}", "*", "t">>, <<"struct", "T", "{", "}", "t", "=", "{", "}">>}}

Statements ==
  {Value(<<"f", "(", ")">>, "int"), Value(<<"f", "(", ")", ";">>, "int"), Value(<<"x">>, "int"),
   Value(<<"::", "f", "(", ")">>, "int"), Value(<<"[", "&", "]", "{", "}">>, "record"),
   Part("variable", <<"int", "x", "=", "1", ";">>, "int", {}),
   Part("variable", <<"unsigned", "long", "x">>, "int", {}),
   Part("auto", <<"x", "=", "1">>, "int", {}),
   Part("cond", <<"if", "(", "c", ")", "return", "1", ";">>, "none", {"int"}),
   Plain("using", <<"using", "A", "::", "B", ";">>),
   Plain("type", <<"typedef", "int", "I", ";">>), Plain("null", <<";">>)}

AllPieces == {Directive} \cup Functions \cup Classes \cup ClassVariables \cup Statements

Sequences(n) == UNION {[1 .. k -> AllPieces] : k \in 1 .. n}

Texts(seqs) == [pieces : seqs, blank : BOOLEAN]

(* A few inputs for values of every kind. *)
Returning(ty) == Part("return", <<"return", "x", ";">>, "none", {ty})
TypesOfValues ==
  {"void", "int", "pointer", "reference", "function", "record", "plain", "quiet", "array", "matrix",
   "member", "nocopy", "dependent", "unknown"}

OfValues ==
  {<<Value(<<"x">>, ty)>> : ty \in TypesOfValues}
    \cup {<<Value(<<"x", ";">>, ty)>> : ty \in {"int", "record"}}
    \cup {<<Part("variable", <<"T", "x">>, ty, {})>> : ty \in {"int", "record", "array", "nocopy"}}
    \cup {<<Part("variable", <<"int", "x", ";">>, "int", {})>>,
          <<Part("cond", <<"if", "(", "c", ")", "return", "x", ";">>, "none", {"record", "int"}),
            Value(<<"x">>, "array")>>,
          <<Returning("record"), Part("variable", <<"int", "x">>, "int", {})>>,
          <<Plain("type", <<"typedef", "int", "I", ";">>)>>, <<Plain("null", <<";">>)>>,
          <<Plain("function", <<"int", "f", "(", ")", "{", "}">>)>>}

OfObjects == {<<Value(<<"x">>, ty)>> : ty \in {"int", "record", "array", "quiet"}}

Symmetry == Permutations({v1, v2})

MCSession == {"texts", "values", "objects"}

MCInputs(s) ==
  CASE s = "texts" -> Texts(Sequences(2))
    [] s = "values" -> [pieces : OfValues, blank : {FALSE}]
    [] s = "objects" -> [pieces : OfObjects, blank : {FALSE}]

MCCalls(s) ==
  CASE s = "texts" -> {"process"}
    [] s = "values" -> {"process", "evaluate", "echo", "execute", "declare", "raw"}
    [] s = "objects" -> {"evaluate", "own"}

MCMaxInputs(s) == CASE s = "texts" -> 1 [] s = "values" -> 2 [] s = "objects" -> 3

=============================================================================
