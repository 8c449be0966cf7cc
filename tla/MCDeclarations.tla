---------------------------- MODULE MCDeclarations ----------------------------
EXTENDS Declarations

Opts == [shadow |-> FALSE, extract |-> TRUE, prompt |-> TRUE]
Shadowing == [Opts EXCEPT !.shadow = TRUE]

Var(n) == Item("variable", n)
Fun(n) == Item("function", n)
In(i, items) == [i EXCEPT !.in = items]
Static(i) == [i EXCEPT !.static = TRUE]
Using(i, names) == [i EXCEPT !.uses = names]

Chains ==
  [max |-> 3, opts |-> Opts,
   inputs |-> {Forward(Var("x")), Var("x"), Forward(Fun("f")), Static(Fun("s")),
               Forward(Item("record", "R")), Item("record", "R"), Item("typedef", "t"),
               Item("enum", "E"), Item("macro", "M")}]
Contexts ==
  [max |-> 3, opts |-> Opts,
   inputs |-> {Forward(Fun("f")), In(Item("namespace", "N"), <<Forward(Fun("f"))>>),
               In(Item("namespace", ""), <<Var("a")>>),
               In(Item("inline namespace", "V"), <<Forward(Fun("v"))>>),
               In(Item("extern C", ""), <<Forward(Fun("f"))>>),
               In(Item("extern C++", ""), <<Forward(Fun("f"))>>)}]
Temps ==
  [max |-> 3, opts |-> Opts,
   inputs |-> {Forward(Item("function template", "F")), Item("function template", "F"),
               Forward(Item("function specialization", "F")), Item("function specialization", "F"),
               Forward(Item("class template", "C")), Item("class template", "C"),
               Forward(Item("class specialization", "C")), Item("class specialization", "C"),
               Item("partial specialization", "C"),
               [Item("instance", "C") EXCEPT !.sig = 1], Item("member", "C")}]
Stmt(n) == Item("stmt", n)
W(items) == In(Item("wrapper", "__cling_Un1Qu3"), items)
Wraps ==
  [max |-> 3, opts |-> Opts,
   inputs |-> {Forward(Var("x")), W(<<Var("x")>>), W(<<Stmt("s1"), Var("y"), Stmt("s2"), Var("x")>>),
               W(<<Item("enum", "E"), Stmt("s1")>>), W(<<Stmt("s1")>>), W(<<Item("enum", ""), Var("y")>>)}]
Shadows ==
  [max |-> 3, opts |-> Shadowing,
   inputs |-> {Forward(Fun("f")), Fun("f"), [Fun("f") EXCEPT !.sig = 1], Var("f"), Item("enum", "E"), Item("function template", "f"),
               Forward(Item("record", "R")), Item("record", "R"), W(<<Stmt("s1"), Var("f")>>)}]
Header(i) == [i EXCEPT !.prompt = FALSE]
Headers ==
  [max |-> 3, opts |-> Shadowing,
   inputs |-> {Header(Forward(Fun("f"))), Fun("f"), Header(Var("x")), Forward(Var("x")), Header(Item("enum", "G")), Var("e"), Header(Forward(Item("record", "R"))), Item("record", "R")}]
Codes ==
  [max |-> 3, opts |-> Opts,
   inputs |-> {Fun("g"), Using(Fun("f"), {"g"}), Using(Fun("kept"), {"g"}),
               In(Fun("h"), <<Item("static local", "v")>>),
               Item("nested", "")}]
Nests ==
  [max |-> 3, opts |-> Opts,
   inputs |-> {In(Item("nested", ""), <<Var("x"), Item("macro", "M")>>),
               Item("macro", "M"), Forward(Item("macro", "M")), Forward(Var("x"))}]
Sessions_ == {Chains, Contexts, Temps, Wraps, Shadows, Headers, Codes, Nests}
=============================================================================
