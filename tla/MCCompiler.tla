----------------------------- MODULE MCCompiler -----------------------------
(***************************************************************************)
(* Programs, as the parser would give them.                                *)
(***************************************************************************)
EXTENDS Compiler, Syntax

Two == Num(2)
Minus1(n) == Arith("-", V(n), One)
App2(f, a, b) == App(App(f, a), b)
IsZero(n) == Comp("==", V(n), Zero)

OptionType ==
  Type("Option", <<"a">>, "Enum",
       <<Variant("Some", <<Var("a")>>), Variant("None", <<>>)>>, <<>>)

-----------------------------------------------------------------------------
(* Functions and data. *)
Functions == {
  Decl("id", Lam("x", V("x"))),
  \* count n acc loops; down too, by a match on a literal
  Decl("count", Lam("n", Lam("acc",
    If(IsZero("n"), V("acc"), App2(V("count"), Minus1("n"), Arith("+", V("acc"), Two)))))),
  Decl("down", Lam("n", LetIn("done", Lam("x", IsZero("x")), MatchOn(V("n"), <<
    Case(Zero, App(V("done"), V("n"))), Case(V("m"), App(V("down"), Minus1("m")))>>)))),
  \* sum is recursive, but not in tail position
  Decl("sum", Lam("l", MatchOn(V("l"), <<
    Case(ListOf(<<>>), Zero), Case(ConsOf(V("h"), V("t")), Arith("+", V("h"), App(V("sum"), V("t"))))>>))),
  \* the local loop captures k
  Decl("make", Lam("k",
    LetIn("step", Lam("n", If(IsZero("n"), V("k"), App(V("step"), Minus1("n")))),
      Arith("+", App(V("step"), Num(8)), V("k"))))),
  \* the inner fib is not the outer one
  Decl("fib", Lam("n",
    If(IsZero("n"), Zero, LetIn("fib", Lam("x", Arith("*", V("x"), Two)), App(V("fib"), V("n")))))),
  Decl("twice", Lam("g", Lam("x", App(V("g"), App(V("g"), V("x")))))),
  Decl("add", Lam("x", Lam("y", Arith("+", V("x"), V("y"))))),
  Decl("k", If(Logic("||", False, True), Un("-", Two), Zero)),
  OptionType,
  Decl("get", Lam("o", MatchOn(V("o"), <<
    Case(App(V("Some"), V("v")), V("v")), Case(V("None"), Zero)>>)))
}

FunctionUses == {
  Expr(If(App(V("id"), True), App(V("id"), One), Zero)),
  Expr(App2(V("count"), Num(8), Zero)),
  Expr(App(V("down"), Num(8))),
  Expr(App(V("sum"), ListOf(<<One, Two, App(V("id"), Num(3))>>))),
  Expr(App(V("make"), Num(4))),
  Expr(App(V("fib"), Num(5))),
  Expr(App2(V("twice"), App(V("add"), Two), One)),
  Expr(App(V("get"), App(V("Some"), App(V("id"), Num(7))))),
  Expr(LetIn("z", Two, App(Lam("y", Arith("-", V("y"), V("z"))), V("k")))),
  Expr(BlockOf(<<Decl("w", App(V("id"), V("k"))), Expr(V("w")), Decl("u", Lam("x", ConsOf(V("w"), V("x"))))>>,
               App(V("u"), ListOf(<<>>)))),
  Expr(Logic("&&", Comp(">", V("k"), Zero), App(V("down"), V("k")))),
  Expr(App(V("down"), True))
}

FunctionStatements == Functions \cup FunctionUses

-----------------------------------------------------------------------------
(* At and beyond the limits of the code generator. *)
LimitStatements == {
  Decl("id", Lam("x", V("x"))),
  Decl("twice", Lam("g", Lam("x", App(V("g"), App(V("g"), V("x")))))),
  Decl("add", Lam("x", Lam("y", Arith("+", V("x"), V("y"))))),
  Decl("inc", App(V("add"), One)),
  Decl("last", MatchOn(Two, <<Case(V("m"), V("m")), Case(Two, Zero)>>)),
  \* a lambda as an argument; with a capture; a partial application of id
  Expr(App2(V("twice"), Lam("y", Arith("*", V("y"), Two)), Num(3))),
  Expr(LetIn("z", Two, App2(V("twice"), Lam("y", Arith("+", V("y"), V("z"))), One))),
  Expr(App2(V("id"), V("id"), One)),
  \* id is another function in here, but not after it
  Expr(LetIn("id", Lam("x", Arith("+", V("x"), One)), App(V("id"), One))),
  Expr(App(V("id"), Num(4))),
  \* the name of a block used after it
  Expr(BlockOf(<<Decl("y", Num(6))>>, V("y"))),
  Expr(App(V("id"), V("y"))),
  Expr(App(V("inc"), Two)),
  Expr(App2(V("twice"), V("inc"), Two)),
  Expr(App2(V("add"), False, True)),
  \* two functions of one type; a list of functions; lambdas in a conditional
  Expr(ListOf(<<V("id"), V("id")>>)),
  Expr(App(If(True, V("inc"), V("id")), One)),
  Expr(App(Lam("y", App(V("y"), One)), V("inc")))
}

-----------------------------------------------------------------------------
(* Records.  A named record has the layout of its declaration, {x, y}; the *)
(* row of an anonymous one lists its fields from the last, so q's layout   *)
(* is {x, y}, too, and a's is {x, z}.                                      *)
RecordP == Type("P", <<>>, "Record", <<>>, <<TypedField("x", TInt), TypedField("y", TBool)>>)
GetX(r) == App(V("getx"), r)
OnlyX(e) == RecordOf("", <<Fld("x", e)>>)

RecordPrelude == <<
  RecordP,
  OptionType,
  Decl("p", RecordOf("P", <<Fld("y", True), Fld("x", Two)>>)),
  Decl("q", RecordOf("", <<Fld("y", False), Fld("x", Num(5))>>)),
  Decl("a", RecordOf("", <<Fld("z", OnlyX(Zero)), Fld("x", Num(7))>>)),
  \* functions of any record that starts with an x
  Decl("getx", Lam("r", Field(V("r"), "x"))),
  Decl("bump", Lam("r", With(V("r"), <<Fld("x", Arith("+", Field(V("r"), "x"), One))>>))),
  Decl("pair", Lam("u", Lam("v", RecordOf("", <<Fld("y", V("v")), Fld("x", V("u"))>>))))>>

RecordStatements == {
  Decl("flag", Lam("r", MatchOn(V("r"), <<
    Case(RecordOf("", <<Fld("x", V("n")), Fld("y", True)>>), V("n")),
    Case(V("other"), Arith("-", Zero, Field(V("other"), "x")))>>))),
  Decl("gety", LamOf("r", Enum("P", <<>>), Field(V("r"), "y"))),
  Decl("some", App(V("Some"), App(V("bump"), V("q")))),
  Expr(Arith("+", GetX(V("p")), GetX(V("a")))),
  Expr(GetX(App(V("bump"), App(V("bump"), V("p"))))),
  Expr(App(V("bump"), V("a"))),
  Expr(If(App(V("gety"), V("q")), Zero, Field(V("p"), "x"))),
  Expr(With(V("a"), <<Fld("z", OnlyX(One)), Fld("x", Two), Fld("x", One)>>)),
  Expr(Arith("*", GetX(Field(V("a"), "z")), GetX(V("a")))),
  Expr(App(V("flag"), V("p"))),
  Expr(App(V("flag"), App2(V("pair"), Num(3), False))),
  Expr(LetIn("r", V("q"), App(Lam("n", If(Field(V("r"), "y"), V("n"), Field(V("r"), "x"))), One))),
  Expr(ListOf(<<App2(V("pair"), One, V("p")), App2(V("pair"), Two, App(V("bump"), V("p")))>>)),
  Expr(Field(MatchOn(V("some"), <<Case(App(V("Some"), V("r")), V("r")), Case(V("None"), V("p"))>>), "x")),
  Expr(V("some")),
  Expr(App(V("bump"), V("bump")))
}

-----------------------------------------------------------------------------
(* Strings, floats, input and output. *)
Println(e) == App(V("println"), e)
Itostr(e) == App(V("itostr"), e)
ReadLine == App(V("readin"), UnitLit)

TextPrelude == <<
  Decl("greet", Lam("s", Arith("+", Str("hi "), Arith("+", V("s"), Str("!"))))),
  \* every use of line reads a line
  Decl("line", ReadLine),
  Decl("ap", Lam("f", Lam("x", App(V("f"), V("x"))))),
  Decl("half", Lam("x", Arith("/", V("x"), Flt(2)))),
  Decl("loop", Lam("n", If(IsZero("n"), Println(Str("end")),
    BlockOf(<<Expr(App(V("print"), Itostr(V("n"))))>>, App(V("loop"), Minus1("n")))))),
  Decl("smallest", Arith("-", Un("-", Num(2147483647)), One))>>

TextStatements == {
  Expr(Println(App(V("greet"), V("line")))),
  Expr(App(V("greet"), V("line"))),
  Expr(Arith("+", App(V("strtoi"), ReadLine), App(V("strtoi"), ReadLine))),
  Expr(App(V("loop"), Num(3))),
  Expr(ListOf(<<Itostr(V("smallest")), App(V("btostr"), App(V("strtob"), Str("true")))>>)),
  Expr(App2(V("ap"), V("itostr"), Num(3))),
  Expr(App(V("ap"), V("greet"))),
  Expr(App(V("half"), App(V("itof"), Num(8)))),
  Expr(App(V("ftostr"), App(V("half"), App(V("strtof"), Str("6"))))),
  Expr(App(V("ftoi"), Un("-", Flt(3)))),
  Expr(If(Comp("<", Flt(3), Flt(2)), Println(Str("lt")), App(V("print"), Str("ge")))),
  Expr(BlockOf(<<Decl("l", V("line"))>>, Arith("+", V("l"), V("l"))))
}

-----------------------------------------------------------------------------
(* Programs that are compiled to something else, or not at all. *)

\* let f = \x => x + 1; let g = \f => f 5; g (\x => x + x)
ShadowStatements ==
  {Decl("f", Lam("x", Arith("+", V("x"), One))),
   Decl("g", Lam("f", App(V("f"), Num(5)))),
   Expr(App(V("g"), Lam("x", Arith("+", V("x"), V("x")))))}

\* let f = \x => x + 1; f 1; let f = \x => x + 2; f 1
RedefinitionStatements ==
  {Decl("f", Lam("x", Arith("+", V("x"), One))), Decl("f", Lam("x", Arith("+", V("x"), Two))),
   Expr(App(V("f"), One))}

\* let add = \x => \y => x + y; let f = \y => (let g = add y in g 1); f 5
PartialStatements ==
  {Decl("add", Lam("x", Lam("y", Arith("+", V("x"), V("y"))))),
   Decl("f", Lam("y", LetIn("g", App(V("add"), V("y")), App(V("g"), One)))),
   Expr(App(V("f"), Num(5)))}

\* let twice = \g => \x => g (g x); let z = 2 in twice (\y => y + z) 1
ClosureStatements ==
  {Decl("twice", Lam("g", Lam("x", App(V("g"), App(V("g"), V("x")))))),
   Expr(LetIn("z", Two, App2(V("twice"), Lam("y", Arith("+", V("y"), V("z"))), One)))}

(* record P = {x : int, y : int}; let gety = \r => r.y;                    *)
(* gety (P {x: 1, y: 2})                                                   *)
LayoutStatements ==
  {Type("P", <<>>, "Record", <<>>, <<TypedField("x", TInt), TypedField("y", TInt)>>),
   Decl("gety", Lam("r", Field(V("r"), "y"))),
   Expr(App(V("gety"), RecordOf("P", <<Fld("x", One), Fld("y", Two)>>)))}

(* let let_0 = \x => x + 1; (let d = \x => x * 2 in let_0 5)               *)
NameStatements ==
  {Decl("let_0", Lam("x", Arith("+", V("x"), One))),
   Expr(LetIn("d", Lam("x", Arith("*", V("x"), Two)), App(V("let_0"), Num(5))))}

(* let line = readin (); line + line, where both lines come in one read    *)
PipedStatements == {Decl("line", ReadLine), Expr(Arith("+", V("line"), V("line")))}

(* "yes" == "no"                                                           *)
EqualityStatements == {Expr(Comp("==", Str("yes"), Str("no")))}

-----------------------------------------------------------------------------
(* Kinds of programs. *)
Kind(statements, length, supported) ==
  [prelude |-> <<>>, statements |-> statements, length |-> length, supported |-> supported,
   redefinitions |-> FALSE, input |-> <<<<"2">>, <<"40">>>>]

Programs ==
  {Kind(FunctionStatements, 3, TRUE),
   [Kind(RecordStatements, 2, TRUE) EXCEPT !.prelude = RecordPrelude],
   [Kind(TextStatements, 2, TRUE) EXCEPT !.prelude = TextPrelude],
   Kind(LimitStatements, 3, FALSE)}

ShadowPrograms == {Kind(ShadowStatements, 3, TRUE)}
RedefinitionPrograms == {[Kind(RedefinitionStatements, 4, TRUE) EXCEPT !.redefinitions = TRUE]}
PartialPrograms == {Kind(PartialStatements, 3, TRUE)}
ClosurePrograms == {Kind(ClosureStatements, 2, TRUE)}
LayoutPrograms == {Kind(LayoutStatements, 3, TRUE)}
NamePrograms == {Kind(NameStatements, 2, TRUE)}
PipedPrograms == {[Kind(PipedStatements, 2, TRUE) EXCEPT !.input = <<<<"2", "40">>>>]}
EqualityPrograms == {Kind(EqualityStatements, 1, TRUE)}
=============================================================================
