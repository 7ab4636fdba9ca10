--------------------------- MODULE MCTypeChecker ---------------------------
(***************************************************************************)
(* Programs, as the parser would give them.                                *)
(***************************************************************************)
EXTENDS TypeChecker, Syntax

-----------------------------------------------------------------------------
(* Functions, lets, recursion, shadowing, blocks and lists. *)
FunctionStatements == {
  \* let id = \x => x, and other functions of that name
  Decl("id", Lam("x", V("x"))),
  Decl("id", Lam("x", Arith("+", V("x"), One))),
  Decl("id", App(V("id"), V("id"))),
  Decl("f", Lam("x", LetIn("y", Arith("*", V("x"), One), V("y")))),
  \* z is any type, x is not
  Decl("f", Lam("x", LetIn("y", Lam("z", V("x")),
            If(App(V("y"), One), App(V("y"), True), V("x"))))),
  Decl("f", Lam("x", Lam("x", V("x")))),
  Decl("f", Lam("id", App(V("id"), One))),
  Decl("f", Lam("n", If(Comp("==", V("n"), Zero), One,
                        App(V("f"), Arith("-", V("n"), One))))),
  Decl("f", Lam("x", App(V("x"), V("x")))),
  Decl("f", Lam("g", Lam("x", App(V("g"), App(V("g"), V("x")))))),
  Decl("f", Lam("l", MatchOn(V("l"), <<Case(ListOf(<<>>), Zero),
                       Case(ConsOf(V("h"), V("t")), Arith("+", V("h"), One))>>))),
  Decl("f", Lam("x", ConsOf(App(V("id"), V("x")), ListOf(<<>>)))),
  Decl("f", Lam("x", ListOf(<<V("x"), App(V("id"), V("x"))>>))),
  Decl("f", Lam("x", Logic("&&", Un("!", V("x")), Comp("<", One, Un("-", Zero))))),
  Decl("f", Lam("x", MatchOn(V("x"), <<Case(True, Zero), Case(False, One)>>))),
  Decl("itostr", Lam("x", V("x"))),
  Expr(LetIn("u", V("id"), If(App(V("u"), True), App(V("u"), One), Zero))),
  Expr(BlockOf(<<Decl("w", V("f")), Expr(App(V("w"), One))>>, App(V("w"), True))),
  Expr(App(App(V("f"), V("id")), One)),
  Expr(If(App(V("f"), One), V("f"), V("id")))
}

Base == {TInt, TBool}
Lists == {List(t) : t \in Base}
UnaryFns == {Fn(t, u) : t \in Base, u \in Base}
FunctionSmall == Base \cup Lists \cup UnaryFns
FunctionUniverse ==
  FunctionSmall \cup {Fn(t, u) : t \in UnaryFns, u \in UnaryFns}
          \cup {Fn(t, u) : t \in Base, u \in UnaryFns \cup Lists}
          \cup {Fn(t, u) : t \in Lists, u \in Base \cup Lists}

-----------------------------------------------------------------------------
(* Enums, records, patterns. *)
OptionOf(t) == Enum("Option", <<t>>)

DataStatements == {
  \* enum Option('a) = Some('a) | None, twice, and with a free variable
  Type("Option", <<"a">>, "Enum",
       <<Variant("Some", <<Var("a")>>), Variant("None", <<>>)>>, <<>>),
  Type("Option", <<>>, "Enum", <<Variant("Some", <<Var("b")>>)>>, <<>>),
  \* record P = { x : int, y : bool }
  Type("P", <<>>, "Record", <<>>, <<TypedField("x", TInt), TypedField("y", TBool)>>),
  Decl("p", RecordOf("", <<Fld("x", One)>>)),
  Decl("p", RecordOf("", <<Fld("y", True), Fld("x", True)>>)),
  Decl("p", RecordOf("P", <<Fld("y", True), Fld("x", One)>>)),
  Decl("p", RecordOf("P", <<Fld("x", One)>>)),
  Decl("o", With(V("p"), <<Fld("x", Zero)>>)),
  Decl("f", Lam("r", Field(V("r"), "x"))),
  Decl("f", Lam("r", With(V("r"), <<Fld("x", Arith("+", Field(V("r"), "x"), One))>>))),
  Decl("f", LamOf("r", Enum("P", <<>>), Field(V("r"), "y"))),
  Decl("f", Lam("r", MatchOn(V("r"), <<
        Case(RecordOf("", <<Fld("x", One), Fld("y", V("b"))>>), V("b")),
        Case(V("other"), Field(V("other"), "y"))>>))),
  Decl("f", Lam("o", MatchOn(V("o"), <<Case(App(V("Some"), V("n")), V("n")),
                                       Case(V("other"), Zero)>>))),
  Decl("f", Lam("o", MatchOn(V("o"), <<Case(V("None"), Zero),
                                       Case(App(V("Some"), True), One),
                                       Case(V("other"), One)>>))),
  Decl("f", Lam("v", App(V("Some"), V("v")))),
  Decl("o", App(V("Some"), Field(V("p"), "x"))),
  Expr(App(V("f"), V("p"))),
  Expr(App(V("f"), V("o"))),
  Expr(App(V("f"), Field(V("p"), "y")))
}

Rec1(t) == Rec(RowExt("x", t, EmptyRow))
Rec2(t, u) == Rec(RowExt("x", t, RowExt("y", u, EmptyRow)))
RecordTypes == {Rec1(t) : t \in Base} \cup {Rec2(t, u) : t \in Base, u \in Base}
Options == {OptionOf(t) : t \in Base}
DataSmall ==
  Base \cup RecordTypes \cup Options
    \cup {Fn(t, u) : t \in RecordTypes \cup Options, u \in Base}
DataUniverse ==
  DataSmall \cup {Fn(t, u) : t \in RecordTypes, u \in RecordTypes}
            \cup {Fn(t, u) : t \in Base, u \in Options}

OptionConstructors == [Option |-> [Some |-> 1, None |-> 0]]

MCVocabulary ==
  [functions |-> [statements |-> FunctionStatements, most |-> 3, small |-> FunctionSmall],
   data |-> [statements |-> DataStatements, most |-> 4, small |-> DataSmall]]
MCUniverse == FunctionUniverse \cup DataUniverse

-----------------------------------------------------------------------------
(* Programs on which the code and docs/typerules.md disagree. *)

\* (let y = 1 in y) and then y
ScopeStatements == {Expr(LetIn("y", One, V("y"))), Expr(V("y"))}

\* let f = \x => (let y = x in y); if f true then f 1 else 0
GeneralisationStatements ==
  {Decl("f", Lam("x", LetIn("y", V("x"), V("y")))),
   Expr(If(App(V("f"), True), App(V("f"), One), Zero))}

\* \x => match [x, 1, if x then 1 else 0] | [] => 0 | h::t => h
ListStatements ==
  {Decl("f", Lam("x", MatchOn(ListOf(<<V("x"), One, If(V("x"), One, Zero)>>),
     <<Case(ListOf(<<>>), Zero), Case(ConsOf(V("h"), V("t")), V("h"))>>)))}

\* \x => x * x
ArithmeticStatements == {Decl("f", Lam("x", Arith("*", V("x"), V("x"))))}

\* match Some 1 | Some x => (if x then 1 else 0) | other => 0
OptionDeclaration ==
  Type("Option", <<"a">>, "Enum",
       <<Variant("Some", <<Var("a")>>), Variant("None", <<>>)>>, <<>>)
ConstructorStatements ==
  {OptionDeclaration,
   Expr(MatchOn(App(V("Some"), One), <<Case(App(V("Some"), V("x")), If(V("x"), One, Zero)),
                                       Case(V("other"), Zero)>>))}

\* match Some 1 | None => 0
ExhaustiveStatements ==
  {OptionDeclaration, Expr(MatchOn(App(V("Some"), One), <<Case(V("None"), Zero)>>))}

\* \r => match r | {x: 1, y: _} => true | {x: n, y: b} => b
RecordMatchStatements ==
  {Decl("f", Lam("r", MatchOn(V("r"), <<
     Case(RecordOf("", <<Fld("x", One), Fld("y", V("_"))>>), True),
     Case(RecordOf("", <<Fld("x", V("n")), Fld("y", V("b"))>>), V("b"))>>)))}

Differing(statements) ==
  [data |-> [statements |-> statements, most |-> 2, small |-> DataSmall]]
ConstructorVocabulary == Differing(ConstructorStatements)
=============================================================================
