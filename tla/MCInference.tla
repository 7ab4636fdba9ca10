---------------------------- MODULE MCInference ----------------------------
(***************************************************************************)
(* Small expressions: functions, recursion, shadowing, and lets that may   *)
(* generalise all, some or none of the variables of a type.                *)
(***************************************************************************)
EXTENDS Inference, TLC, FiniteSets

MCIdents == {"x", "y", "z", "f", "g", "itostr"}

(* Expressions in Polish notation: a node, and after it its parts. *)
MCExpressions == <<
  \* let f = \x => x in f f
  <<"let f", "\\x", "x", "apply", "f", "f">>,
  \* \x => let f = \y => x in if f true then f 1 else x
  <<"\\x", "let f", "\\y", "x", "if", "apply", "f", "true", "apply", "f", "1", "x">>,
  \* \x => let f = \y => x y in f
  <<"\\x", "let f", "\\y", "apply", "x", "y", "f">>,
  \* (\x => \x => x) 1
  <<"apply", "\\x", "\\x", "x", "1">>,
  \* \f => (let y = f true in y) - f 1
  <<"\\f", "-", "let y", "apply", "f", "true", "y", "apply", "f", "1">>,
  \* let f = \x => if x == 1 then 1 else f (x - 1) in f 1
  <<"let f", "\\x", "if", "==", "x", "1", "1", "apply", "f", "-", "x", "1", "apply", "f", "1">>,
  \* \x => (let y = x in !y) && x
  <<"\\x", "&&", "let y", "x", "!", "y", "x">>,
  \* \x => x x, \x => (\x => x) x, \x => -x
  <<"\\x", "apply", "x", "x">>,
  <<"\\x", "apply", "\\x", "x", "x">>,
  <<"\\x", "negate", "x">>,
  \* let f = \x => \y => x in f (f 1 true)
  <<"let f", "\\x", "\\y", "x", "apply", "f", "apply", "apply", "f", "1", "true">>,
  \* \x => let f = \y => y :: x in f (f 1)
  <<"\\x", "let f", "\\y", "::", "y", "x", "apply", "f", "apply", "f", "1">>,
  \* let f = \x => let y = \z => x in y in f 1 true
  <<"let f", "\\x", "let y", "\\z", "x", "y", "apply", "apply", "f", "1", "true">>,
  \* \f => let y = f in (\f => f (-1)) y
  <<"\\f", "let y", "f", "apply", "\\f", "apply", "f", "negate", "1", "y">>,
  \* \x => let f = \y => \z => if y then x else z in f
  <<"\\x", "let f", "\\y", "\\z", "if", "y", "x", "z", "f">>,
  \* \x => (let f = \y => x in f) (let f = \y => x y in f "")
  <<"\\x", "apply", "let f", "\\y", "x", "f",
    "let f", "\\y", "apply", "x", "y", "apply", "f", "text">>,
  \* g 1, where nothing is called g; itostr true; let itostr = 1 in 1
  <<"apply", "g", "1">>,
  <<"apply", "itostr", "true">>,
  <<"let itostr", "1", "1">>,
  \* -(\x => x), true - true, true || 1
  <<"negate", "\\x", "x">>,
  <<"-", "true", "true">>,
  <<"&&", "true", "1">> >>

Node(e, x, t, accepted) == [e |-> e, x |-> x, t |-> t, accepted |-> accepted]
Numeric == {TInt, Con("Float")}
NodeOf(symbol) ==
  LET Form(e) == Node(e, "x", Unknown, {})
      Constant(t) == Node("Literal", "x", t, {})
      Is(prefix) == \E x \in MCIdents : symbol = prefix \o x
      Named(e, prefix) ==
        Node(e, CHOOSE x \in MCIdents : symbol = prefix \o x, Unknown, {})
  IN  CASE symbol \in MCIdents -> Named("Variable", "")
        [] Is("\\") -> Named("Abstraction", "\\")
        [] Is("let ") -> Named("Let", "let ")
        [] symbol = "apply" -> Form("Application")
        [] symbol = "if" -> Form("IfElse")
        [] symbol = "::" -> Form("Cons")
        [] symbol = "&&" -> Form("Logical")
        [] symbol = "!" -> Form("Not")
        [] symbol = "-" -> Node("Arithmetic", "x", Unknown, Numeric)
        [] symbol = "==" -> Node("Comparison", "x", Unknown, Numeric \cup {TStr, TBool})
        [] symbol = "negate" -> Node("Negate", "x", Unknown, Numeric)
        [] symbol = "1" -> Constant(TInt)
        [] symbol = "true" -> Constant(TBool)
        [] symbol = "text" -> Constant(TStr)

-----------------------------------------------------------------------------
(* The expressions as one tree, its nodes numbered as they are written:    *)
(* where each of them starts, the parts of the nodes and what is in scope. *)
(* SubSeq makes a tuple of a function, a bound variable has the value of   *)
(* what it is bound to, and a definition that the configuration gives to   *)
(* no constant has a value, too: they are evaluated once.                  *)
S == INSTANCE SequencesExt
Tuple(g) == SubSeq(g, 1, Cardinality(DOMAIN g))
The(set) == CHOOSE e \in set : TRUE

Symbols == S!FlattenSeq(MCExpressions)
MCNodes == DOMAIN Symbols
MCPrograms ==
  {1 + Len(S!FlattenSeq(SubSeq(MCExpressions, 1, i - 1))) : i \in DOMAIN MCExpressions}

(* The node after a node and its parts *)
Ends(nodes) ==
  LET end[n \in DOMAIN nodes] ==
        CASE Arity[nodes[n].e] = 0 -> n + 1
          [] Arity[nodes[n].e] = 1 -> end[n + 1]
          [] Arity[nodes[n].e] = 2 -> end[end[n + 1]]
          [] Arity[nodes[n].e] = 3 -> end[end[end[n + 1]]]
  IN  Tuple(end)
PartsOf(n, arity, end) ==
  Tuple([i \in 1 .. arity |->
    CASE i = 1 -> n + 1 [] i = 2 -> end[n + 1] [] i = 3 -> end[end[n + 1]]])
WithParts(nodes, end) ==
  Tuple([n \in DOMAIN nodes |->
    [parts |-> PartsOf(n, Arity[nodes[n].e], end)] @@ nodes[n]])
Tree(nodes) == The({WithParts(nodes, end) : end \in {Ends(nodes)}})
Expressions == The({Tree(nodes) : nodes \in {Tuple([n \in DOMAIN Symbols |-> NodeOf(Symbols[n])])}})
MCExp == Expressions

(* The parts around n that bind i: the last of them does. *)
Around(exp, end, n, i) ==
  {<<m, k>> \in (DOMAIN exp) \X {1, 2} :
     /\ exp[m].x = i /\ exp[m].e \in {"Abstraction", "Let"} /\ k \in DOMAIN exp[m].parts
     /\ exp[m].parts[k] <= n /\ n < end[exp[m].parts[k]]}
Binder(around) ==
  IF around = {} THEN None ELSE CHOOSE b \in around : \A a \in around : a[1] <= b[1]
Scopes(exp, end) ==
  Tuple([n \in DOMAIN exp |-> [i \in MCIdents |-> Binder(Around(exp, end, n, i))]])
Binders == The({Scopes(Expressions, end) : end \in {Ends(Expressions)}})
MCScope == Binders

MCBuiltins == [itostr |-> Fn(TInt, TStr)]

MCTypeVar(n) == "t" \o ToString(n)
MCVariables == {MCTypeVar(i) : i \in 0 .. (MaxVars - 1)}

(* What the variables may mean: each something else, all the same, and two *)
(* of every three the same.                                                *)
Ground(t) == Meaning([v \in {} |-> {}], t)
Number(v) == CHOOSE i \in 0 .. (MaxVars - 1) : MCTypeVar(i) = v
MCValuations ==
  {[v \in MCVariables |-> [Ground(TInt) EXCEPT !.l = v]],
   [v \in MCVariables |-> Ground(TBool)],
   [v \in MCVariables |-> Ground(IF Number(v) % 3 = 0 THEN TBool ELSE TInt)]}

-----------------------------------------------------------------------------
(* The same expressions as terms, for the recursive functions *)
E == INSTANCE Syntax
T == INSTANCE Infer

RECURSIVE Expression(_)
Expression(n) ==
  LET a == Exp[n]
      part1 == Expression(a.parts[1])
      part2 == Expression(a.parts[2])
  IN  CASE a.e = "Variable" -> E!V(a.x)
        [] a.e = "Literal" -> [e |-> "Literal", lit |-> a.t.f, value |-> 1]
        [] a.e = "Abstraction" -> E!Lam(a.x, part1)
        [] a.e = "Application" -> E!App(part1, part2)
        [] a.e = "Let" -> E!LetIn(a.x, part1, part2)
        [] a.e = "IfElse" -> E!If(part1, part2, Expression(a.parts[3]))
        [] a.e = "Cons" -> E!ConsOf(part1, part2)
        [] a.e = "Arithmetic" -> E!Arith("-", part1, part2)
        [] a.e = "Comparison" -> E!Comp("==", part1, part2)
        [] a.e = "Logical" -> E!Logic("&&", part1, part2)
        [] a.e = "Not" -> E!Un("!", part1)
        [] a.e = "Negate" -> E!Un("-", part1)

Root == CHOOSE n \in called : \A m \in called : n <= m

(* Two types that differ in the names of variables only *)
Similar(t, u) ==
  LET free == FreeVariables(t)
  IN  \E m \in [free -> FreeVariables(u)] :
        (\A v, w \in free : m[v] = m[w] => v = w) /\ Rename(t, m) = u

(* Call by call or recursive, algorithm W does the same: when every call   *)
(* has returned the type is that of Infer, and as many variables have been *)
(* allocated; the same expressions are rejected.                           *)
AgreesWithInfer ==
  LET r == T!Typecheck(T!NewContext, E!Expr(Expression(Root)))
      over == done = called
  IN  over \/ failed \/ rejected =>
        /\ r.ok = over
        /\ over => Similar(Typ(Root), r.t) /\ r.c.n = allocated
=============================================================================
