----------------------------- MODULE Semantics -----------------------------
(***************************************************************************)
(* The meaning of terms, a reference for the code generator: evaluation by *)
(* value, from left to right, under lexical scope.  A function is applied  *)
(* to one argument at a time, and remembers the environment it was made    *)
(* in.  What is bound to a name may refer to itself if it is a lambda.  A  *)
(* top-level name that is no lambda is a symbol without parameters         *)
(* (lower_decl): what it stands for is evaluated wherever it is used.      *)
(*                                                                         *)
(* Values and outcomes are those of Execution, with a record as a function *)
(* of its labels; a lambda is kept with what its free names stand for; the *)
(* name of a constructor stands for its discriminant.  Nothing here knows  *)
(* of layouts, types, buffers or the reads that deliver the input.         *)
(***************************************************************************)
EXTENDS Execution
LOCAL INSTANCE Integers
LOCAL INSTANCE SequencesExt

LambdaValue(e, rho, self) == [k |-> "lambda", e |-> e, rho |-> rho, self |-> self]
Constructor(n) == [k |-> "constructor", n |-> n]
Provided(x) == [k |-> "provided", x |-> x]
ByName(e, rho) == [k |-> "name", e |-> e, rho |-> rho]
IsConstructor(e, rho) == e.e = "Variable" /\ rho[e.x].k = "constructor"
Meanwhile(r, c, Next(_, _)) == IF r.k = "value" THEN Next(r.v, [c EXCEPT !.io = r.io]) ELSE r

(* The functions that are provided.  readin gives the next line. *)
Use(f, v, c) ==
  LET in == c.io.in
      rest == IF Len(in[1]) = 1 THEN Tail(in) ELSE <<Tail(in[1])>> \o Tail(in)
  IN  CASE f = "print" -> Value(Number(0), Printed(c, v.x))
        [] f = "println" -> Value(Number(0), Printed(c, v.x \o "\n"))
        [] f \in {"itostr", "ftostr"} -> Value(Text(ToString(v.n)), c)
        [] f = "btostr" -> Value(Text(IF v = Truth(TRUE) THEN "true" ELSE "false"), c)
        [] f = "strtoi" -> Value(Number(ParseNumber(v.x)), c)
        [] f = "strtof" -> Value(Float(ParseNumber(v.x)), c)
        [] f = "strtob" -> Value(Truth(v.x = "true"), c)
        [] f = "itof" -> Value(Float(v.n), c)
        [] f = "ftoi" -> Value(Number(v.n), c)
        [] f = "readin" -> IF in = <<>> THEN Value(Text(""), c)
                           ELSE Value(Text(in[1][1]), [c EXCEPT !.io.in = rest])

RECURSIVE Eval(_, _, _)

EvalAll(es, rho, c) ==
  FoldLeft(LAMBDA r, e : Meanwhile(r, c, LAMBDA vs, c1 : Meanwhile(Eval(e, rho, c1), c1,
             LAMBDA v, c2 : Value(Append(vs, v), c2))), Value(<<>>, c), es)

Define(x, e, rho, c) ==
  Meanwhile(IF e.e = "Abstraction" THEN Value(LambdaValue(e, rho, x), c) ELSE Eval(e, rho, c), c,
            LAMBDA v, c1 : Value((x :> v) @@ rho, c1))

EvalStatements(sts, rho, c) ==
  FoldLeft(LAMBDA r, st : Meanwhile(r, c, LAMBDA rho1, c1 :
             IF st.k = "Decl" THEN Define(st.x, st.exp, rho1, c1)
             ELSE Meanwhile(Eval(st.exp, rho1, c1), c1, LAMBDA v, c2 : Value(rho1, c2))),
           Value(rho, c), sts)

ApplyValue(f, v, c) ==
  IF f.k = "provided" THEN Use(f.x, v, c)
  ELSE IF c.fuel = 0 THEN Unfinished(c)
  ELSE Eval(f.e.body, (f.e.x :> v) @@ (f.self :> f) @@ f.rho, [c EXCEPT !.fuel = @ - 1])

EvalOperation(e, a, b, c) ==
  CASE e.op \in {"/", "%"} /\ b.n = 0 -> Undefined(c)
    [] e.e = "Comparison" /\ a.k = "str" -> Value(Truth((a = b) = (e.op = "==")), c)
    [] e.e = "Comparison" /\ a.k # "str" -> Value(Truth(Compares(e.op, Signed(a), Signed(b))), c)
    [] e.op = "+" /\ a.k = "str" -> Value(Text(a.x \o b.x), c)
    [] OTHER -> Value(Operation(e.op, a, b), c)

LiteralValue(e) ==
  IF e.lit = "Str" THEN Text(e.value) ELSE Constant(e.value, LowerType(Con(e.lit)))

(* A record with these fields replaced; of two equal labels the first one  *)
(* counts in a record that is made, and the last one in an update.         *)
Assigned(r, fs, vs) ==
  FoldLeft(LAMBDA s, i : [s EXCEPT !.s = (fs[i].l :> vs[i]) @@ @], r, [i \in DOMAIN fs |-> i])
Expressions(fs) == [i \in DOMAIN fs |-> fs[i].exp]

(* What a pattern binds if it matches; a sequence of at most one element. *)
RECURSIVE Matches(_, _, _)
Matches(p, v, rho) ==
  LET Both(ms, ns) == IF ms = <<>> \/ ns = <<>> THEN <<>> ELSE <<ns[1] @@ ms[1]>>
  IN  CASE p.e = "Literal" -> IF LiteralValue(p) = v THEN <<(<<>>)>> ELSE <<>>
        [] p.e = "List" -> IF v = Null THEN <<(<<>>)>> ELSE <<>>
        [] p.e = "Cons" ->
             IF v = Null THEN <<>> ELSE Both(Matches(p.e1, v.s[1], rho), Matches(p.e2, v.s[2], rho))
        [] p.e = "Record" ->
             FoldLeft(LAMBDA ms, fa : Both(ms, Matches(fa.exp, v.s[fa.l], rho)), <<(<<>>)>>, p.fs)
        [] p.e = "Application" ->
             IF v.n = rho[p.e1.x].n THEN Matches(p.e2, v.s[1], rho) ELSE <<>>
        [] p.e = "Variable" /\ p.x \in DOMAIN rho /\ IsConstructor(p, rho) ->
             IF v.n = rho[p.x].n THEN <<(<<>>)>> ELSE <<>>
        [] OTHER -> <<p.x :> v>>

RECURSIVE EvalCases(_, _, _, _)
EvalCases(v, cases, rho, c) ==
  IF cases = <<>> THEN Undefined(c)
  ELSE LET bs == Matches(Head(cases).pat, v, rho)
       IN  IF bs = <<>> THEN EvalCases(v, Tail(cases), rho, c)
           ELSE Eval(Head(cases).exp, bs[1] @@ rho, c)

EvalVariable(e, rho, c) ==
  CASE e.x \notin DOMAIN rho -> Undefined(c)
    [] e.x \in DOMAIN rho /\ rho[e.x].k = "name" -> Eval(rho[e.x].e, rho[e.x].rho, c)
    [] e.x \in DOMAIN rho /\ IsConstructor(e, rho) -> Value(Node("enum", rho[e.x].n, "", <<Null>>), c)
    [] OTHER -> Value(rho[e.x], c)

Eval(e, rho, c) ==
  CASE e.e = "Literal" -> Value(LiteralValue(e), c)
    [] e.e = "Variable" -> EvalVariable(e, rho, c)
    [] e.e = "Abstraction" -> Value(LambdaValue(e, rho, "_"), c)
    [] e.e = "Application" ->
         IF IsConstructor(e.e1, rho)
         THEN Meanwhile(Eval(e.e2, rho, c), c, LAMBDA v, c1 :
                Value(Node("enum", rho[e.e1.x].n, "", <<v>>), c1))
         ELSE Meanwhile(EvalAll(<<e.e1, e.e2>>, rho, c), c, LAMBDA vs, c1 : ApplyValue(vs[1], vs[2], c1))
    [] e.e = "Let" ->
         Meanwhile(Define(e.x, e.e1, rho, c), c, LAMBDA rho1, c1 : Eval(e.e2, rho1, c1))
    [] e.e = "Block" ->
         Meanwhile(EvalStatements(e.sts, rho, c), c, LAMBDA rho1, c1 : Eval(e.exp, rho1, c1))
    [] e.e = "IfElse" ->
         Meanwhile(Eval(e.cond, rho, c), c, LAMBDA b, c1 :
           Eval(IF b = Truth(TRUE) THEN e.e1 ELSE e.e2, rho, c1))
    [] e.e = "Match" ->
         Meanwhile(Eval(e.exp, rho, c), c, LAMBDA v, c1 : EvalCases(v, e.cases, rho, c1))
    [] e.e = "Logical" /\ e.op # "^" ->
         Meanwhile(Eval(e.e1, rho, c), c, LAMBDA v, c1 :
           IF v = Truth(e.op = "||") THEN Value(v, c1) ELSE Eval(e.e2, rho, c1))
    [] e.e = "Unary" ->
         Meanwhile(Eval(e.exp, rho, c), c, LAMBDA v, c1 :
           Value(IF e.op = "!" THEN Truth(v.n = 0) ELSE [v EXCEPT !.n = -@], c1))
    [] e.e = "List" ->
         Meanwhile(EvalAll(e.es, rho, c), c, LAMBDA vs, c1 :
           Value(FoldRight(LAMBDA v, l : Node("cons", 0, "", <<v, l>>), vs, Null), c1))
    [] e.e = "Cons" ->
         Meanwhile(EvalAll(<<e.e1, e.e2>>, rho, c), c, LAMBDA vs, c1 : Value(Node("cons", 0, "", vs), c1))
    [] e.e = "Record" ->
         Meanwhile(EvalAll(Expressions(e.fs), rho, c), c, LAMBDA vs, c1 :
           Value(Assigned(Node("record", 0, "", <<>>), Reverse(e.fs), Reverse(vs)), c1))
    [] e.e = "With" ->
         Meanwhile(EvalAll(<<e.exp>> \o Expressions(e.fs), rho, c), c, LAMBDA vs, c1 :
           Value(Assigned(vs[1], e.fs, Tail(vs)), c1))
    [] e.e = "FieldAccess" ->
         Meanwhile(Eval(e.exp, rho, c), c, LAMBDA v, c1 : Value(v.s[e.l], c1))
    [] OTHER ->
         Meanwhile(EvalAll(<<e.e1, e.e2>>, rho, c), c, LAMBDA vs, c1 :
           EvalOperation(e, vs[1], vs[2], c1))

=============================================================================
