--------------------------- MODULE MCUnification ---------------------------
(***************************************************************************)
(* Small types in two type variables and three row variables: r follows    *)
(* the label x, s follows y, u and the fresh ones follow both.  A row      *)
(* variable always follows the same labels in the types of a program.      *)
(***************************************************************************)
EXTENDS Unification, TLC, FiniteSets

MCTypeVar(n) == "t" \o ToString(n)

A == Var("a")
B == Var("b")
Record(fields, tail) ==
  Rec(CASE Len(fields) = 0 -> tail
        [] Len(fields) = 1 -> RowExt(fields[1][1], fields[1][2], tail)
        [] OTHER -> RowExt(fields[1][1], fields[1][2],
                           RowExt(fields[2][1], fields[2][2], tail)))
R == Var("r")
S == Var("s")
U == Var("u")

MCRowVars == {"r", "s", "u"} \cup {MCTypeVar(i) : i \in 0 .. 3}
MCConstructors == {"Int", "Bool", "Fn", "List"}
MCLabels == {"x", "y", "z"}

MCLeft == {A, List(A), Fn(A, B),
           Record(<<<<"x", A>>>>, R),
           Record(<<<<"x", A>>, <<"y", B>>>>, U),
           Record(<<<<"x", TInt>>, <<"y", B>>>>, EmptyRow)}
MCRight == {B, TBool, Fn(List(B), TInt), Fn(B, B),
            Record(<<<<"y", B>>>>, S),
            Record(<<<<"y", TBool>>, <<"x", A>>>>, EmptyRow)}

MCEquations == MCLeft \X MCRight
MCVariables == {"a", "b", "r", "s", "u"}
SelfEquations == {<<t, t>> : t \in MCLeft \cup MCRight}

(* What the variables may mean.  With the field z after both, r and s can  *)
(* mean rows of which nothing in the equations speaks.                     *)
Ground(t) == Meaning([v \in {} |-> {}], t)
X(row) == RowExt("x", TInt, row)
Y(row) == RowExt("y", TInt, row)
Z(row) == RowExt("z", TInt, row)
MCGroundRows ==
  {Ground(row) : row \in {EmptyRow, Z(EmptyRow), X(EmptyRow), X(Z(EmptyRow)),
                          Y(EmptyRow), Y(Z(EmptyRow))}}
MCValuations ==
  [a : {Ground(TInt), Ground(TBool), Ground(List(TInt))}, b : {Ground(TInt), Ground(TBool)},
   r : {Ground(EmptyRow), Ground(Y(Z(EmptyRow)))},
   s : {Ground(EmptyRow), Ground(X(Z(EmptyRow)))},
   u : {Ground(EmptyRow), Ground(Z(EmptyRow))}]

-----------------------------------------------------------------------------
(* The run as the program computes it: unify is called for an equation     *)
(* under the substitution of the ones before, and its result is combined   *)
(* with that one.                                                          *)
T == INSTANCE Types

RECURSIVE Combined(_)
Combined(es) ==
  IF es = <<>> THEN T!Success(T!EmptySub, 0)
  ELSE LET before == Combined(SubSeq(es, 1, Len(es) - 1))
           e == es[Len(es)]
           u == T!Unify(T!Apply(e[1], before.s), T!Apply(e[2], before.s), before.n)
       IN  IF u.ok THEN T!Success(T!Combine(before.s, u.s), u.n) ELSE T!Failure(u.n)

(* The list of calls and of bindings comes to what the recursive functions *)
(* and Substitution::combine (types.rs 257-267, 405-508) come to: the same *)
(* verdict, as many fresh variables, and every variable of the equations   *)
(* and every fresh one replaced by the same type.                          *)
AgreesWithUnify ==
  Idle \/ failed =>
    LET run == Combined(solved)
    IN  /\ run.ok = ~failed
        /\ run.n = ctr
        /\ ~failed => /\ DOMAIN run.s = Bound
                      /\ \A v \in EquationVars \cup FreshVars :
                           T!Apply(Var(v), run.s) = Apply(Var(v), sub)
=============================================================================
