------------------------------- MODULE Terms -------------------------------
(***************************************************************************)
(* Terms (ast.rs), and the traversals the compiler makes of them: the      *)
(* substitution of types (types.rs), the free variables of a term and the  *)
(* variables of a pattern (closures.rs), the curried parameters of a       *)
(* lambda and the root of an application (apply.rs).                       *)
(*                                                                         *)
(* A term is a record whose field e names its ENode.  The type checker     *)
(* adds its type, t; patterns have none.                                   *)
(***************************************************************************)
EXTENDS Types
LOCAL INSTANCE SequencesExt

(* The variables a pattern binds.  Only the argument of a constructor is   *)
(* looked at, a name alone is one even if it is a constructor's.           *)
RECURSIVE PatternBoundVars(_)
PatternBoundVars(p) ==
  CASE p.e = "Variable" -> <<p.x>>
    [] p.e = "Cons" -> PatternBoundVars(p.e1) \o PatternBoundVars(p.e2)
    [] p.e = "List" -> FlattenSeq([i \in DOMAIN p.es |-> PatternBoundVars(p.es[i])])
    [] p.e = "Application" -> PatternBoundVars(p.e2)
    [] p.e = "Record" -> FlattenSeq([i \in DOMAIN p.fs |-> PatternBoundVars(p.fs[i].exp)])
    [] OTHER -> <<>>

(* Variables referenced by a term but not bound inside it.  A let removes  *)
(* its name from both of its parts.  The statements of a block are visited *)
(* from the last.                                                          *)
RECURSIVE FreeOf(_), FreeOfBlock(_, _)
FreeOf(e) ==
  CASE e.e = "Variable" -> {e.x}
    [] e.e = "Literal" -> {}
    [] e.e \in {"Unary", "FieldAccess"} -> FreeOf(e.exp)
    [] e.e \in {"Record", "With"} ->
         UNION ({FreeOf(e.fs[i].exp) : i \in DOMAIN e.fs}
                  \cup {FreeOf(r) : r \in IF e.e = "With" THEN {e.exp} ELSE {}})
    [] e.e = "Abstraction" -> FreeOf(e.body) \ {e.x}
    [] e.e = "Let" -> (FreeOf(e.e1) \cup FreeOf(e.e2)) \ {e.x}
    [] e.e = "IfElse" -> FreeOf(e.cond) \cup FreeOf(e.e1) \cup FreeOf(e.e2)
    [] e.e = "Block" -> FreeOfBlock(e.sts, FreeOf(e.exp))
    [] e.e = "List" -> UNION {FreeOf(e.es[i]) : i \in DOMAIN e.es}
    [] e.e = "Match" ->
         FreeOf(e.exp) \cup
         UNION {FreeOf(e.cases[i].exp) \ Range(PatternBoundVars(e.cases[i].pat)) :
                  i \in DOMAIN e.cases}
    [] OTHER -> FreeOf(e.e1) \cup FreeOf(e.e2)

FreeOfBlock(sts, after) ==
  IF sts = <<>> THEN after
  ELSE LET st == Last(sts)
           all == after \cup FreeOf(st.exp)
       IN  FreeOfBlock(Front(sts), IF st.k = "Decl" THEN all \ {st.x} ELSE all)

(* A curried lambda is a function of all its parameters at once.           *)
RECURSIVE AbstractionParams(_), PeelInner(_)
AbstractionParams(e) ==
  IF e.e = "Abstraction" THEN <<e.x>> \o AbstractionParams(e.body) ELSE <<>>
PeelInner(e) == IF e.e = "Abstraction" THEN PeelInner(e.body) ELSE e

(* resolve_expr_types: a substitution applied to the type of every node.   *)
RECURSIVE ResolveTypes(_, _)
ResolveTypes(e, s) ==
  LET r == [e EXCEPT !.t = Apply(e.t, s)]
      Each(es) == [i \in DOMAIN es |-> ResolveTypes(es[i], s)]
      Exps(rs) == [i \in DOMAIN rs |-> [rs[i] EXCEPT !.exp = ResolveTypes(rs[i].exp, s)]]
  IN  CASE e.e \in {"Variable", "Literal"} -> r
        [] e.e = "Abstraction" -> [r EXCEPT !.body = ResolveTypes(e.body, s)]
        [] e.e \in {"Unary", "FieldAccess"} -> [r EXCEPT !.exp = ResolveTypes(e.exp, s)]
        [] e.e = "IfElse" ->
             [r EXCEPT !.cond = ResolveTypes(e.cond, s), !.e1 = ResolveTypes(e.e1, s),
                       !.e2 = ResolveTypes(e.e2, s)]
        [] e.e = "Block" -> [r EXCEPT !.sts = Exps(e.sts), !.exp = ResolveTypes(e.exp, s)]
        [] e.e = "List" -> [r EXCEPT !.es = Each(e.es)]
        [] e.e = "Match" -> [r EXCEPT !.exp = ResolveTypes(e.exp, s), !.cases = Exps(e.cases)]
        [] e.e = "Record" -> [r EXCEPT !.fs = Exps(e.fs)]
        [] e.e = "With" -> [r EXCEPT !.exp = ResolveTypes(e.exp, s), !.fs = Exps(e.fs)]
        [] OTHER -> [r EXCEPT !.e1 = ResolveTypes(e.e1, s), !.e2 = ResolveTypes(e.e2, s)]

(* An application ((f a) b) is its root f and its arguments, where a name  *)
(* that stands for an application (inl) is unfolded.  The arguments of the *)
(* unfolded application come first.                                        *)
RECURSIVE CollectApplicationRoot(_, _)
CollectApplicationRoot(e, inl) ==
  CASE e.e = "Application" ->
         LET r == CollectApplicationRoot(e.e1, inl)
         IN  [r EXCEPT !.args = Append(@, e.e2)]
    [] e.e = "Variable" /\ e.x \in DOMAIN inl -> CollectApplicationRoot(inl[e.x], inl)
    [] OTHER -> [root |-> e, args |-> <<>>]

(* Whether a term calls self with n arguments in tail position, the name   *)
(* not being rebound on the way.  In a block, all statements count as      *)
(* being on the way.                                                       *)
RECURSIVE HasSelfTailCall(_, _, _, _)
HasSelfTailCall(e, self, n, inl) ==
  CASE e.e = "IfElse" -> HasSelfTailCall(e.e1, self, n, inl) \/ HasSelfTailCall(e.e2, self, n, inl)
    [] e.e = "Let" -> e.x # self /\ HasSelfTailCall(e.e2, self, n, inl)
    [] e.e = "Block" ->
         /\ \A i \in DOMAIN e.sts : e.sts[i].k = "Decl" => e.sts[i].x # self
         /\ HasSelfTailCall(e.exp, self, n, inl)
    [] e.e = "Match" ->
         \E i \in DOMAIN e.cases :
            /\ self \notin Range(PatternBoundVars(e.cases[i].pat))
            /\ HasSelfTailCall(e.cases[i].exp, self, n, inl)
    [] e.e = "Application" ->
         LET r == CollectApplicationRoot(e, inl)
         IN  r.root.e = "Variable" /\ r.root.x = self /\ Len(r.args) = n
    [] OTHER -> FALSE

(* default_free_vars: what the type checker left open is an int.           *)
RECURSIVE DefaultFreeVars(_)
DefaultFreeVars(t) ==
  IF IsVar(t) THEN TInt ELSE [t EXCEPT !.a = [i \in DOMAIN t.a |-> DefaultFreeVars(t.a[i])]]

IsScalarType(t) == t.f # "Fn"

(* concrete_func_parts: the first n parameter types and the result type.   *)
RECURSIVE ConcreteFuncParts(_, _)
ConcreteFuncParts(t, n) ==
  IF n = 0 THEN [ok |-> TRUE, params |-> <<>>, ret |-> DefaultFreeVars(t)]
  ELSE IF t.f # "Fn" THEN [ok |-> FALSE, params |-> <<>>, ret |-> t]
  ELSE LET r == ConcreteFuncParts(t.a[2], n - 1)
       IN  [r EXCEPT !.params = <<DefaultFreeVars(t.a[1])>> \o @]

=============================================================================
