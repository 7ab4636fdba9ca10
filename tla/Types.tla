------------------------------- MODULE Types -------------------------------
(***************************************************************************)
(* The data of the type checker (types.rs): monotypes, substitutions,      *)
(* polytypes and unification.  Everything here is a pure function; the     *)
(* counter that names fresh type variables (TypeContext::type_var_ctr) is  *)
(* an argument and a field of the result.                                  *)
(*                                                                         *)
(* Substitutions are functions on the variables they bind.                 *)
(***************************************************************************)
EXTENDS Monotype, Naturals, Sequences, FiniteSets, TLC
LOCAL INSTANCE SequencesExt

(* TypeContext::new_typevar: the n-th variable. *)
TypeVar(n) == "t" \o ToString(n)

-----------------------------------------------------------------------------
(* Monotype::free_variables and contains (for a variable v) *)
RECURSIVE FreeVariables(_)
FreeVariables(t) ==
  IF IsVar(t) THEN {t.l}
  ELSE UNION {FreeVariables(t.a[i]) : i \in DOMAIN t.a}

Occurs(v, t) == v \in FreeVariables(t)

(* Monotype::apply: a variable is replaced until none of the substitution  *)
(* is left, so a substitution may mention the variables it binds.          *)
EmptySub == [v \in {} |-> EmptyRow]

RECURSIVE Apply(_, _)
Apply(t, s) ==
  IF IsVar(t)
  THEN IF t.l \in DOMAIN s THEN Apply(s[t.l], s) ELSE t
  ELSE [t EXCEPT !.a = [i \in DOMAIN t.a |-> Apply(t.a[i], s)]]

(* Monotype::instantiate: one pass *)
RECURSIVE Instantiate(_, _)
Instantiate(t, m) ==
  IF IsVar(t)
  THEN IF t.l \in DOMAIN m THEN m[t.l] ELSE t
  ELSE [t EXCEPT !.a = [i \in DOMAIN t.a |-> Instantiate(t.a[i], m)]]

(* Substitution::combine, s1.combine(s2): on a variable both bind, s2 wins *)
(* A defect: the old bindings are not kept. *)
CombineForgets(s1, s2) == [v \in DOMAIN s2 |-> Apply(s2[v], s1)]

Combine(s1, s2) ==
  [v \in DOMAIN s1 \cup DOMAIN s2 |->
     IF v \in DOMAIN s2 THEN Apply(s2[v], s1) ELSE s1[v]]

-----------------------------------------------------------------------------
(* A polytype: quantified variables, outermost last, and a monotype. *)
Poly(q, t) == [q |-> q, t |-> t]
Mono(t) == Poly(<<>>, t)
PolyFree(p) == FreeVariables(p.t) \ {p.q[i] : i \in DOMAIN p.q}
PolyApply(p, s) == [p EXCEPT !.t = Apply(p.t, s)]

(* Polytype::instantiate, and the counter after it *)
Instance(p, n) ==
  [t |-> Instantiate(p.t, [v \in {p.q[i] : i \in DOMAIN p.q} |->
           Var(TypeVar(n + (CHOOSE i \in DOMAIN p.q : p.q[i] = v) - 1))]),
   n |-> n + Len(p.q)]

(* TypeContext::generalise, free being the variables free in the context.  *)
(* The code visits the variables in the order of their names.              *)
Generalise(t, free, n) ==
  LET quants == SetToSeq(FreeVariables(t) \ free)
      fresh == [i \in DOMAIN quants |-> TypeVar(n + i - 1)]
      sub == [v \in {quants[i] : i \in DOMAIN quants} |->
                Var(fresh[CHOOSE i \in DOMAIN quants : quants[i] = v])]
  IN  [p |-> Poly(fresh, Apply(t, sub)), n |-> n + Len(quants)]

-----------------------------------------------------------------------------
(* The result of a unification: a substitution or an error, and the        *)
(* counter, which an error does not turn back.                             *)
Success(s, n) == [ok |-> TRUE, s |-> s, n |-> n]
Failure(n) == [ok |-> FALSE, s |-> EmptySub, n |-> n]

(* A variable is bound, unless it occurs in the type ("infinite type"). *)
Bind(v, t, n) == IF Occurs(v, t) THEN Failure(n) ELSE Success(v :> t, n)

RowConstructors == {"Rec", "RowExt", "EmptyRow"}

(* Rec wraps a row; UnifyRow looks at rows only. *)
PeelRec(t) == IF t.f = "Rec" THEN t.a[1] ELSE t

RECURSIVE Unify(_, _, _), UnifyArgs(_, _, _, _), UnifyRow(_, _, _)

Unify(t1, t2, n) ==
  CASE IsVar(t1) /\ t1 = t2 -> Success(EmptySub, n)
    [] IsVar(t1) /\ t1 # t2 -> Bind(t1.l, t2, n)
    [] ~IsVar(t1) /\ IsVar(t2) -> Bind(t2.l, t1, n)
    [] ~IsVar(t1) /\ ~IsVar(t2) ->
         IF {t1.f, t2.f} \cap RowConstructors # {} THEN UnifyRow(t1, t2, n)
         ELSE IF <<t1.f, t1.l, Len(t1.a)>> # <<t2.f, t2.l, Len(t2.a)>>
         THEN Failure(n)
         ELSE UnifyArgs(t1.a, t2.a, EmptySub, n)

(* The arguments from left to right, each pair under what is known so far. *)
UnifyArgs(ts1, ts2, s, n) ==
  IF ts1 = <<>> THEN Success(s, n)
  ELSE LET u == Unify(Apply(Head(ts1), s), Apply(Head(ts2), s), n)
       IN  IF ~u.ok THEN u
           ELSE UnifyArgs(Tail(ts1), Tail(ts2), Combine(s, u.s), u.n)

(* Rows.  Unlike Unify, a row variable does not unify with itself.  Rows   *)
(* that start with different labels get a common fresh tail, and each the  *)
(* field of the other.                                                     *)
UnifyRow(r1, r2, n) ==
  LET row1 == PeelRec(r1)
      row2 == PeelRec(r2)
      Then(u, V(_)) ==
        IF ~u.ok THEN u
        ELSE LET w == V(u.s)
             IN  IF w.ok THEN Success(Combine(u.s, w.s), w.n) ELSE w
  IN  CASE IsVar(row1) -> Bind(row1.l, row2, n)
        [] ~IsVar(row1) /\ IsVar(row2) -> Bind(row2.l, row1, n)
        [] row1.f = "EmptyRow" /\ row2.f = "EmptyRow" -> Success(EmptySub, n)
        [] row1.f = "RowExt" /\ row2.f = "RowExt" /\ row1.l = row2.l ->
             LET u == Unify(row1.a[1], row2.a[1], n)
             IN  Then(u, LAMBDA s : UnifyRow(Apply(row1.a[2], s),
                                             Apply(row2.a[2], s), u.n))
        [] row1.f = "RowExt" /\ row2.f = "RowExt" /\ row1.l # row2.l ->
             LET fresh == Var(TypeVar(n))
                 u == UnifyRow(row1.a[2],
                               RowExt(row2.l, row2.a[1], fresh), n + 1)
             IN  Then(u, LAMBDA s :
                   UnifyRow(Apply(row2.a[2], s),
                            RowExt(row1.l, Apply(row1.a[1], s),
                                   Apply(fresh, s)), u.n))
        [] OTHER -> Failure(n)

=============================================================================
