---------------------------- MODULE TypingRules ----------------------------
(***************************************************************************)
(* The typing rules of docs/typerules.md, without type variables: the set  *)
(* of the ground types, out of a finite universe, that an expression has.  *)
(* An environment gives every name the set of its types, so a name bound   *)
(* by a let has all the instances of its polytype, and a name bound by a   *)
(* lambda or a pattern has one type.                                       *)
(***************************************************************************)
EXTENDS Types

CONSTANT Universe  \* ground types; the fields of a record in order of label

(* For exhaustiveness: sample values of a ground type.  Constructors maps  *)
(* the enums in use to the names and arities of their constructors.        *)
CONSTANT Constructors

Instances(t) ==
  IF IsVar(t) THEN Universe
  ELSE {u \in Universe : t.f = u.f /\ Unify(t, u, 1000).ok}

Bind1(env, x, ts) == (x :> ts) @@ env

RECURSIVE FieldsOf(_)
FieldsOf(row) ==
  CASE row.f = "Rec" -> FieldsOf(row.a[1])
    [] row.f = "RowExt" -> (row.l :> row.a[1]) @@ FieldsOf(row.a[2])
    [] OTHER -> <<>>

-----------------------------------------------------------------------------
(* Values of a type, up to what a pattern can tell apart: two literals and *)
(* another value of a type, lists of up to two elements.                   *)
RECURSIVE Values(_), Covers(_, _), Products(_)

Products(sets) ==
  IF sets = <<>> THEN {<<>>}
  ELSE {<<v>> \o vs : v \in Head(sets), vs \in Products(Tail(sets))}

Values(t) ==
  CASE t.f = "Bool" -> {[c |-> l, a |-> <<>>] : l \in {"0", "1"}}
    [] t.f \in {"Int", "Str"} -> {[c |-> l, a |-> <<>>] : l \in {"0", "1", "other"}}
    [] t.f = "List" -> {[c |-> "List", a |-> vs] :
                          vs \in UNION {Products([i \in 1 .. n |-> Values(t.a[1])]) : n \in 0 .. 2}}
    [] t.f = "Enum" -> UNION {{[c |-> k, a |-> vs] :
                                 vs \in Products([i \in 1 .. Constructors[t.l][k] |->
                                                   Values(t.a[1])])} :
                                k \in DOMAIN Constructors[t.l]}
    [] OTHER -> {[c |-> "one", a |-> <<>>]}

PatternSpine(p) ==
  LET RECURSIVE F(_, _)
      F(q, args) == IF q.e = "Application" THEN F(q.e1, <<q.e2>> \o args)
                    ELSE [c |-> q.x, a |-> args]
  IN  F(p, <<>>)

IsConstructor(x) == \E n \in DOMAIN Constructors : x \in DOMAIN Constructors[n]

(* The pattern p matches the value v. *)
Covers(p, v) ==
  CASE p.e = "Variable" -> ~IsConstructor(p.x) \/ p.x = v.c
    [] p.e = "Literal" -> v.c = ToString(p.value)
    [] p.e = "Record" -> TRUE
    [] p.e = "List" -> /\ Len(p.es) = Len(v.a)
                       /\ \A i \in DOMAIN p.es : Covers(p.es[i], v.a[i])
    [] p.e = "Cons" -> /\ v.a # <<>>
                       /\ Covers(p.e1, Head(v.a))
                       /\ Covers(p.e2, [c |-> "List", a |-> Tail(v.a)])
    [] p.e = "Application" ->
         LET sp == PatternSpine(p)
         IN  /\ sp.c = v.c
             /\ \A i \in DOMAIN sp.a : Covers(sp.a[i], v.a[i])

Exhaustive(t, cases) ==
  \A v \in Values(t) : \E i \in DOMAIN cases : Covers(cases[i].pat, v)

-----------------------------------------------------------------------------
(* The names a pattern binds and their types, when it is matched against a *)
(* value of type t; fails when the pattern does not have that type.        *)
Fits(env) == [ok |-> TRUE, env |-> env]
Unfit == [ok |-> FALSE]

RECURSIVE Binds(_, _, _), BindsAll(_, _, _)
Binds(env, p, t) ==
  CASE p.e = "Literal" -> IF t = Con(p.lit) THEN Fits(env) ELSE Unfit
    [] p.e = "Variable" /\ IsConstructor(p.x) ->
         IF p.x \in DOMAIN env /\ t \in env[p.x] THEN Fits(env) ELSE Unfit
    [] p.e = "Variable" /\ ~IsConstructor(p.x) -> Fits(Bind1(env, p.x, {t}))
    [] p.e = "Cons" -> IF t.f = "List" THEN BindsAll(env, <<p.e1, p.e2>>, <<t.a[1], t>>)
                       ELSE Unfit
    [] p.e = "List" -> IF t.f = "List" THEN BindsAll(env, p.es, [i \in DOMAIN p.es |-> t.a[1]])
                       ELSE Unfit
    [] p.e = "Record" ->
         IF t.f = "Rec" /\ {p.fs[i].l : i \in DOMAIN p.fs} \subseteq DOMAIN FieldsOf(t)
         THEN BindsAll(env, [i \in DOMAIN p.fs |-> p.fs[i].exp],
                       [i \in DOMAIN p.fs |-> FieldsOf(t)[p.fs[i].l]])
         ELSE Unfit
    [] p.e = "Application" ->  \* constructors of one argument
         LET ctor == IF p.e1.x \in DOMAIN env THEN env[p.e1.x] ELSE {}
             args == {u.a[1] : u \in {u \in ctor : u.f = "Fn" /\ u.a[2] = t}}
         IN  IF args = {} THEN Unfit
             ELSE Binds(env, p.e2, CHOOSE u \in args : TRUE)

BindsAll(env, ps, ts) ==
  IF ps = <<>> THEN Fits(env)
  ELSE LET b == Binds(env, Head(ps), Head(ts))
       IN  IF b.ok THEN BindsAll(b.env, Tail(ps), Tail(ts)) ELSE Unfit

-----------------------------------------------------------------------------
NumericTypes == {Con("Int"), Con("Float")}
Arrows == {t \in Universe : t.f = "Fn"}
Records == {t \in Universe : t.f = "Rec"}

(* The types an annotation allows: all where there is none. *)
Annotated(env, ann) ==
  CASE ann.f = "Infer" -> Universe
    [] ann.f = "Enum" /\ ann.l \in DOMAIN env -> env[ann.l]
    [] OTHER -> Instances(ann)

RECURSIVE Types(_, _), DeclaredTypes(_, _, _), After(_, _)

(* The types of x in let x = e, where x may occur in e: t is one if e has  *)
(* the type t while x has it.  More types of x give e no fewer types, so   *)
(* there is nothing to find out if none and all of them give the same.     *)
DeclaredTypes(env, x, e) ==
  LET least == Types(Bind1(env, x, {}), e)
      most == Types(Bind1(env, x, Universe), e)
  IN  IF least = most THEN least
      ELSE {t \in most : t \in Types(Bind1(env, x, {t}), e)}

(* The environment after the statements of a block; none if one has no type. *)
After(env, sts) ==
  IF sts = <<>> THEN Fits(env)
  ELSE LET st == Head(sts)
           ts == IF st.k = "Decl" THEN DeclaredTypes(env, st.x, st.exp) ELSE Types(env, st.exp)
       IN  IF ts = {} THEN Unfit
           ELSE After(IF st.k = "Decl" THEN Bind1(env, st.x, ts) ELSE env, Tail(sts))

Types(env, e) ==
  LET T(x) == Types(env, x)
  IN CASE e.e = "Variable" -> IF e.x \in DOMAIN env THEN env[e.x] ELSE {}
       [] e.e = "Literal" -> {Con(e.lit)}
       [] e.e = "Abstraction" ->
            LET params == {t.a[1] : t \in Arrows} \cap Annotated(env, e.ann)
                Typed(p) == LET body == Types(Bind1(env, e.x, {p}), e.body)
                            IN  {t \in Arrows : t.a[1] = p /\ t.a[2] \in body}
            IN  UNION {Typed(p) : p \in params}
       [] e.e = "Application" ->
            LET args == T(e.e2)
            IN  {t.a[2] : t \in {t \in T(e.e1) : t.f = "Fn" /\ t.a[1] \in args}}
       [] e.e = "Let" ->
            LET ts == DeclaredTypes(env, e.x, e.e1)
            IN  IF ts = {} THEN {} ELSE Types(Bind1(env, e.x, ts), e.e2)
       [] e.e = "IfElse" -> IF TBool \in T(e.cond) THEN T(e.e1) \cap T(e.e2) ELSE {}
       [] e.e = "Block" ->
            LET a == After(env, e.sts) IN IF a.ok THEN Types(a.env, e.exp) ELSE {}
       [] e.e = "List" ->
            {t \in Universe : t.f = "List" /\ \A i \in DOMAIN e.es : t.a[1] \in T(e.es[i])}
       [] e.e = "Cons" ->
            LET heads == T(e.e1) IN {t \in T(e.e2) : t.f = "List" /\ t.a[1] \in heads}
       [] e.e = "Match" ->
            LET Branch(t, c) ==
                  LET b == Binds(env, c.pat, t) IN IF b.ok THEN Types(b.env, c.exp) ELSE {}
                Common(t) == LET first == Branch(t, e.cases[1])
                             IN  {u \in first : \A i \in DOMAIN e.cases \ {1} :
                                                  u \in Branch(t, e.cases[i])}
            IN  UNION {Common(t) : t \in {t \in T(e.exp) : Exhaustive(t, e.cases)}}
       [] e.e = "Arithmetic" ->
            T(e.e1) \cap T(e.e2) \cap (NumericTypes \cup IF e.op = "+" THEN {TStr} ELSE {})
       [] e.e = "Comparison" ->
            IF T(e.e1) \cap T(e.e2) \cap
               (NumericTypes \cup IF e.op \in {"==", "!="} THEN {TStr, TBool} ELSE {}) = {}
            THEN {} ELSE {TBool}
       [] e.e = "Logical" -> {TBool} \cap T(e.e1) \cap T(e.e2)
       [] e.e = "Unary" -> T(e.exp) \cap (IF e.op = "-" THEN NumericTypes ELSE {TBool})
       [] e.e = "FieldAccess" ->
            {FieldsOf(t)[e.l] : t \in {t \in T(e.exp) : t.f = "Rec" /\ e.l \in DOMAIN FieldsOf(t)}}
       [] e.e = "Record" ->
            {t \in IF e.name = "" THEN Records ELSE IF e.name \in DOMAIN env THEN env[e.name] ELSE {} :
               /\ DOMAIN FieldsOf(t) = {e.fs[i].l : i \in DOMAIN e.fs}
               /\ \A i \in DOMAIN e.fs : FieldsOf(t)[e.fs[i].l] \in T(e.fs[i].exp)}
       [] e.e = "With" ->
            {t \in T(e.exp) : \A i \in DOMAIN e.fs :
               /\ e.fs[i].l \in DOMAIN FieldsOf(t)
               /\ FieldsOf(t)[e.fs[i].l] \in T(e.fs[i].exp)}

=============================================================================
