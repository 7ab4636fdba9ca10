------------------------- MODULE TypeContextProofs -------------------------
(***************************************************************************)
(* Proofs about TypeContext.  The argument: at any time there is a set Q   *)
(* of type variables, all of them already allocated, that were spent on    *)
(* quantifiers.  Everything quantified in a context is in Q, and nothing   *)
(* that is in use is.  Substitution moves variables in use only, so it     *)
(* stays out of Q; generalisation extends Q by variables that are newer    *)
(* than everything else; and a failed statement returns to the set its     *)
(* context started with.  The annotations must keep clear of the names the *)
(* counter produces.                                                       *)
(***************************************************************************)
EXTENDS TypeContext, FiniteSetTheorems, TLAPS

Older(S, n) == \A v \in S \cap Nat : v < n

GoodScheme(p, Q, n) ==
  /\ p \in Scheme
  /\ IsFiniteSet(p.bound)
  /\ p.bound \subseteq Q
  /\ p.bound \subseteq p.vars
  /\ Free(p) \cap Q = {}
  /\ Older(p.vars, n)

GoodContext(c, Q, n) ==
  /\ c \in Context
  /\ \A x \in Names : GoodScheme(c[x], Q, n)

Spent(Q, n) == Q \in SUBSET (0 .. (n - 1))

GoodLive(Q) == live \in SUBSET TVar /\ live \cap Q = {} /\ Older(live, ctr)

GoodScopes(Q) ==
  /\ scopes \in Seq(Scope)
  /\ \A i \in 1 .. Len(scopes) :
       GoodContext(scopes[i].saved, Q, ctr) /\ scopes[i].ctr <= ctr

GoodBase ==
  /\ base \in [ctr : Nat, schemes : Context]
  /\ \E Q \in SUBSET (0 .. (base.ctr - 1)) :
       GoodContext(base.schemes, Q, base.ctr)

Good(Q) ==
  /\ ctr \in Nat
  /\ GoodContext(schemes, Q, ctr)
  /\ GoodLive(Q)
  /\ GoodScopes(Q)

(* The inductive invariant. *)
IInv == GoodBase /\ \E Q \in SUBSET (0 .. (ctr - 1)) : Good(Q)

-----------------------------------------------------------------------------
(* A context stays good when variables newer than all of its own are spent *)
(* on quantifiers.                                                         *)
LEMMA GoodContextLater ==
  ASSUME NEW c, NEW Q, NEW n \in Nat, NEW m \in Nat, n <= m,
         GoodContext(c, Q, n)
  PROVE  GoodContext(c, Q \cup n .. (m - 1), m)
<1>1. SUFFICES ASSUME NEW x \in Names
               PROVE  GoodScheme(c[x], Q \cup n .. (m - 1), m)
  BY DEF GoodContext
<1>2. GoodScheme(c[x], Q, n)
  BY DEF GoodContext
<1>3. Older(c[x].vars, m)
  BY <1>2 DEF GoodScheme, Older
<1>4. Free(c[x]) \cap n .. (m - 1) = {}
  BY <1>2 DEF GoodScheme, Older, Free
<1> QED
  BY <1>2, <1>3, <1>4 DEF GoodScheme

(* Substituting a variable that is in use by variables that are in use     *)
(* leaves every quantified variable where it is.                           *)
LEMMA GoodSubst ==
  ASSUME NEW p, NEW Q, NEW n \in Nat, NEW v, NEW R \in SUBSET TVar,
         GoodScheme(p, Q, n), v \notin Q, R \cap Q = {}, Older(R, n)
  PROVE  GoodScheme(Subst(p, v, R), Q, n)
<1>1. CASE v \in p.vars
  <2> DEFINE s == [p EXCEPT !.vars = (p.vars \ {v}) \cup R]
  <2>1. s \in Scheme /\ s.bound = p.bound /\ s.vars = (p.vars \ {v}) \cup R
    BY DEF GoodScheme, Scheme
  <2>2. Subst(p, v, R) = s
    BY <1>1 DEF Subst
  <2>3. s.bound \subseteq s.vars
    BY <2>1 DEF GoodScheme
  <2>4. Free(s) \cap Q = {}
    BY <2>1 DEF GoodScheme, Free
  <2>5. Older(s.vars, n)
    BY <2>1 DEF GoodScheme, Older
  <2> QED
    BY <2>1, <2>2, <2>3, <2>4, <2>5 DEF GoodScheme
<1>2. CASE v \notin p.vars
  BY <1>2 DEF Subst
<1> QED
  BY <1>1, <1>2

(* A substitution of variables in use keeps a context good.                *)
LEMMA GoodSubstCtx ==
  ASSUME NEW c, NEW Q, NEW n \in Nat, NEW v, NEW R \in SUBSET TVar,
         GoodContext(c, Q, n), v \notin Q, R \cap Q = {}, Older(R, n)
  PROVE  GoodContext(SubstCtx(c, v, R), Q, n)
<1>1. \A x \in Names : GoodScheme(Subst(c[x], v, R), Q, n)
  BY GoodSubst DEF GoodContext
<1>2. SubstCtx(c, v, R) \in Context
  BY <1>1 DEF SubstCtx, Context, GoodScheme
<1> QED
  BY <1>1, <1>2 DEF GoodContext, SubstCtx

(* The scheme generalise returns is good once its new names are spent. *)
LEMMA GoodGeneralised ==
  ASSUME NEW c, NEW Q, NEW V \in SUBSET TVar, ctr \in Nat,
         Spent(Q, ctr), GoodContext(c, Q, ctr), IsFiniteSet(V),
         V \cap Q = {}, Older(V, ctr)
  PROVE  LET n == Cardinality(Quantified(c, V))
         IN  /\ n \in Nat
             /\ GoodScheme(Generalised(c, V), Q \cup ctr .. (ctr + n - 1), ctr + n)
<1> DEFINE n == Cardinality(Quantified(c, V))
           fresh == ctr .. (ctr + n - 1)
           p == Generalised(c, V)
<1>1. IsFiniteSet(Quantified(c, V))
  BY FS_Subset DEF Quantified
<1>2. n \in Nat
  BY <1>1, FS_CardinalityType
<1>3. p = [bound |-> fresh, vars |-> fresh \cup (V \cap CtxFree(c))]
  BY DEF Generalised, Fresh
<1>4. IsFiniteSet(fresh)
  BY <1>2, FS_Interval
<1> HIDE DEF n, p
<1>5. p \in Scheme
  <2>1. fresh \in SUBSET Nat
    BY <1>2
  <2>2. fresh \cup (V \cap CtxFree(c)) \in SUBSET TVar
    BY <2>1 DEF TVar
  <2> QED
    BY <1>3, <2>1, <2>2 DEF Scheme
<1>6. Free(p) \subseteq V
  BY <1>3 DEF Free
<1>7. Free(p) \cap fresh = {}
  BY <1>3 DEF Free
<1>8. Older(p.vars, ctr + n)
  BY <1>2, <1>3 DEF Older
<1>9. GoodScheme(p, Q \cup fresh, ctr + n)
  BY <1>3, <1>4, <1>5, <1>6, <1>7, <1>8 DEF GoodScheme
<1> QED
  BY <1>2, <1>9 DEF n, p

-----------------------------------------------------------------------------
(* The context of the builtins (TypeContext::new) satisfies the invariant. *)
THEOREM InitGood == Init => IInv
<1> SUFFICES ASSUME Init PROVE IInv
  OBVIOUS
<1>1. GoodScheme(Closed, {}, 0)
  BY FS_EmptySet DEF GoodScheme, Closed, Scheme, Free, Older
<1>2. GoodContext([x \in Names |-> Closed], {}, 0)
  BY <1>1 DEF GoodContext, Context, GoodScheme
<1>3. GoodBase
  BY <1>2 DEF Init, GoodBase, GoodContext
<1>4. Good({})
  BY <1>2 DEF Init, Good, GoodLive, GoodScopes, Older
<1> QED
  BY <1>3, <1>4 DEF IInv

(***************************************************************************)
(* One step.  Every action but the two generalising ones keeps Q.          *)
(***************************************************************************)
LEMMA SpentLater ==
  ASSUME NEW n \in Nat, NEW m \in Nat, n <= m, NEW Q, Spent(Q, n)
  PROVE  Spent(Q \cup n .. (m - 1), m)
BY DEF Spent

(* The whole invariant survives spending the next variables. *)
LEMMA ScopesLater ==
  ASSUME NEW Q, NEW m \in Nat, ctr \in Nat, ctr <= m, GoodScopes(Q),
         NEW i \in 1 .. Len(scopes)
  PROVE  GoodContext(scopes[i].saved, Q \cup ctr .. (m - 1), m) /\ scopes[i].ctr <= m
<1>1. GoodContext(scopes[i].saved, Q, ctr) /\ scopes[i].ctr <= ctr
  BY DEF GoodScopes
<1>2. scopes[i].ctr \in Nat
  <2>1. scopes[i] \in Scope
    BY DEF GoodScopes
  <2> QED
    BY <2>1 DEF Scope
<1>3. GoodContext(scopes[i].saved, Q \cup ctr .. (m - 1), m)
  BY <1>1, GoodContextLater
<1> QED
  BY <1>1, <1>2, <1>3

(* Saved bindings are good, and so is what is restored from them. *)
LEMMA GoodClosed ==
  ASSUME NEW Q, NEW n \in Nat
  PROVE  GoodScheme(Closed, Q, n)
BY FS_EmptySet DEF GoodScheme, Closed, Scheme, Free, Older

(* Binding a name to a type in hand keeps a context good.                  *)
LEMMA GoodMono ==
  ASSUME NEW Q, NEW n \in Nat, NEW V \in SUBSET TVar, V \cap Q = {}, Older(V, n)
  PROVE  GoodScheme(Mono(V), Q, n)
BY FS_EmptySet DEF GoodScheme, Mono, Scheme, Free, Older

(* What is saved of a binding is good if the context is.                   *)
LEMMA GoodSaved ==
  ASSUME NEW Q, NEW n \in Nat, GoodContext(schemes, Q, n), NEW X
  PROVE  GoodContext(Saved(X), Q, n)
<1>1. \A x \in Names : GoodScheme(Saved(X)[x], Q, n)
  BY GoodClosed DEF Saved, GoodContext
<1>2. Saved(X) \in Context
  BY <1>1 DEF Saved, Context, GoodScheme
<1> QED
  BY <1>1, <1>2 DEF GoodContext

(* A context is good after a binding is put back.                          *)
LEMMA GoodRestored ==
  ASSUME NEW Q, NEW n \in Nat, GoodContext(schemes, Q, n),
         NEW f, GoodContext(f.saved, Q, n)
  PROVE  GoodContext(Restored(f), Q, n)
<1>1. \A x \in Names : GoodScheme(Restored(f)[x], Q, n)
  BY DEF Restored, GoodContext
<1>2. Restored(f) \in Context
  BY <1>1 DEF Restored, Context, GoodScheme
<1> QED
  BY <1>1, <1>2 DEF GoodContext

(* Pushing and popping a scope. *)
LEMMA GoodPush ==
  ASSUME NEW Q, GoodScopes(Q), NEW f \in Scope, ctr' = ctr,
         GoodContext(f.saved, Q, ctr), f.ctr <= ctr,
         scopes' = <<f>> \o scopes
  PROVE  GoodScopes(Q)'
<1>1. scopes' \in Seq(Scope) /\ Len(scopes') = 1 + Len(scopes)
  BY DEF GoodScopes
<1>2. ASSUME NEW i \in 1 .. Len(scopes')
      PROVE  GoodContext(scopes'[i].saved, Q, ctr) /\ scopes'[i].ctr <= ctr
  <2>1. CASE i = 1
    BY <2>1 DEF GoodScopes
  <2>2. CASE i # 1
    <3>1. i - 1 \in 1 .. Len(scopes) /\ scopes'[i] = scopes[i - 1]
      BY <1>1, <2>2 DEF GoodScopes
    <3> QED
      BY <3>1 DEF GoodScopes
  <2> QED
    BY <2>1, <2>2
<1> QED
  BY <1>1, <1>2 DEF GoodScopes

(* The scopes outside the innermost are good.                              *)
LEMMA GoodPop ==
  ASSUME NEW Q, NEW P, NEW m \in Nat, ctr \in Nat, ctr <= m, ctr' = m,
         P = Q \cup ctr .. (m - 1), GoodScopes(Q),
         scopes # <<>>, scopes' = Tail(scopes)
  PROVE  GoodScopes(P)'
<1>1. scopes' \in Seq(Scope) /\ Len(scopes') = Len(scopes) - 1
  BY DEF GoodScopes
<1>2. ASSUME NEW i \in 1 .. Len(scopes')
      PROVE  GoodContext(scopes'[i].saved, P, m) /\ scopes'[i].ctr <= m
  <2>1. i + 1 \in 1 .. Len(scopes) /\ scopes'[i] = scopes[i + 1]
    BY <1>1 DEF GoodScopes
  <2> QED
    BY <2>1, ScopesLater
<1> QED
  BY <1>1, <1>2 DEF GoodScopes

-----------------------------------------------------------------------------
(* The actions that allocate variables for quantifiers: the invariant is   *)
(* kept with the variables from ctr to m added to Q.                       *)
LEMMA GeneraliseStep ==
  ASSUME NEW Q, Spent(Q, ctr), Good(Q), NEW V \in TypesInHand, NEW X \in SUBSET Names,
         NEW c, GoodContext(c, Q, ctr),
         ctr' = ctr + Cardinality(Quantified(c, V)),
         schemes' = [x \in Names |-> IF x \in X THEN Generalised(c, V) ELSE c[x]],
         live' = live,
         scopes' = scopes \/ (scopes # <<>> /\ scopes' = Tail(scopes))
  PROVE  \E P \in SUBSET (0 .. (ctr' - 1)) : Good(P)'
<1> DEFINE n == Cardinality(Quantified(c, V))
<1>0. ctr \in Nat /\ GoodLive(Q) /\ GoodScopes(Q)
  BY DEF Good
<1>1. V \in SUBSET TVar /\ IsFiniteSet(V) /\ V \cap Q = {} /\ Older(V, ctr)
  BY <1>0 DEF TypesInHand, GoodLive, Older
<1>2. /\ n \in Nat
      /\ GoodScheme(Generalised(c, V), Q \cup ctr .. (ctr + n - 1), ctr + n)
  BY <1>0, <1>1, GoodGeneralised
<1> HIDE DEF n
<1>3. PICK m \in Nat : m = ctr + n
  BY <1>0, <1>2
<1>4. PICK P : P = Q \cup ctr .. (m - 1)
  OBVIOUS
<1>5. ctr' = m /\ ctr <= m
  BY <1>0, <1>2, <1>3 DEF n
<1>6. P \in SUBSET (0 .. (ctr' - 1))
  BY <1>0, <1>4, <1>5 DEF Spent
<1>7. GoodContext(schemes', P, m)
  <2>1. GoodContext(c, P, m)
    BY <1>0, <1>4, <1>5, GoodContextLater
  <2>2. GoodScheme(Generalised(c, V), P, m)
    <3>1. P = Q \cup ctr .. (ctr + n - 1)
      <4>1. ctr + n - 1 = m - 1
        BY <1>0, <1>2, <1>3
      <4> QED
        BY <1>4, <4>1
    <3> QED
      BY <1>2, <1>3, <3>1
  <2>3. \A x \in Names : GoodScheme(schemes'[x], P, m)
    BY <2>1, <2>2 DEF GoodContext
  <2>4. schemes' \in Context
    BY <2>3 DEF Context, GoodScheme
  <2> QED
    BY <2>3, <2>4 DEF GoodContext
<1>8. GoodLive(P)'
  BY <1>0, <1>4, <1>5 DEF GoodLive, Older
<1>9. GoodScopes(P)'
  <2>1. CASE scopes' = scopes
    <3>1. \A i \in 1 .. Len(scopes) : GoodContext(scopes[i].saved, P, m) /\ scopes[i].ctr <= m
      BY <1>0, <1>4, <1>5, ScopesLater
    <3>2. scopes \in Seq(Scope)
      BY <1>0 DEF GoodScopes
    <3>3. \A i \in 1 .. Len(scopes') : GoodContext(scopes'[i].saved, P, m) /\ scopes'[i].ctr <= m
      BY <2>1, <3>1
    <3>4. scopes' \in Seq(Scope)
      BY <2>1, <3>2
    <3> QED
      BY <1>5, <3>3, <3>4 DEF GoodScopes
  <2>2. CASE scopes # <<>> /\ scopes' = Tail(scopes)
    BY <1>0, <1>4, <1>5, <2>2, GoodPop
  <2> QED
    BY <2>1, <2>2
<1>10. Good(P)'
  BY <1>5, <1>7, <1>8, <1>9 DEF Good
<1> QED
  BY <1>6, <1>10

(* The other actions that allocate: the variables come to be in use. *)
LEMMA AllocateStep ==
  ASSUME NEW Q, Spent(Q, ctr), Good(Q), NEW m \in Nat, NEW W \in SUBSET TVar,
         ctr <= m, ctr' = m, schemes' = schemes, scopes' = scopes,
         live' = live \cup W \cup ctr .. (m - 1),
         W \cap Q = {}, Older(W, m)
  PROVE  Good(Q)'
<1>0. ctr \in Nat /\ GoodLive(Q) /\ GoodScopes(Q) /\ GoodContext(schemes, Q, ctr)
  BY DEF Good
<1>1. ASSUME NEW c, GoodContext(c, Q, ctr)
      PROVE  GoodContext(c, Q, m)
  BY <1>0, <1>1 DEF GoodContext, GoodScheme, Older
<1>2. GoodLive(Q)'
  <2>1. ctr .. (m - 1) \in SUBSET TVar
    BY <1>0 DEF TVar
  <2>2. Q \cap ctr .. (m - 1) = {}
    BY <1>0 DEF Spent
  <2>3. Older(live', m)
    BY <1>0 DEF GoodLive, Older
  <2> QED
    BY <1>0, <2>1, <2>2, <2>3 DEF GoodLive
<1>3. GoodScopes(Q)'
  <2>1. ASSUME NEW i \in 1 .. Len(scopes)
        PROVE  GoodContext(scopes[i].saved, Q, m) /\ scopes[i].ctr <= m
    <3>1. scopes[i] \in Scope
      BY <1>0 DEF GoodScopes
    <3> QED
      BY <1>0, <1>1, <3>1 DEF GoodScopes, Scope
  <2> QED
    BY <1>0, <2>1 DEF GoodScopes
<1> QED
  BY <1>0, <1>1, <1>2, <1>3 DEF Good

(* A unification.                                                          *)
LEMMA UnifyStep ==
  ASSUME NEW Q, Spent(Q, ctr), Good(Q),
         NEW v \in live, NEW R \in TypesInHand, Unify(v, R)
  PROVE  Good(Q)'
<1>0. ctr \in Nat /\ GoodLive(Q) /\ GoodScopes(Q) /\ GoodContext(schemes, Q, ctr)
  BY DEF Good
<1>1. v \notin Q /\ R \in SUBSET TVar /\ R \cap Q = {} /\ Older(R, ctr)
  BY <1>0 DEF TypesInHand, GoodLive, Older
<1>2. ctr' = ctr
  BY DEF Unify
<1>3. GoodContext(schemes', Q, ctr)
  BY <1>0, <1>1, GoodSubstCtx DEF Unify
<1>4. GoodLive(Q)'
  BY <1>0, <1>1, <1>2 DEF Unify, GoodLive, Older
<1>5. GoodScopes(Q)'
  <2>1. DOMAIN scopes = 1 .. Len(scopes) /\ Len(scopes) \in Nat
    BY <1>0 DEF GoodScopes
  <2>2. ASSUME NEW i \in 1 .. Len(scopes)
        PROVE  /\ scopes'[i] \in Scope
               /\ GoodContext(scopes'[i].saved, Q, ctr)
               /\ scopes'[i].ctr <= ctr
    <3>1. scopes[i] \in Scope
      BY <1>0 DEF GoodScopes
    <3>2. scopes'[i] = [scopes[i] EXCEPT !.saved = SubstCtx(scopes[i].saved, v, R)]
      BY <2>1 DEF Unify
    <3>3. GoodContext(SubstCtx(scopes[i].saved, v, R), Q, ctr)
      BY <1>0, <1>1, GoodSubstCtx DEF GoodScopes
    <3>4. scopes'[i] \in Scope /\ scopes'[i].saved = SubstCtx(scopes[i].saved, v, R)
      BY <3>1, <3>2, <3>3 DEF Scope, GoodContext
    <3>5. scopes'[i].ctr = scopes[i].ctr
      BY <3>1, <3>2 DEF Scope
    <3> QED
      BY <1>0, <3>3, <3>4, <3>5 DEF GoodScopes
  <2>3. scopes' = [i \in 1 .. Len(scopes) |-> scopes'[i]]
    BY <2>1 DEF Unify
  <2>4. scopes' \in Seq(Scope) /\ Len(scopes') = Len(scopes)
    BY <2>1, <2>2, <2>3
  <2> QED
    BY <1>2, <2>2, <2>4 DEF GoodScopes
<1> QED
  BY <1>0, <1>2, <1>3, <1>4, <1>5 DEF Good

(* A lambda, a let or a case is entered.                                   *)
LEMMA OpenStep ==
  ASSUME NEW Q, Good(Q), NEW f \in Scope, GoodContext(f.saved, Q, ctr),
         f.ctr <= ctr, scopes' = <<f>> \o scopes,
         ctr' = ctr, live' = live, GoodContext(schemes', Q, ctr)
  PROVE  Good(Q)'
<1>1. GoodScopes(Q)'
  BY GoodPush DEF Good
<1> QED
  BY <1>1 DEF Good, GoodLive

(* A name gets a monotype of types in hand. *)
LEMMA MonoStep ==
  ASSUME NEW Q, Good(Q), NEW x \in Names, NEW V \in TypesInHand,
         schemes' = [schemes EXCEPT ![x] = Mono(V)]
  PROVE  GoodContext(schemes', Q, ctr)
<1>1. V \in SUBSET TVar /\ V \cap Q = {} /\ Older(V, ctr)
  BY DEF TypesInHand, Good, GoodLive, Older
<1>2. GoodScheme(Mono(V), Q, ctr)
  BY <1>1, GoodMono DEF Good
<1>3. \A y \in Names : GoodScheme(schemes'[y], Q, ctr)
  BY <1>2 DEF Good, GoodContext, Context
<1>4. schemes' \in Context
  BY <1>2 DEF Good, GoodContext, Context, GoodScheme
<1> QED
  BY <1>3, <1>4 DEF GoodContext

(***************************************************************************)
(* Every step keeps the invariant.                                         *)
(***************************************************************************)
LEMMA StepGood ==
  ASSUME UserVars \cap Nat = {}, IInv, Next
  PROVE  IInv'
<1>1. PICK Q \in SUBSET (0 .. (ctr - 1)) : Good(Q)
  BY DEF IInv
<1>2. Spent(Q, ctr) /\ ctr \in Nat /\ GoodContext(schemes, Q, ctr)
  BY <1>1 DEF Spent, Good
<1>3. ASSUME base' = base, ctr' = ctr, Good(Q)'
      PROVE  IInv'
  BY <1>1, <1>3 DEF IInv, GoodBase
<1>4. CASE NewTypevar
  <2>1. PICK m \in Nat : m = ctr + 1
    BY <1>2
  <2>2. live' = live \cup {} \cup ctr .. (m - 1) /\ ctr' = m /\ ctr <= m
    BY <1>2, <1>4, <2>1 DEF NewTypevar
  <2>3. Good(Q)'
    BY <1>1, <1>2, <1>4, <2>2, AllocateStep DEF NewTypevar, Older
  <2>4. Q \in SUBSET (0 .. (ctr' - 1))
    BY <1>2, <2>2
  <2> QED
    BY <1>4, <2>3, <2>4 DEF NewTypevar, IInv, GoodBase
<1>5. CASE \E u \in UserVars : Annotate(u)
  <2>1. PICK u \in UserVars : Annotate(u)
    BY <1>5
  <2>2. {u} \in SUBSET TVar /\ {u} \cap Q = {} /\ Older({u}, ctr)
    <3>1. u \notin Nat /\ Q \in SUBSET Nat
      BY <1>2
    <3> QED
      BY <3>1 DEF TVar, Older
  <2>3. live' = live \cup {u} \cup ctr .. (ctr - 1)
    BY <1>2, <2>1 DEF Annotate
  <2>4. Good(Q)'
    BY <1>1, <1>2, <2>1, <2>2, <2>3, AllocateStep DEF Annotate
  <2> QED
    BY <1>3, <2>1, <2>4 DEF Annotate
<1>6. CASE \E x \in Names : Variable(x)
  <2>1. PICK x \in Names : Variable(x)
    BY <1>6
  <2>2. GoodScheme(schemes[x], Q, ctr)
    BY <1>2 DEF GoodContext
  <2>3. Cardinality(schemes[x].bound) \in Nat
    BY <2>2, FS_CardinalityType DEF GoodScheme
  <2>4. PICK m \in Nat : m = ctr + Cardinality(schemes[x].bound)
    BY <1>2, <2>3
  <2>5. ctr' = m /\ ctr <= m
    BY <1>2, <2>1, <2>3, <2>4 DEF Variable
  <2>6. live' = live \cup Free(schemes[x]) \cup ctr .. (m - 1)
    <3>1. ctr + Cardinality(schemes[x].bound) - 1 = m - 1
      BY <1>2, <2>3, <2>4
    <3> QED
      BY <2>1, <3>1 DEF Variable
  <2>7. Free(schemes[x]) \in SUBSET TVar /\ Free(schemes[x]) \cap Q = {}
    BY <2>2 DEF GoodScheme, Scheme, Free
  <2>8. Older(Free(schemes[x]), m)
    BY <1>2, <2>2, <2>5 DEF GoodScheme, Free, Older
  <2>9. Good(Q)'
    BY <1>1, <1>2, <2>1, <2>5, <2>6, <2>7, <2>8, AllocateStep DEF Variable
  <2>10. Q \in SUBSET (0 .. (ctr' - 1))
    BY <1>2, <2>5
  <2> QED
    BY <2>1, <2>9, <2>10 DEF Variable, IInv, GoodBase
<1>7. CASE \E v \in live, R \in TypesInHand : Unify(v, R)
  BY <1>1, <1>2, <1>3, <1>7, UnifyStep DEF Unify
<1>8. CASE \E kind \in {"lambda", "let"}, x \in Names, V \in TypesInHand :
             OpenBinder(kind, x, V)
  <2>1. PICK kind \in {"lambda", "let"}, x \in Names, V \in TypesInHand :
               OpenBinder(kind, x, V)
    BY <1>8
  <2> DEFINE f == [kind |-> kind, names |-> {x}, saved |-> Saved({x}), ctr |-> 0]
  <2>2. GoodContext(Saved({x}), Q, ctr)
    BY <1>2, GoodSaved
  <2>3. f \in Scope /\ f.saved = Saved({x}) /\ f.ctr <= ctr
    BY <1>2, <2>2 DEF Scope, GoodContext
  <2>4. GoodContext(schemes', Q, ctr)
    BY <1>1, <2>1, MonoStep DEF OpenBinder
  <2>5. scopes' = <<f>> \o scopes /\ ctr' = ctr /\ live' = live
    BY <2>1 DEF OpenBinder
  <2> HIDE DEF f
  <2>6. Good(Q)'
    BY <1>1, <2>2, <2>3, <2>4, <2>5, OpenStep
  <2> QED
    BY <1>3, <2>1, <2>6 DEF OpenBinder
<1>9. CASE CloseLambda
  <2>1. GoodContext(schemes', Q, ctr)
    <3>1. 1 \in 1 .. Len(scopes) /\ Head(scopes) = scopes[1]
      BY <1>1, <1>9 DEF CloseLambda, Good, GoodScopes
    <3>2. GoodContext(Head(scopes).saved, Q, ctr)
      BY <1>1, <3>1 DEF Good, GoodScopes
    <3> QED
      BY <1>2, <1>9, <3>2, GoodRestored DEF CloseLambda
  <2>2. Q = Q \cup ctr .. (ctr - 1)
    BY <1>2
  <2>3. GoodScopes(Q)'
    BY <1>1, <1>2, <1>9, <2>2, GoodPop DEF CloseLambda, Good
  <2>4. Good(Q)'
    BY <1>1, <1>9, <2>1, <2>3 DEF CloseLambda, Good, GoodLive
  <2> QED
    BY <1>3, <1>9, <2>4 DEF CloseLambda
<1>10. CASE \E V \in TypesInHand : CloseLet(V)
  <2>1. PICK V \in TypesInHand : CloseLet(V)
    BY <1>10
  <2> DEFINE c == Restored(Head(scopes))
             X == Head(scopes).names
  <2>2. 1 \in 1 .. Len(scopes) /\ Head(scopes) = scopes[1]
    BY <1>1, <2>1 DEF CloseLet, Good, GoodScopes
  <2>3. Head(scopes) \in Scope /\ GoodContext(Head(scopes).saved, Q, ctr)
    BY <1>1, <2>2 DEF Good, GoodScopes
  <2>4. X \in SUBSET Names
    BY <2>3 DEF Scope
  <2>5. GoodContext(c, Q, ctr)
    BY <1>2, <2>3, GoodRestored
  <2>6. /\ ctr' = ctr + Cardinality(Quantified(c, V))
        /\ schemes' = [x \in Names |-> IF x \in X THEN Generalised(c, V) ELSE c[x]]
        /\ live' = live
        /\ scopes # <<>> /\ scopes' = Tail(scopes)
        /\ base' = base
    BY <2>1 DEF CloseLet
  <2> HIDE DEF c, X
  <2>7. PICK d, Y : d = c /\ Y = X
    OBVIOUS
  <2>8. \E P \in SUBSET (0 .. (ctr' - 1)) : Good(P)'
    BY <1>1, <1>2, <2>4, <2>5, <2>6, <2>7, GeneraliseStep
  <2> QED
    BY <2>6, <2>8 DEF IInv, GoodBase
<1>11. CASE OpenCase
  <2> DEFINE f == [kind |-> "case", names |-> Names, saved |-> Saved(Names), ctr |-> ctr]
  <2>1. GoodContext(Saved(Names), Q, ctr)
    BY <1>2, GoodSaved
  <2>2. f \in Scope /\ f.saved = Saved(Names) /\ f.ctr <= ctr
    BY <1>2, <2>1 DEF Scope, GoodContext
  <2>3. /\ scopes' = <<f>> \o scopes /\ ctr' = ctr /\ live' = live
        /\ schemes' = schemes /\ base' = base
    BY <1>11 DEF OpenCase
  <2> HIDE DEF f
  <2>4. PICK g : g = f
    OBVIOUS
  <2>5. Good(Q)'
    BY <1>1, <1>2, <2>1, <2>2, <2>3, <2>4, OpenStep
  <2> QED
    BY <1>3, <2>3, <2>5
<1>12. CASE \E x \in Names, V \in TypesInHand : PatternVariable(x, V)
  <2>1. PICK x \in Names, V \in TypesInHand : PatternVariable(x, V)
    BY <1>12
  <2>2. GoodContext(schemes', Q, ctr)
    BY <1>1, <2>1, MonoStep DEF PatternVariable
  <2>3. Good(Q)'
    BY <1>1, <2>1, <2>2 DEF PatternVariable, Good, GoodLive, GoodScopes
  <2> QED
    BY <1>3, <2>1, <2>3 DEF PatternVariable
<1>13. CASE CloseCase
  <2>1. 1 \in 1 .. Len(scopes) /\ Head(scopes) = scopes[1]
    BY <1>1, <1>13 DEF CloseCase, Good, GoodScopes
  <2>2. Head(scopes) \in Scope /\ GoodContext(Head(scopes).saved, Q, ctr)
        /\ Head(scopes).ctr <= ctr
    BY <1>1, <2>1 DEF Good, GoodScopes
  <2>3. ctr' = ctr
    BY <1>2, <1>13, <2>2 DEF CloseCase, CounterAfterCase, Scope
  <2>4. GoodContext(schemes', Q, ctr)
    BY <1>2, <1>13, <2>2, GoodRestored DEF CloseCase
  <2>5. Q = Q \cup ctr .. (ctr - 1)
    BY <1>2
  <2>6. GoodScopes(Q)'
    BY <1>1, <1>2, <1>13, <2>3, <2>5, GoodPop DEF CloseCase, Good
  <2>7. Good(Q)'
    BY <1>1, <1>13, <2>3, <2>4, <2>6 DEF CloseCase, Good, GoodLive
  <2> QED
    BY <1>3, <1>13, <2>3, <2>7 DEF CloseCase
<1>14. CASE \E x \in Names, V \in TypesInHand : Constructor(x, V)
  <2>1. PICK x \in Names, V \in TypesInHand : Constructor(x, V)
    BY <1>14
  <2>2. schemes' = [y \in Names |-> IF y \in {x} THEN Generalised(schemes, V)
                                                 ELSE schemes[y]]
    BY <1>2, <2>1 DEF Constructor, GoodContext, Context
  <2>3. PICK c : c = schemes
    OBVIOUS
  <2>4. /\ ctr' = ctr + Cardinality(Quantified(c, V))
        /\ schemes' = [y \in Names |-> IF y \in {x} THEN Generalised(c, V) ELSE c[y]]
        /\ live' = live /\ scopes' = scopes /\ base' = base
        /\ GoodContext(c, Q, ctr) /\ {x} \in SUBSET Names
    BY <1>2, <2>1, <2>2, <2>3 DEF Constructor
  <2>5. \E P \in SUBSET (0 .. (ctr' - 1)) : Good(P)'
    BY <1>1, <1>2, <2>4, GeneraliseStep
  <2> QED
    BY <2>4, <2>5 DEF IInv, GoodBase
<1>15. CASE Commit
  <2>1. Good(Q)'
    BY <1>1, <1>15 DEF Commit, Good, GoodLive, GoodScopes, Older
  <2>2. GoodBase'
    BY <1>1, <1>2, <1>15 DEF Commit, GoodBase, GoodContext
  <2> QED
    BY <1>1, <1>15, <2>1, <2>2 DEF Commit, IInv
<1>16. CASE Fail
  <2>1. PICK P \in SUBSET (0 .. (base.ctr - 1)) :
               GoodContext(base.schemes, P, base.ctr)
    BY DEF IInv, GoodBase
  <2>2. base.ctr \in Nat
    BY DEF IInv, GoodBase
  <2>3. Good(P)'
    BY <1>16, <2>1, <2>2 DEF Fail, Good, GoodLive, GoodScopes, Older
  <2> QED
    BY <1>16, <2>1, <2>3 DEF Fail, IInv, GoodBase
<1>17. CASE BeginTerm
  <2>1. Good(Q)'
    BY <1>1, <1>17 DEF BeginTerm, Good, GoodLive, GoodScopes
  <2> QED
    BY <1>3, <1>17, <2>1 DEF BeginTerm
<1>18. CASE \E n \in 0 .. MaxVars : BeginEnum(n)
  <2>1. PICK n \in 0 .. MaxVars : BeginEnum(n)
    BY <1>18
  <2>2. PICK m \in Nat : m = ctr + n
    BY <1>2
  <2>3. ctr' = m /\ ctr <= m /\ ctr + n - 1 = m - 1
    BY <1>2, <2>1, <2>2 DEF BeginEnum
  <2>4. live' = live \cup {} \cup ctr .. (m - 1)
    BY <2>1, <2>3 DEF BeginEnum, Fresh
  <2>5. Good(Q)'
    BY <1>1, <1>2, <2>1, <2>3, <2>4, AllocateStep DEF BeginEnum, Older
  <2>6. Q \in SUBSET (0 .. (ctr' - 1))
    BY <1>2, <2>3
  <2> QED
    BY <2>1, <2>5, <2>6 DEF BeginEnum, IInv, GoodBase
<1> QED
  BY <1>4, <1>5, <1>6, <1>7, <1>8, <1>9, <1>10, <1>11, <1>12, <1>13, <1>14,
     <1>15, <1>16, <1>17, <1>18 DEF Next

-----------------------------------------------------------------------------
(* The invariant implies what the runs check. *)
StmtOK == stmt \in {"none", "term", "enum"}

(* What kinds of statements there are.                                     *)
LEMMA StmtKind == Spec => []StmtOK
<1>1. Init => StmtOK
  BY DEF Init, StmtOK
<1>2. StmtOK /\ [Next]_vars => StmtOK'
  BY DEF StmtOK, vars, Next, BeginTerm, BeginEnum, NewTypevar, Annotate, Variable,
         Unify, OpenBinder, CloseLambda, CloseLet, OpenCase, PatternVariable,
         CloseCase, Constructor, Commit, Fail
<1> QED
  BY <1>1, <1>2, PTL DEF Spec

(* The invariant implies the properties.                                   *)
LEMMA IInvImplies ==
  ASSUME IInv
  PROVE  (StmtOK => TypeOK) /\ NoCapture /\ SchemesIntact
<1>1. PICK Q \in SUBSET (0 .. (ctr - 1)) : Good(Q)
  BY DEF IInv
<1>2. ctr \in Nat
  BY <1>1 DEF Good
<1>3. DOMAIN scopes = 1 .. Len(scopes)
  BY <1>1 DEF Good, GoodScopes
<1>4. ASSUME NEW c \in Contexts PROVE GoodContext(c, Q, ctr)
  <2>1. CASE c = schemes
    BY <1>1, <2>1 DEF Good
  <2>2. CASE \E i \in DOMAIN scopes : c = scopes[i].saved
    BY <1>1, <1>3, <2>2 DEF Good, GoodScopes
  <2> QED
    BY <2>1, <2>2 DEF Contexts
<1>5. StmtOK => TypeOK
  BY <1>1 DEF IInv, StmtOK, TypeOK, Good, GoodBase, GoodContext, GoodLive, GoodScopes
<1>6. NoCapture
  <2>1. Bound \subseteq Q
    BY <1>4 DEF Bound, CtxBound, GoodContext, GoodScheme
  <2>2. ASSUME NEW c \in Contexts PROVE CtxFree(c) \cap Q = {}
    BY <1>4 DEF CtxFree, GoodContext, GoodScheme
  <2>3. live \cap Q = {}
    BY <1>1 DEF Good, GoodLive
  <2>4. InUse \cap Q = {}
    BY <2>2, <2>3 DEF InUse
  <2> QED
    BY <2>1, <2>4 DEF NoCapture
<1>7. SchemesIntact
  BY <1>4 DEF SchemesIntact, GoodContext, GoodScheme
<1> QED
  BY <1>5, <1>6, <1>7

(* If no annotation uses a name of the form t<n>, the invariant holds in   *)
(* every behaviour, for any number of names, variables and scopes.         *)
THEOREM Invariance == ASSUME UserVars \cap Nat = {} PROVE Spec => []IInv
<1>1. Init => IInv
  BY InitGood
<1>2. IInv /\ [Next]_vars => IInv'
  <2>1. ASSUME IInv, Next PROVE IInv'
    BY <2>1, StepGood
  <2>2. ASSUME IInv, UNCHANGED vars PROVE IInv'
    BY <2>2 DEF vars, IInv, GoodBase, Good, GoodLive, GoodScopes
  <2> QED
    BY <2>1, <2>2
<1> QED
  BY <1>1, <1>2, PTL DEF Spec

(* Types of the state of the context, the scopes and the saved clone. *)
THEOREM TypeCorrect == ASSUME UserVars \cap Nat = {} PROVE Spec => []TypeOK
<1>1. IInv /\ StmtOK => TypeOK
  BY IInvImplies
<1> QED
  BY <1>1, Invariance, StmtKind, PTL

(* The promise of the comment of TypeContext::generalise (types.rs:385-389):*)
(* a quantified variable is never in use, in any of the contexts W returns *)
(* to, so that no substitution reaches it.                                 *)
THEOREM Hygiene == ASSUME UserVars \cap Nat = {} PROVE Spec => []NoCapture
<1>1. IInv => NoCapture
  BY IInvImplies
<1> QED
  BY <1>1, Invariance, PTL

(* Polytype::apply does not look at quantifiers, and need not: every       *)
(* quantified variable of a stored polytype is still in its body.          *)
THEOREM PolytypesSurvive == ASSUME UserVars \cap Nat = {} PROVE Spec => []SchemesIntact
<1>1. IInv => SchemesIntact
  BY IInvImplies
<1> QED
  BY <1>1, Invariance, PTL

(* new_typevar never hands out a name that is in use or quantified, across *)
(* the counters of cloned contexts and of statements that were rolled back.*)
THEOREM FreshNames == ASSUME UserVars \cap Nat = {} PROVE Spec => AllocatesUnused
<1>1. ASSUME IInv, IInv'
      PROVE  \A v \in ctr .. (ctr' - 1) : v \notin InUse \cup Bound
  <2>1. PICK Q \in SUBSET (0 .. (ctr - 1)) : Good(Q)
    BY <1>1 DEF IInv
  <2>2. ctr \in Nat /\ ctr' \in Nat
    BY <1>1 DEF IInv, Good
  <2>3. ASSUME NEW c \in Contexts PROVE GoodContext(c, Q, ctr)
    <3>1. DOMAIN scopes = 1 .. Len(scopes)
      BY <2>1 DEF Good, GoodScopes
    <3> QED
      BY <2>1, <3>1 DEF Contexts, Good, GoodScopes
  <2>4. ASSUME NEW v \in Nat, ctr <= v PROVE v \notin InUse \cup Bound
    <3>1. v \notin live
      BY <2>1, <2>2, <2>4 DEF Good, GoodLive, Older
    <3>2. ASSUME NEW c \in Contexts, NEW x \in Names PROVE v \notin c[x].vars
      <4>1. GoodScheme(c[x], Q, ctr)
        BY <2>3 DEF GoodContext
      <4> QED
        BY <2>2, <2>4, <4>1 DEF GoodScheme, Older
    <3>3. ASSUME NEW c \in Contexts
          PROVE  v \notin CtxFree(c) /\ v \notin CtxBound(c)
      BY <2>3, <3>2 DEF CtxFree, CtxBound, Free, GoodContext, GoodScheme
    <3> QED
      BY <3>1, <3>3 DEF InUse, Bound
  <2> QED
    BY <2>2, <2>4
<1> QED
  BY <1>1, Invariance, PTL DEF AllocatesUnused

=============================================================================
