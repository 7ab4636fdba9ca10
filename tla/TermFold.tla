------------------------------ MODULE TermFold ------------------------------
(***************************************************************************)
(* A fold over terms, as the recursive methods of Monotype are: Alg says   *)
(* what a node is worth, given a parameter and what its arguments are      *)
(* worth.                                                                  *)
(***************************************************************************)
EXTENDS TLAPS

CONSTANTS
  Terms,        \* the terms, which have their arguments in a field a
  Alg(_, _, _)  \* Alg(p, t, r): the worth of t, r being those of its arguments

Fold(p, t) ==
  LET F[x \in Terms] == Alg(p, x, [i \in DOMAIN x.a |-> F[x.a[i]]])
  IN  F[t]

-----------------------------------------------------------------------------
(* What makes Terms a set of terms: the arguments of a term are terms, and *)
(* a set of terms that has every term whose arguments it has, has all.     *)
Inductive ==
  /\ \A t \in Terms : \A i \in DOMAIN t.a : t.a[i] \in Terms
  /\ \A S \in SUBSET Terms :
       (\A t \in Terms : (\A i \in DOMAIN t.a : t.a[i] \in S) => t \in S) => S = Terms

(* f is the fold on its domain, which has the arguments of its terms.      *)
Folds(p, f) ==
  /\ DOMAIN f \subseteq Terms
  /\ \A t \in DOMAIN f : /\ \A i \in DOMAIN t.a : t.a[i] \in DOMAIN f
                         /\ f[t] = Alg(p, t, [i \in DOMAIN t.a |-> f[t.a[i]]])

(* Two folds give a term the same worth.                                   *)
LEMMA FoldsAgree ==
  ASSUME Inductive, NEW p, NEW f, NEW g, Folds(p, f), Folds(p, g)
  PROVE  \A t \in Terms : t \in DOMAIN f /\ t \in DOMAIN g => f[t] = g[t]
<1> DEFINE S == {t \in Terms : t \in DOMAIN f /\ t \in DOMAIN g => f[t] = g[t]}
<1>1. ASSUME NEW t \in Terms, \A i \in DOMAIN t.a : t.a[i] \in S
      PROVE  t \in S
  <2>1. SUFFICES ASSUME t \in DOMAIN f, t \in DOMAIN g
                 PROVE  f[t] = g[t]
    OBVIOUS
  <2>2. \A i \in DOMAIN t.a : f[t.a[i]] = g[t.a[i]]
    BY <1>1, <2>1 DEF Folds
  <2>3. [i \in DOMAIN t.a |-> f[t.a[i]]] = [i \in DOMAIN t.a |-> g[t.a[i]]]
    BY <2>2
  <2> QED
    BY <2>1, <2>3 DEF Folds
<1>2. S = Terms
  <2> HIDE DEF S
  <2>1. S \in SUBSET Terms
    BY DEF S
  <2> QED
    BY <1>1, <2>1 DEF Inductive
<1> QED
  BY <1>2

(* There is a fold on all of Terms.                                        *)
LEMMA FoldExists ==
  ASSUME Inductive, NEW p
  PROVE  \E f : f = [t \in Terms |-> Alg(p, t, [i \in DOMAIN t.a |-> f[t.a[i]]])]
<1> DEFINE D == {t \in Terms : \E f : Folds(p, f) /\ t \in DOMAIN f}
           Some(t) == CHOOSE f : Folds(p, f) /\ t \in DOMAIN f
           h == [t \in D |-> Some(t)[t]]
<1>1. \A t \in D : Folds(p, Some(t)) /\ t \in DOMAIN Some(t)
  OBVIOUS
<1>2. ASSUME NEW f, Folds(p, f), NEW t \in DOMAIN f
      PROVE  t \in D /\ h[t] = f[t]
  <2>1. t \in D
    BY <1>2 DEF Folds
  <2>2. Some(t)[t] = f[t]
    <3> HIDE DEF Some
    <3>1. Folds(p, Some(t)) /\ t \in DOMAIN Some(t) /\ t \in Terms
      BY <1>1, <2>1
    <3> QED
      BY <1>2, <3>1, FoldsAgree
  <2> QED
    BY <2>1, <2>2
<1>3. Folds(p, h)
  <2>1. ASSUME NEW t \in D
        PROVE  /\ \A i \in DOMAIN t.a : t.a[i] \in D
               /\ h[t] = Alg(p, t, [i \in DOMAIN t.a |-> h[t.a[i]]])
    <3>1. PICK f : Folds(p, f) /\ t \in DOMAIN f
      OBVIOUS
    <3> HIDE DEF h, D
    <3>2. \A i \in DOMAIN t.a : t.a[i] \in D /\ h[t.a[i]] = f[t.a[i]]
      BY <1>2, <3>1 DEF Folds
    <3>3. [i \in DOMAIN t.a |-> h[t.a[i]]] = [i \in DOMAIN t.a |-> f[t.a[i]]]
      BY <3>2
    <3> QED
      BY <1>2, <3>1, <3>2, <3>3 DEF Folds
  <2> QED
    BY <2>1 DEF Folds
<1>4. D = Terms
  <2>1. ASSUME NEW t \in Terms, \A i \in DOMAIN t.a : t.a[i] \in D
        PROVE  t \in D
    <3>1. SUFFICES ASSUME t \notin D
                   PROVE  FALSE
      OBVIOUS
    <3> DEFINE e == [x \in D \cup {t} |->
                       IF x = t THEN Alg(p, t, [i \in DOMAIN t.a |-> h[t.a[i]]]) ELSE h[x]]
    <3>2. ASSUME NEW x \in D
          PROVE  \A i \in DOMAIN x.a : x.a[i] \in D /\ e[x.a[i]] = h[x.a[i]]
      <4>1. \A i \in DOMAIN x.a : x.a[i] \in D
        BY <1>3 DEF Folds
      <4> HIDE DEF D, h
      <4> QED
        BY <4>1, <3>1
    <3>3. \A i \in DOMAIN t.a : e[t.a[i]] = h[t.a[i]]
      <4> HIDE DEF D, h
      <4> QED
        BY <2>1, <3>1
    <3>4. ASSUME NEW x \in D
          PROVE  e[x] = Alg(p, x, [i \in DOMAIN x.a |-> e[x.a[i]]])
      <4>1. e[x] = h[x]
        <5> HIDE DEF D, h
        <5> QED
          BY <3>1
      <4>2. [i \in DOMAIN x.a |-> e[x.a[i]]] = [i \in DOMAIN x.a |-> h[x.a[i]]]
        <5> HIDE DEF e, h, D
        <5> QED
          BY <3>2
      <4>3. h[x] = Alg(p, x, [i \in DOMAIN x.a |-> h[x.a[i]]])
        BY <1>3 DEF Folds
      <4> HIDE DEF e, h, D
      <4> QED
        BY <4>1, <4>2, <4>3
    <3>5. e[t] = Alg(p, t, [i \in DOMAIN t.a |-> e[t.a[i]]])
      <4>1. [i \in DOMAIN t.a |-> e[t.a[i]]] = [i \in DOMAIN t.a |-> h[t.a[i]]]
        <5> HIDE DEF e, h, D
        <5> QED
          BY <3>3
      <4>2. e[t] = Alg(p, t, [i \in DOMAIN t.a |-> h[t.a[i]]])
        <5> HIDE DEF h, D
        <5> QED
          OBVIOUS
      <4> HIDE DEF e, h, D
      <4> QED
        BY <4>1, <4>2
    <3>6. Folds(p, e)
      <4>1. DOMAIN e = D \cup {t} /\ D \subseteq Terms
        OBVIOUS
      <4> HIDE DEF e, h, D
      <4> QED
        BY <2>1, <3>2, <3>4, <3>5, <4>1 DEF Folds
    <3>7. t \in DOMAIN e
      OBVIOUS
    <3> HIDE DEF e
    <3> QED
      BY <3>1, <3>6, <3>7
  <2>2. D \in SUBSET Terms
    OBVIOUS
  <2> HIDE DEF D
  <2> QED
    BY <2>1, <2>2 DEF Inductive
<1>5. h = [t \in Terms |-> Alg(p, t, [i \in DOMAIN t.a |-> h[t.a[i]]])]
  <2>1. DOMAIN h = Terms /\ h = [t \in DOMAIN h |-> h[t]]
    BY <1>4
  <2> HIDE DEF h
  <2>2. \A t \in Terms : h[t] = Alg(p, t, [i \in DOMAIN t.a |-> h[t.a[i]]])
    BY <1>3, <2>1 DEF Folds
  <2> QED
    BY <2>1, <2>2
<1> HIDE DEF h
<1> QED
  BY <1>5

(* A fold over terms satisfies the equation it is defined by, for any set  *)
(* of terms with induction: free_variables, apply and the meaning of a type *)
(* are what their cases say.                                               *)
THEOREM FoldEquation ==
  ASSUME Inductive, NEW p, NEW t \in Terms
  PROVE  Fold(p, t) = Alg(p, t, [i \in DOMAIN t.a |-> Fold(p, t.a[i])])
<1> DEFINE F == CHOOSE f : f = [x \in Terms |-> Alg(p, x, [i \in DOMAIN x.a |-> f[x.a[i]]])]
<1>1. F = [x \in Terms |-> Alg(p, x, [i \in DOMAIN x.a |-> F[x.a[i]]])]
  BY FoldExists, Zenon
<1>2. \A x : Fold(p, x) = F[x]
  BY DEF Fold
<1> HIDE DEF F
<1>3. F[t] = Alg(p, t, [i \in DOMAIN t.a |-> F[t.a[i]]])
  BY <1>1
<1>4. [i \in DOMAIN t.a |-> F[t.a[i]]] = [i \in DOMAIN t.a |-> Fold(p, t.a[i])]
  BY <1>2
<1> QED
  BY <1>2, <1>3, <1>4
=============================================================================
