---------------------------- MODULE SequenceFold ----------------------------
(***************************************************************************)
(* A fold over a sequence from its first element to its last, as a         *)
(* recursive function, and the two equations that characterise it.  The    *)
(* library's fold is a recursive operator, of which nothing can be proved; *)
(* its induction theorem has an operator for a parameter, and this one,    *)
(* NaturalNumbers, a set.                                                  *)
(***************************************************************************)
EXTENDS Integers, Sequences, WellFoundedInduction, TLAPS

CONSTANT Op(_, _)  \* what is done with one more element

Fold(base, s) ==
  LET F[i \in Nat] == IF i = 0 THEN base ELSE Op(F[i - 1], s[i])
  IN  F[Len(s)]

-----------------------------------------------------------------------------
(* Induction, for a set of numbers.                                        *)
LEMMA NaturalNumbers ==
  \A S \in SUBSET Nat : 0 \in S /\ (\A n \in S : n + 1 \in S) => \A n \in Nat : n \in S
<1> SUFFICES ASSUME NEW S \in SUBSET Nat, 0 \in S, \A n \in S : n + 1 \in S,
                    NEW k \in Nat, k \notin S
             PROVE  FALSE
  OBVIOUS
<1> DEFINE T == Nat \ S
<1>1. T # {}
  OBVIOUS
<1>2. PICK n \in T : \A m \in T : ~ (<<m, n>> \in OpToRel(<, Nat))
  <2>1. IsWellFoundedOn(OpToRel(<, Nat), Nat) /\ T \subseteq Nat
    BY NatLessThanWellFounded
  <2> HIDE DEF T
  <2> QED
    BY <1>1, <2>1, WFMin
<1>3. n \in Nat /\ n # 0
  OBVIOUS
<1>4. n - 1 \in Nat /\ n - 1 < n /\ (n - 1) + 1 = n
  BY <1>3
<1>5. n - 1 \in S
  BY <1>2, <1>3, <1>4 DEF OpToRel
<1> QED
  BY <1>4, <1>5

(* f is the fold of s up to n.                                             *)
FoldsTo(base, s, f, n) ==
  /\ f[0] = base
  /\ \A i \in 1 .. n : f[i] = Op(f[i - 1], s[i])

(* The fold of the first n elements depends on nothing else.               *)
LEMMA FoldsAgree ==
  ASSUME NEW base, NEW s, NEW t, NEW f, NEW g, NEW n \in Nat,
         FoldsTo(base, s, f, n), FoldsTo(base, t, g, n),
         \A i \in 1 .. n : s[i] = t[i]
  PROVE  f[n] = g[n]
<1> DEFINE S == {i \in Nat : i <= n => f[i] = g[i]}
<1>1. 0 \in S
  BY DEF FoldsTo
<1>2. ASSUME NEW i \in S
      PROVE  i + 1 \in S
  <2>1. SUFFICES ASSUME i + 1 <= n
                 PROVE  f[i + 1] = g[i + 1]
    OBVIOUS
  <2>2. i \in Nat /\ i + 1 \in 1 .. n /\ (i + 1) - 1 = i /\ f[i] = g[i]
    BY <2>1
  <2>3. f[i + 1] = Op(f[i], s[i + 1])
    BY <2>2 DEF FoldsTo
  <2>4. g[i + 1] = Op(g[i], t[i + 1])
    BY <2>2 DEF FoldsTo
  <2> QED
    BY <2>2, <2>3, <2>4
<1>3. \A i \in Nat : i \in S
  <2>1. S \in SUBSET Nat
    OBVIOUS
  <2> HIDE DEF S
  <2> QED
    BY <1>1, <1>2, <2>1, NaturalNumbers
<1> QED
  BY <1>3

(* The recursive function of Fold exists.                                  *)
Solves(base, s, f) == f = [i \in Nat |-> IF i = 0 THEN base ELSE Op(f[i - 1], s[i])]

(* There is a function that folds every beginning of the sequence.         *)
LEMMA FoldExists ==
  ASSUME NEW base, NEW s
  PROVE  \E f : Solves(base, s, f)
<1> DEFINE S == {n \in Nat : \E f : FoldsTo(base, s, f, n)}
<1>1. 0 \in S
  <2>1. FoldsTo(base, s, [i \in {0} |-> base], 0)
    BY DEF FoldsTo
  <2> QED
    BY <2>1
<1>2. ASSUME NEW n \in S
      PROVE  n + 1 \in S
  <2>1. PICK f : FoldsTo(base, s, f, n)
    OBVIOUS
  <2> DEFINE g == [i \in 0 .. (n + 1) |-> IF i = n + 1 THEN Op(f[n], s[n + 1]) ELSE f[i]]
  <2>2. n \in Nat
    OBVIOUS
  <2>3. g[0] = base
    BY <2>1, <2>2 DEF FoldsTo
  <2>4. ASSUME NEW i \in 1 .. (n + 1)
        PROVE  g[i] = Op(g[i - 1], s[i])
    <3>1. i - 1 \in 0 .. n /\ g[i - 1] = f[i - 1]
      BY <2>2
    <3>2. CASE i = n + 1
      <4>1. g[i] = Op(f[n], s[n + 1]) /\ g[i - 1] = f[n]
        BY <2>2, <3>1, <3>2
      <4> QED
        BY <3>2, <4>1
    <3>3. CASE i # n + 1
      <4>1. i \in 1 .. n /\ g[i] = f[i]
        BY <2>2, <3>3
      <4> HIDE DEF g
      <4> QED
        BY <2>1, <3>1, <4>1 DEF FoldsTo
    <3> QED
      BY <3>2, <3>3
  <2>5. FoldsTo(base, s, g, n + 1)
    BY <2>3, <2>4 DEF FoldsTo
  <2> HIDE DEF g
  <2> QED
    BY <2>2, <2>5
<1>3. \A i \in Nat : i \in S
  <2>1. S \in SUBSET Nat
    OBVIOUS
  <2> HIDE DEF S
  <2> QED
    BY <1>1, <1>2, <2>1, NaturalNumbers
<1> DEFINE Some(n) == CHOOSE f : FoldsTo(base, s, f, n)
           h == [n \in Nat |-> Some(n)[n]]
<1>4. \A n \in Nat : FoldsTo(base, s, Some(n), n)
  BY <1>3
<1>5. h[0] = base
  BY <1>4 DEF FoldsTo
<1>6. ASSUME NEW n \in Nat, n # 0
      PROVE  h[n] = Op(h[n - 1], s[n])
  <2>1. n - 1 \in Nat /\ n \in 1 .. n /\ 1 .. (n - 1) \subseteq 1 .. n
    BY <1>6
  <2> HIDE DEF Some
  <2>2. FoldsTo(base, s, Some(n), n) /\ FoldsTo(base, s, Some(n - 1), n - 1)
    BY <1>4, <2>1
  <2>3. FoldsTo(base, s, Some(n), n - 1)
    BY <2>1, <2>2 DEF FoldsTo
  <2>4. Some(n)[n - 1] = Some(n - 1)[n - 1]
    BY <2>1, <2>2, <2>3, FoldsAgree
  <2>5. Some(n)[n] = Op(Some(n)[n - 1], s[n])
    BY <2>1, <2>2 DEF FoldsTo
  <2> QED
    BY <2>1, <2>4, <2>5
<1>7. DOMAIN h = Nat /\ h = [n \in DOMAIN h |-> h[n]]
  OBVIOUS
<1>8. h = [i \in Nat |-> IF i = 0 THEN base ELSE Op(h[i - 1], s[i])]
  <2> HIDE DEF h
  <2> QED
    BY <1>5, <1>6, <1>7
<1> HIDE DEF h
<1>9. Solves(base, s, h)
  BY <1>8 DEF Solves
<1> QED
  BY <1>9

(* A fold is the value of a function that folds the sequence up to any n.  *)
LEMMA FoldIs ==
  ASSUME NEW base, NEW s
  PROVE  \E f : Fold(base, s) = f[Len(s)] /\ \A n \in Nat : FoldsTo(base, s, f, n)
<1> DEFINE F == CHOOSE f : Solves(base, s, f)
<1>1. Solves(base, s, F)
  BY FoldExists
<1>2. Fold(base, s) = F[Len(s)]
  BY DEF Fold, Solves
<1> HIDE DEF F
<1>3. F[0] = base
  BY <1>1 DEF Solves
<1>4. \A i \in Nat : i # 0 => F[i] = Op(F[i - 1], s[i])
  BY <1>1 DEF Solves
<1>5. \A n \in Nat : FoldsTo(base, s, F, n)
  BY <1>3, <1>4 DEF FoldsTo
<1> QED
  BY <1>2, <1>5

(* The fold of no elements is the base: a substitution without bindings    *)
(* changes nothing.                                                        *)
THEOREM FoldEmpty ==
  ASSUME NEW base
  PROVE  Fold(base, <<>>) = base
<1>1. PICK f : Fold(base, <<>>) = f[Len(<<>>)] /\ \A n \in Nat : FoldsTo(base, <<>>, f, n)
  BY FoldIs
<1>2. Len(<<>>) = 0 /\ f[0] = base
  BY <1>1 DEF FoldsTo
<1> QED
  BY <1>1, <1>2

(* The fold of one element more: the last binding of a substitution is     *)
(* applied to what the others have made of a type.                         *)
THEOREM FoldAppend ==
  ASSUME NEW base, NEW S, NEW s \in Seq(S), NEW x \in S
  PROVE  Fold(base, Append(s, x)) = Op(Fold(base, s), x)
<1> DEFINE n == Len(s)
           t == Append(s, x)
<1>1. n \in Nat /\ Len(t) = n + 1 /\ t[n + 1] = x /\ \A i \in 1 .. n : t[i] = s[i]
  OBVIOUS
<1>2. PICK f : Fold(base, s) = f[n] /\ \A m \in Nat : FoldsTo(base, s, f, m)
  BY FoldIs
<1>3. PICK g : Fold(base, t) = g[Len(t)] /\ \A m \in Nat : FoldsTo(base, t, g, m)
  BY FoldIs
<1> HIDE DEF n, t
<1>4. FoldsTo(base, t, g, n) /\ FoldsTo(base, s, f, n)
  BY <1>1, <1>2, <1>3
<1>5. g[n] = f[n]
  BY <1>1, <1>4, FoldsAgree
<1>6. g[n + 1] = Op(g[n], t[n + 1])
  BY <1>1, <1>3 DEF FoldsTo
<1> QED
  BY <1>1, <1>2, <1>3, <1>5, <1>6 DEF n, t
=============================================================================
