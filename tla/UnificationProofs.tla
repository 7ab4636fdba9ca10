------------------------- MODULE UnificationProofs -------------------------
(***************************************************************************)
(* First lemmas about the operators of TypeMeaning, each by induction over *)
(* terms: what free_variables, apply, instantiate and the meaning of a     *)
(* type do at every node, what replacing or renaming variables does to     *)
(* free variables, sorts and meanings, and the algebra of rows: fields of  *)
(* different labels commute, a field determines its type and its rest, and *)
(* rows that start with different labels have a tail in common.            *)
(*                                                                         *)
(* Then a run of unifications: it is sound, most general and acyclic, and  *)
(* rejects only what has no solution.  A substitution is what its bindings *)
(* come to, one after another (Composed): a valuation that respects them   *)
(* gives a type and the type after the substitution the same meaning, and  *)
(* every valuation of what they leave is one that respects them.           *)
(***************************************************************************)
EXTENDS Unification, TLAPS

USE DEF Var, EmptyRow, Con

(* The strata, one from the other.                                         *)
LEMMA LevelZero == Level(0).types = {} /\ Level(0).rows = {}
<1>1. [i \in 1 .. 0 |-> i] = <<>>
  OBVIOUS
<1>2. Levels!Fold([types |-> {}, rows |-> {}], <<>>) = [types |-> {}, rows |-> {}]
  BY Levels!FoldEmpty
<1> QED
  BY <1>1, <1>2 DEF Level

(* ... and each from the one below.                                        *)
LEMMA LevelNext ==
  ASSUME NEW n \in Nat
  PROVE  /\ Level(n + 1).types = TypesOver(Level(n).types, Level(n).rows)
         /\ Level(n + 1).rows = RowsOver(Level(n).types, Level(n).rows)
<1> DEFINE s == [i \in 1 .. n |-> i]
<1>1. s \in Seq(Nat) /\ n + 1 \in Nat
  OBVIOUS
<1>2. [i \in 1 .. (n + 1) |-> i] = Append(s, n + 1)
  OBVIOUS
<1> HIDE DEF s
<1>3. Levels!Fold([types |-> {}, rows |-> {}], Append(s, n + 1))
        = Deeper(Levels!Fold([types |-> {}, rows |-> {}], s), n + 1)
  BY <1>1, Levels!FoldAppend
<1>4. Level(n + 1) = Deeper(Level(n), n + 1)
  BY <1>2, <1>3 DEF Level, s
<1> QED
  BY <1>4 DEF Deeper

(* A pair is a sequence.                                                   *)
LEMMA PairIsSequence ==
  ASSUME NEW A, NEW B, NEW p \in A \X B
  PROVE  p \in Seq(A \cup B) /\ Len(p) = 2 /\ p[1] \in A /\ p[2] \in B
<1>1. PICK x \in A, y \in B : p = <<x, y>>
  OBVIOUS
<1>2. <<x, y>> \in Seq(A \cup B)
  OBVIOUS
<1> QED
  BY <1>1, <1>2

(* More types and rows make more terms.                                    *)
LEMMA OverMonotone ==
  ASSUME NEW A, NEW B, NEW C, NEW D, A \subseteq C, B \subseteq D
  PROVE  TypesOver(A, B) \subseteq TypesOver(C, D) /\ RowsOver(A, B) \subseteq RowsOver(C, D)
<1>1. Seq(A) \subseteq Seq(C)
  OBVIOUS
<1>2. RecordArgs(B) \subseteq RecordArgs(D)
  BY DEF RecordArgs
<1>3. A \X B \subseteq C \X D
  OBVIOUS
<1>4. [f : Constructors, l : Names, a : Seq(A)] \subseteq [f : Constructors, l : Names, a : Seq(C)]
  BY <1>1
<1>5. [f : {"Rec"}, l : {""}, a : RecordArgs(B)] \subseteq [f : {"Rec"}, l : {""}, a : RecordArgs(D)]
  BY <1>2
<1>6. [f : {"RowExt"}, l : Labels, a : A \X B] \subseteq [f : {"RowExt"}, l : Labels, a : C \X D]
  BY <1>3
<1> QED
  BY <1>4, <1>5, <1>6 DEF TypesOver, RowsOver

(* A stratum has what the ones below it have. *)
LEMMA LevelGrows ==
  ASSUME NEW n \in Nat
  PROVE  Level(n).types \subseteq Level(n + 1).types /\ Level(n).rows \subseteq Level(n + 1).rows
<1> DEFINE S == {m \in Nat : /\ Level(m).types \subseteq Level(m + 1).types
                             /\ Level(m).rows \subseteq Level(m + 1).rows}
<1>1. 0 \in S
  BY LevelZero
<1>2. ASSUME NEW m \in S
      PROVE  m + 1 \in S
  <2>1. m \in Nat /\ m + 1 \in Nat
    OBVIOUS
  <2>2. Level(m).types \subseteq Level(m + 1).types /\ Level(m).rows \subseteq Level(m + 1).rows
    OBVIOUS
  <2>3. /\ Level(m + 1).types = TypesOver(Level(m).types, Level(m).rows)
        /\ Level(m + 1).rows = RowsOver(Level(m).types, Level(m).rows)
        /\ Level((m + 1) + 1).types = TypesOver(Level(m + 1).types, Level(m + 1).rows)
        /\ Level((m + 1) + 1).rows = RowsOver(Level(m + 1).types, Level(m + 1).rows)
    BY <2>1, LevelNext
  <2>4. /\ Level(m + 1).types \subseteq Level((m + 1) + 1).types
        /\ Level(m + 1).rows \subseteq Level((m + 1) + 1).rows
    BY <2>2, <2>3, OverMonotone
  <2> QED
    BY <2>1, <2>4
<1>3. S \in SUBSET Nat
  OBVIOUS
<1>4. n \in S
  <2> HIDE DEF S
  <2> QED
    BY <1>1, <1>2, <1>3, Levels!NaturalNumbers
<1> QED
  BY <1>4

(* Everything of a smaller depth is a type or a row.                       *)
LEMMA LevelsBelow ==
  ASSUME NEW n \in Nat, n <= MaxDepth
  PROVE  Level(n).types \subseteq Types /\ Level(n).rows \subseteq Rows
<1> USE DepthAssumption
<1> DEFINE Below(m) == Level(m).types \subseteq Types /\ Level(m).rows \subseteq Rows
           S == {k \in Nat : k <= MaxDepth => Below(MaxDepth - k)}
<1>1. 0 \in S
  BY DEF Types, Rows
<1>2. ASSUME NEW k \in S
      PROVE  k + 1 \in S
  <2>1. SUFFICES ASSUME k + 1 <= MaxDepth
                 PROVE  Below(MaxDepth - (k + 1))
    OBVIOUS
  <2> DEFINE m == MaxDepth - (k + 1)
  <2>2. k \in Nat /\ m \in Nat /\ m + 1 = MaxDepth - k
    BY <2>1
  <2>3. Below(m + 1)
    <3> HIDE DEF Below
    <3> QED
      BY <2>1, <2>2
  <2>4. Level(m).types \subseteq Level(m + 1).types /\ Level(m).rows \subseteq Level(m + 1).rows
    BY <2>2, LevelGrows
  <2> HIDE DEF m
  <2>5. Below(m)
    BY <2>3, <2>4
  <2> QED
    BY <2>5 DEF m
<1>3. S \in SUBSET Nat
  OBVIOUS
<1>4. MaxDepth - n \in S
  <2>1. MaxDepth - n \in Nat
    OBVIOUS
  <2> HIDE DEF S
  <2> QED
    BY <1>1, <1>2, <1>3, <2>1, Levels!NaturalNumbers
<1>5. MaxDepth - (MaxDepth - n) = n /\ MaxDepth - n <= MaxDepth
  OBVIOUS
<1> HIDE DEF Below
<1>6. Below(n)
  BY <1>4, <1>5
<1> QED
  BY <1>6 DEF Below

(* Types are made of types and rows, and rows are. *)
LEMMA Shapes == Types \subseteq TypesOver(Types, Rows) /\ Rows \subseteq RowsOver(Types, Rows)
<1> USE DepthAssumption
<1>1. CASE MaxDepth = 0
  BY <1>1, LevelZero DEF Types, Rows
<1>2. CASE MaxDepth # 0
  <2> DEFINE m == MaxDepth - 1
  <2>1. m \in Nat /\ m + 1 = MaxDepth /\ m <= MaxDepth
    BY <1>2
  <2> HIDE DEF m
  <2>2. /\ Level(m + 1).types = TypesOver(Level(m).types, Level(m).rows)
        /\ Level(m + 1).rows = RowsOver(Level(m).types, Level(m).rows)
    BY <2>1, LevelNext
  <2>3. Level(m).types \subseteq Types /\ Level(m).rows \subseteq Rows
    BY <2>1, LevelsBelow
  <2>4. /\ TypesOver(Level(m).types, Level(m).rows) \subseteq TypesOver(Types, Rows)
        /\ RowsOver(Level(m).types, Level(m).rows) \subseteq RowsOver(Types, Rows)
    BY <2>3, OverMonotone
  <2> QED
    BY <2>1, <2>2, <2>4 DEF Types, Rows
<1> QED
  BY <1>1, <1>2

(* The arguments of a term that is made of terms of A and B are of A and B. *)
LEMMA ArgumentsOver ==
  ASSUME NEW A, NEW B, NEW t \in TypesOver(A, B) \cup RowsOver(A, B)
  PROVE  \A i \in DOMAIN t.a : t.a[i] \in A \cup B
<1>1. CASE t \in {Var(v) : v \in TypeVars} \/ t \in {Var(v) : v \in RowVars} \/ t = EmptyRow
  <2>1. t.a = <<>>
    <3>1. \A v : Var(v).a = <<>>
      OBVIOUS
    <3>2. EmptyRow.a = <<>>
      OBVIOUS
    <3> HIDE DEF Var, EmptyRow
    <3> QED
      BY <1>1, <3>1, <3>2
  <2>2. DOMAIN <<>> = {}
    OBVIOUS
  <2> QED
    BY <2>1, <2>2
<1>2. CASE t \in [f : Constructors, l : Names, a : Seq(A)]
  <2>1. t.a \in Seq(A)
    BY <1>2
  <2> QED
    BY <2>1
<1>3. CASE t \in [f : {"Rec"}, l : {""}, a : RecordArgs(B)]
  <2>1. t.a \in Seq(B)
    BY <1>3 DEF RecordArgs
  <2> QED
    BY <2>1
<1>4. CASE t \in [f : {"RowExt"}, l : Labels, a : A \X B]
  <2>1. t.a \in A \X B
    BY <1>4
  <2>2. t.a \in Seq(A \cup B)
    BY <2>1, PairIsSequence
  <2> QED
    BY <2>2
<1> QED
  <2> HIDE DEF Var, EmptyRow
  <2> QED
    BY <1>1, <1>2, <1>3, <1>4 DEF TypesOver, RowsOver

(* Induction over terms. *)
TermsAreInductive ==
  /\ \A t \in Terms : \A i \in DOMAIN t.a : t.a[i] \in Terms
  /\ \A S \in SUBSET Terms :
       (\A t \in Terms : (\A i \in DOMAIN t.a : t.a[i] \in S) => t \in S) => S = Terms

(* The terms have their arguments, and induction.                          *)
LEMMA TermInduction == TermsAreInductive
<1> USE DepthAssumption
<1>1. \A t \in Terms : \A i \in DOMAIN t.a : t.a[i] \in Terms
  BY Shapes, ArgumentsOver DEF Terms
<1>2. ASSUME NEW S \in SUBSET Terms,
             \A t \in Terms : (\A i \in DOMAIN t.a : t.a[i] \in S) => t \in S
      PROVE  S = Terms
  <2> DEFINE Has(n) == Level(n).types \cup Level(n).rows \subseteq S
             N == {n \in Nat : n <= MaxDepth => Has(n)}
  <2>1. 0 \in N
    BY LevelZero
  <2>2. ASSUME NEW n \in N
        PROVE  n + 1 \in N
    <3>1. SUFFICES ASSUME n + 1 <= MaxDepth
                   PROVE  Has(n + 1)
      OBVIOUS
    <3>2. n \in Nat /\ n + 1 \in Nat /\ Level(n).types \cup Level(n).rows \subseteq S
      BY <3>1
    <3>3. /\ Level(n + 1).types = TypesOver(Level(n).types, Level(n).rows)
          /\ Level(n + 1).rows = RowsOver(Level(n).types, Level(n).rows)
      BY <3>2, LevelNext
    <3>4. ASSUME NEW t \in Level(n + 1).types \cup Level(n + 1).rows
          PROVE  t \in S
      <4>1. \A i \in DOMAIN t.a : t.a[i] \in Level(n).types \cup Level(n).rows
        BY <3>3, ArgumentsOver
      <4>2. t \in Terms
        BY <3>1, <3>2, LevelsBelow DEF Terms
      <4> QED
        BY <1>2, <3>2, <4>1, <4>2
    <3> QED
      BY <3>4
  <2>3. N \in SUBSET Nat
    OBVIOUS
  <2>4. MaxDepth \in N
    <3> HIDE DEF N
    <3> QED
      BY <2>1, <2>2, <2>3, Levels!NaturalNumbers
  <2> QED
    BY <2>4 DEF Terms, Types, Rows
<1> QED
  BY <1>1, <1>2 DEF TermsAreInductive

(* Every fold over terms satisfies its equation. *)
LEMMA FreeEquation ==
  ASSUME NEW t \in Terms
  PROVE  FreeVariables(t) = FreeAlg({}, t, [i \in DOMAIN t.a |-> FreeVariables(t.a[i])])
<1>1. Free!Inductive
  BY TermInduction DEF TermsAreInductive, Free!Inductive
<1> QED
  BY <1>1, Free!FoldEquation DEF FreeVariables

(* The same of what apply does ...                                         *)
LEMMA ReplacingEquation ==
  ASSUME NEW b, NEW t \in Terms
  PROVE  Replacing!Fold(b, t)
           = ReplaceAlg(b, t, [i \in DOMAIN t.a |-> Replacing!Fold(b, t.a[i])])
<1>1. Replacing!Inductive
  BY TermInduction DEF TermsAreInductive, Replacing!Inductive
<1> QED
  BY <1>1, Replacing!FoldEquation

(* ... and of what a term means.                                           *)
LEMMA MeaningEquation ==
  ASSUME NEW g, NEW t \in Terms
  PROVE  Meaning(g, t) = MeaningAlg(g, t, [i \in DOMAIN t.a |-> Meaning(g, t.a[i])])
<1>1. Meanings!Inductive
  BY TermInduction DEF TermsAreInductive, Meanings!Inductive
<1> QED
  BY <1>1, Meanings!FoldEquation DEF Meaning

-----------------------------------------------------------------------------
(* The shapes of a term. *)
Constructed == [f : Constructors, l : Names, a : Seq(Types)]
Recorded == [f : {"Rec"}, l : {""}, a : RecordArgs(Rows)]
Fielded == [f : {"RowExt"}, l : Labels, a : Types \X Rows]

(* A type is a variable, a constructor with types, or a record.            *)
LEMMA TypeCases ==
  ASSUME NEW t \in Types
  PROVE  (\E v \in TypeVars : t = Var(v)) \/ t \in Constructed \/ t \in Recorded
BY Shapes DEF TypesOver, Constructed, Recorded

(* A row is a variable, empty, or a field and a row.                       *)
LEMMA RowCases ==
  ASSUME NEW t \in Rows
  PROVE  (\E v \in RowVars : t = Var(v)) \/ t = EmptyRow \/ t \in Fielded
BY Shapes DEF RowsOver, Fielded

(* What a variable looks like.                                             *)
LEMMA VarShape == \A v : Var(v).f = "Var" /\ Var(v).l = v /\ Var(v).a = <<>> /\ IsVar(Var(v))
BY DEF IsVar

(* What a constructor looks like ...                                       *)
LEMMA ConstructedShape ==
  ASSUME NEW t \in Constructed
  PROVE  /\ ~IsVar(t) /\ t.f \in Constructors /\ t.l \in Names /\ t.a \in Seq(Types)
         /\ t = [f |-> t.f, l |-> t.l, a |-> t.a]
BY SortsAssumption DEF Constructed, IsVar

(* ... a record ...                                                        *)
LEMMA RecordedShape ==
  ASSUME NEW t \in Recorded
  PROVE  /\ ~IsVar(t) /\ t.f = "Rec" /\ t.l = "" /\ t.a \in Seq(Rows) /\ DOMAIN t.a = {1}
         /\ t.a[1] \in Rows /\ ~IsVar(t.a[1])
         /\ t = [f |-> t.f, l |-> t.l, a |-> t.a]
<1>1. t.a \in Seq(Rows) /\ Len(t.a) = 1 /\ ~IsVar(t.a[1])
  BY DEF Recorded, RecordArgs
<1>2. DOMAIN t.a = {1} /\ t.a[1] \in Rows
  BY <1>1
<1>3. t.f = "Rec" /\ t.l = "" /\ t = [f |-> t.f, l |-> t.l, a |-> t.a]
  BY DEF Recorded
<1> QED
  BY <1>1, <1>2, <1>3 DEF IsVar

(* ... a row with a field ...                                              *)
LEMMA FieldedShape ==
  ASSUME NEW t \in Fielded
  PROVE  /\ ~IsVar(t) /\ t.f = "RowExt" /\ t.l \in Labels /\ DOMAIN t.a = {1, 2}
         /\ t.a \in Seq(Terms) /\ t.a[1] \in Types /\ t.a[2] \in Rows
         /\ t = [f |-> t.f, l |-> t.l, a |-> t.a]
<1>0. t.a \in Types \X Rows
  BY DEF Fielded
<1>1. t.a \in Seq(Terms) /\ Len(t.a) = 2 /\ t.a[1] \in Types /\ t.a[2] \in Rows
  BY <1>0, PairIsSequence DEF Terms
<1>2. DOMAIN t.a = {1, 2}
  BY <1>1
<1>3. t.f = "RowExt" /\ t.l \in Labels /\ t = [f |-> t.f, l |-> t.l, a |-> t.a]
  BY DEF Fielded
<1> QED
  BY <1>1, <1>2, <1>3 DEF IsVar

(* ... and the empty row.                                                  *)
LEMMA EmptyRowShape == ~IsVar(EmptyRow) /\ EmptyRow.f = "EmptyRow" /\ EmptyRow.a = <<>>
                       /\ EmptyRow = [f |-> EmptyRow.f, l |-> EmptyRow.l, a |-> EmptyRow.a]
BY DEF IsVar

(* What is a variable is one of the right sort, and no type is a row. *)
LEMMA Sorts ==
  /\ \A t \in Types : t.f \in {"Var", "Rec"} \cup Constructors
  /\ \A t \in Rows : t.f \in {"Var", "EmptyRow", "RowExt"}
  /\ \A t \in Types : IsVar(t) => t.l \in TypeVars /\ t = Var(t.l)
  /\ \A t \in Rows : IsVar(t) => t.l \in RowVars /\ t = Var(t.l)
<1>1. ASSUME NEW t \in Types
      PROVE  /\ t.f \in {"Var", "Rec"} \cup Constructors
             /\ IsVar(t) => t.l \in TypeVars /\ t = Var(t.l)
  <2> HIDE DEF Var
  <2> QED
    BY TypeCases, VarShape, ConstructedShape, RecordedShape
<1>2. ASSUME NEW t \in Rows
      PROVE  /\ t.f \in {"Var", "EmptyRow", "RowExt"}
             /\ IsVar(t) => t.l \in RowVars /\ t = Var(t.l)
  <2> HIDE DEF Var, EmptyRow
  <2> QED
    BY RowCases, VarShape, EmptyRowShape, FieldedShape
<1> QED
  BY <1>1, <1>2

(* A term is a variable, or a node with a constructor and arguments.       *)
LEMMA TermCases ==
  ASSUME NEW t \in Terms
  PROVE  \/ IsVar(t) /\ t = Var(t.l) /\ t.l \in TypeVars \cup RowVars
         \/ /\ ~IsVar(t) /\ t.a \in Seq(Terms)
            /\ t = [f |-> t.f, l |-> t.l, a |-> t.a]
<1> HIDE DEF Var, EmptyRow
<1>1. CASE IsVar(t)
  BY <1>1, Sorts DEF Terms
<1>2. CASE ~IsVar(t) /\ t \in Types
  <2>1. t \in Constructed \/ t \in Recorded
    BY <1>2, TypeCases, VarShape
  <2>2. Seq(Types) \subseteq Seq(Terms) /\ Seq(Rows) \subseteq Seq(Terms)
    BY DEF Terms
  <2> QED
    BY <1>2, <2>1, <2>2, ConstructedShape, RecordedShape
<1>3. CASE ~IsVar(t) /\ t \in Rows
  <2>1. t = EmptyRow \/ t \in Fielded
    BY <1>3, RowCases, VarShape
  <2>2. <<>> \in Seq(Terms)
    OBVIOUS
  <2> QED
    BY <1>3, <2>1, <2>2, FieldedShape, EmptyRowShape
<1> QED
  BY <1>1, <1>2, <1>3 DEF Terms

-----------------------------------------------------------------------------
(* The free variables of a variable, and of a node. *)
LEMMA FreeOfVariable ==
  ASSUME NEW t \in Terms, IsVar(t)
  PROVE  FreeVariables(t) = {t.l}
BY FreeEquation DEF FreeAlg

(* ... those of its arguments.                                             *)
LEMMA FreeOfNode ==
  ASSUME NEW t \in Terms, ~IsVar(t)
  PROVE  \A v : v \in FreeVariables(t) <=> \E i \in DOMAIN t.a : v \in FreeVariables(t.a[i])
<1>1. FreeVariables(t) = UNION {[k \in DOMAIN t.a |-> FreeVariables(t.a[k])][i] : i \in DOMAIN t.a}
  BY FreeEquation DEF FreeAlg
<1> QED
  BY <1>1

(* The arguments of a term are terms. *)
LEMMA Subterms ==
  ASSUME NEW t \in Terms, NEW i \in DOMAIN t.a
  PROVE  t.a[i] \in Terms
BY TermInduction DEF TermsAreInductive

(* Induction, for the terms that have a property. *)
LEMMA Induction ==
  ASSUME NEW S \in SUBSET Terms,
         \A t \in Terms : (\A i \in DOMAIN t.a : t.a[i] \in S) => t \in S
  PROVE  \A t \in Terms : t \in S
<1>1. S = Terms
  BY TermInduction DEF TermsAreInductive
<1> QED
  BY <1>1

(* The free variables of a term are variables.                             *)
LEMMA FreeAreVariables == \A t \in Terms : FreeVariables(t) \subseteq TypeVars \cup RowVars
<1> DEFINE S == {t \in Terms : FreeVariables(t) \subseteq TypeVars \cup RowVars}
<1>1. ASSUME NEW t \in Terms, \A i \in DOMAIN t.a : t.a[i] \in S
      PROVE  FreeVariables(t) \subseteq TypeVars \cup RowVars
  <2>1. CASE IsVar(t)
    BY <2>1, FreeOfVariable, TermCases
  <2>2. CASE ~IsVar(t)
    BY <1>1, <2>2, FreeOfNode
  <2> QED
    BY <2>1, <2>2
<1>2. \A t \in Terms : t \in S
  <2>1. \A t \in Terms : (\A i \in DOMAIN t.a : t.a[i] \in S) => t \in S
    BY <1>1
  <2>2. S \in SUBSET Terms
    OBVIOUS
  <2> HIDE DEF S
  <2> QED
    BY <2>1, <2>2, Induction
<1> QED
  BY <1>2

-----------------------------------------------------------------------------
(* Replacing a variable: in a variable, and in a node. *)
R(b, t) == Replacing!Fold(b, t)

(* Replacing in a variable, ...                                            *)
LEMMA ReplaceInVariable ==
  ASSUME NEW b, NEW t \in Terms, IsVar(t)
  PROVE  R(b, t) = IF t.l = b.v THEN b.t ELSE t
BY ReplacingEquation DEF ReplaceAlg, R

(* ... and in a node: in its arguments.                                    *)
LEMMA ReplaceInNode ==
  ASSUME NEW b, NEW t \in Terms, ~IsVar(t)
  PROVE  /\ R(b, t) = [f |-> t.f, l |-> t.l, a |-> [i \in DOMAIN t.a |-> R(b, t.a[i])]]
         /\ ~IsVar(R(b, t))
<1> DEFINE r == [i \in DOMAIN t.a |-> R(b, t.a[i])]
<1>1. R(b, t) = [t EXCEPT !.a = r]
  BY ReplacingEquation DEF ReplaceAlg, R
<1>2. t = [f |-> t.f, l |-> t.l, a |-> t.a]
  BY TermCases
<1> HIDE DEF r
<1>3. R(b, t) = [f |-> t.f, l |-> t.l, a |-> r]
  BY <1>1, <1>2
<1> QED
  BY <1>3 DEF r, IsVar

(* What is replaced is gone, and nothing else comes in but what replaces it. *)
LEMMA FreeOfReplaced ==
  ASSUME NEW b, b.t \in Terms
  PROVE  \A t \in Terms : R(b, t) \in Terms =>
           FreeVariables(R(b, t)) \subseteq (FreeVariables(t) \ {b.v}) \cup FreeVariables(b.t)
<1> DEFINE P(t) == R(b, t) \in Terms =>
                     \A v \in FreeVariables(R(b, t)) :
                        v \in FreeVariables(b.t) \/ (v \in FreeVariables(t) /\ v # b.v)
           S == {t \in Terms : P(t)}
<1>1. ASSUME NEW t \in Terms, \A i \in DOMAIN t.a : t.a[i] \in S
      PROVE  P(t)
  <2>1. CASE IsVar(t)
    BY <2>1, ReplaceInVariable, FreeOfVariable
  <2>2. CASE ~IsVar(t)
    <3>1. SUFFICES ASSUME R(b, t) \in Terms, NEW v \in FreeVariables(R(b, t))
                   PROVE  v \in FreeVariables(b.t) \/ (v \in FreeVariables(t) /\ v # b.v)
      OBVIOUS
    <3>2. /\ ~IsVar(R(b, t)) /\ DOMAIN R(b, t).a = DOMAIN t.a
          /\ \A i \in DOMAIN t.a : R(b, t).a[i] = R(b, t.a[i])
      BY <2>2, ReplaceInNode
    <3>3. PICK i \in DOMAIN t.a : v \in FreeVariables(R(b, t.a[i]))
      BY <3>1, <3>2, FreeOfNode
    <3>4. R(b, t.a[i]) \in Terms
      BY <3>1, <3>2, Subterms
    <3>5. P(t.a[i])
      BY <1>1
    <3> QED
      BY <2>2, <3>3, <3>4, <3>5, FreeOfNode
  <2> QED
    BY <2>1, <2>2
<1>2. \A t \in Terms : t \in S
  <2>1. \A t \in Terms : (\A i \in DOMAIN t.a : t.a[i] \in S) => t \in S
    BY <1>1
  <2>2. S \in SUBSET Terms
    OBVIOUS
  <2> HIDE DEF S
  <2> QED
    BY <2>1, <2>2, Induction
<1> QED
  BY <1>2

(* A variable that is not there cannot be replaced. *)
LEMMA NothingToReplace ==
  ASSUME NEW b
  PROVE  \A t \in Terms : b.v \notin FreeVariables(t) => R(b, t) = t
<1> DEFINE S == {t \in Terms : b.v \notin FreeVariables(t) => R(b, t) = t}
<1>1. ASSUME NEW t \in Terms, \A i \in DOMAIN t.a : t.a[i] \in S,
             b.v \notin FreeVariables(t)
      PROVE  R(b, t) = t
  <2>1. CASE IsVar(t)
    BY <1>1, <2>1, ReplaceInVariable, FreeOfVariable
  <2>2. CASE ~IsVar(t)
    <3>1. \A i \in DOMAIN t.a : R(b, t.a[i]) = t.a[i]
      BY <1>1, <2>2, FreeOfNode
    <3>2. t.a \in Seq(Terms) /\ t = [f |-> t.f, l |-> t.l, a |-> t.a]
      BY <2>2, TermCases
    <3>3. t.a = [i \in DOMAIN t.a |-> R(b, t.a[i])]
      BY <3>1, <3>2
    <3> QED
      BY <2>2, <3>2, <3>3, ReplaceInNode
  <2> QED
    BY <2>1, <2>2
<1>2. \A t \in Terms : t \in S
  <2>1. \A t \in Terms : (\A i \in DOMAIN t.a : t.a[i] \in S) => t \in S
    BY <1>1
  <2>2. S \in SUBSET Terms
    OBVIOUS
  <2> HIDE DEF S
  <2> QED
    BY <2>1, <2>2, Induction
<1> QED
  BY <1>2

(* A type stays a type and a row a row. *)
LEMMA ReplaceKeepsSort ==
  ASSUME NEW b, (b.v \in TypeVars /\ b.t \in Types) \/ (b.v \in RowVars /\ b.t \in Rows),
         NEW t \in Terms, R(b, t) \in Terms
  PROVE  (t \in Types => R(b, t) \in Types) /\ (t \in Rows => R(b, t) \in Rows)
<1>1. CASE IsVar(t)
  BY <1>1, ReplaceInVariable, Sorts, SortsAssumption
<1>2. CASE ~IsVar(t)
  <2>1. R(b, t).f = t.f
    BY <1>2, ReplaceInNode
  <2>2. t.f # "Var"
    BY <1>2 DEF IsVar
  <2>3. /\ t \in Types => t.f \in {"Rec"} \cup Constructors
        /\ t \in Rows => t.f \in {"EmptyRow", "RowExt"}
    BY <2>2, Sorts
  <2> QED
    BY <2>1, <2>3, Sorts, SortsAssumption DEF Terms
<1> QED
  BY <1>1, <1>2

-----------------------------------------------------------------------------
(* The meaning of a variable, and of a node. *)
LEMMA MeaningOfVariable ==
  ASSUME NEW g, NEW t \in Terms, IsVar(t)
  PROVE  Meaning(g, t) = g[t.l]
BY MeaningEquation DEF MeaningAlg

(* The meaning of a node depends on nothing but the meanings of its        *)
(* arguments.                                                              *)
LEMMA NodesAgree ==
  ASSUME NEW g, NEW h, NEW t \in Terms, NEW u \in Terms,
         ~IsVar(t), ~IsVar(u), t.f = u.f, t.l = u.l, DOMAIN t.a = DOMAIN u.a,
         \A i \in DOMAIN t.a : Meaning(g, t.a[i]) = Meaning(h, u.a[i])
  PROVE  Meaning(g, t) = Meaning(h, u)
<1>1. [i \in DOMAIN t.a |-> Meaning(g, t.a[i])] = [i \in DOMAIN u.a |-> Meaning(h, u.a[i])]
  OBVIOUS
<1> DEFINE r == [i \in DOMAIN t.a |-> Meaning(g, t.a[i])]
<1>2. Meaning(g, t) = MeaningAlg(g, t, r)
  BY MeaningEquation
<1>3. Meaning(h, u) = MeaningAlg(h, u, r)
  BY <1>1, MeaningEquation
<1> HIDE DEF r
<1>4. MeaningAlg(g, t, r) = MeaningAlg(h, u, r)
  BY DEF MeaningAlg
<1> QED
  BY <1>2, <1>3, <1>4

(* ... and the meaning of a term on nothing but those of its variables. *)
LEMMA MeaningsAgree ==
  ASSUME NEW g, NEW h
  PROVE  \A t \in Terms : (\A v \in FreeVariables(t) : g[v] = h[v]) => Meaning(g, t) = Meaning(h, t)
<1> DEFINE P(t) == (\A v \in FreeVariables(t) : g[v] = h[v]) => Meaning(g, t) = Meaning(h, t)
           S == {t \in Terms : P(t)}
<1>1. ASSUME NEW t \in Terms, \A i \in DOMAIN t.a : t.a[i] \in S,
             \A v \in FreeVariables(t) : g[v] = h[v]
      PROVE  Meaning(g, t) = Meaning(h, t)
  <2>1. CASE IsVar(t)
    BY <1>1, <2>1, FreeOfVariable, MeaningOfVariable
  <2>2. CASE ~IsVar(t)
    <3>1. \A i \in DOMAIN t.a : Meaning(g, t.a[i]) = Meaning(h, t.a[i])
      BY <1>1, <2>2, FreeOfNode
    <3> QED
      BY <2>2, <3>1, NodesAgree
  <2> QED
    BY <2>1, <2>2
<1>2. \A t \in Terms : t \in S
  <2>1. \A t \in Terms : (\A i \in DOMAIN t.a : t.a[i] \in S) => t \in S
    BY <1>1
  <2>2. S \in SUBSET Terms
    OBVIOUS
  <2> HIDE DEF S
  <2> QED
    BY <2>1, <2>2, Induction
<1> QED
  BY <1>2

(* To replace a variable by a term is to give it the meaning of the term. *)
LEMMA MeaningOfReplaced ==
  ASSUME NEW b, NEW g, NEW h
  PROVE  \A t \in Terms :
           /\ R(b, t) \in Terms
           /\ \A v \in FreeVariables(t) : h[v] = IF v = b.v THEN Meaning(g, b.t) ELSE g[v]
           => Meaning(g, R(b, t)) = Meaning(h, t)
<1> DEFINE Fit(t) == \A v \in FreeVariables(t) : h[v] = IF v = b.v THEN Meaning(g, b.t) ELSE g[v]
           S == {t \in Terms : R(b, t) \in Terms /\ Fit(t) => Meaning(g, R(b, t)) = Meaning(h, t)}
<1>1. ASSUME NEW t \in Terms, \A i \in DOMAIN t.a : t.a[i] \in S, R(b, t) \in Terms, Fit(t)
      PROVE  Meaning(g, R(b, t)) = Meaning(h, t)
  <2>1. CASE IsVar(t)
    <3>1. h[t.l] = IF t.l = b.v THEN Meaning(g, b.t) ELSE g[t.l]
      BY <1>1, <2>1, FreeOfVariable
    <3>2. Meaning(h, t) = h[t.l] /\ Meaning(g, t) = g[t.l]
      BY <2>1, MeaningOfVariable
    <3> QED
      BY <2>1, <3>1, <3>2, ReplaceInVariable
  <2>2. CASE ~IsVar(t)
    <3>1. /\ ~IsVar(R(b, t)) /\ R(b, t).f = t.f /\ R(b, t).l = t.l
          /\ DOMAIN R(b, t).a = DOMAIN t.a
          /\ \A i \in DOMAIN t.a : R(b, t).a[i] = R(b, t.a[i])
      BY <2>2, ReplaceInNode
    <3>2. ASSUME NEW i \in DOMAIN t.a
          PROVE  Meaning(g, R(b, t).a[i]) = Meaning(h, t.a[i])
      <4>1. R(b, t.a[i]) \in Terms
        BY <1>1, <3>1, Subterms
      <4>2. Fit(t.a[i])
        BY <1>1, <2>2, FreeOfNode
      <4> HIDE DEF Fit
      <4> QED
        BY <1>1, <3>1, <4>1, <4>2
    <3> QED
      BY <1>1, <2>2, <3>1, <3>2, NodesAgree
  <2> QED
    BY <2>1, <2>2
<1>2. \A t \in Terms : t \in S
  <2>1. \A t \in Terms : (\A i \in DOMAIN t.a : t.a[i] \in S) => t \in S
    BY <1>1
  <2>2. S \in SUBSET Terms
    OBVIOUS
  <2> HIDE DEF S
  <2> QED
    BY <2>1, <2>2, Induction
<1> QED
  BY <1>2

(* What the nodes mean. *)
LEMMA MeaningOfConstructor ==
  ASSUME NEW g, NEW t \in Types, ~IsVar(t)
  PROVE  Meaning(g, t) = [f |-> t.f, l |-> t.l, a |-> [i \in DOMAIN t.a |-> Meaning(g, t.a[i])],
                          size |-> Largest({Meaning(g, t.a[i]).size : i \in DOMAIN t.a}) + 1]
<1> DEFINE r == [i \in DOMAIN t.a |-> Meaning(g, t.a[i])]
<1>1. t \in Terms /\ t.f # "EmptyRow" /\ t.f # "RowExt"
  <2>1. t.f # "Var"
    BY DEF IsVar
  <2> QED
    BY <2>1, Sorts, SortsAssumption DEF Terms
<1>2. Meaning(g, t) = MeaningAlg(g, t, r)
  BY <1>1, MeaningEquation
<1>3. {r[i].size : i \in DOMAIN r} = {Meaning(g, t.a[i]).size : i \in DOMAIN t.a}
  OBVIOUS
<1> HIDE DEF r
<1>4. Meaning(g, t) = [f |-> t.f, l |-> t.l, a |-> r,
                       size |-> Largest({r[i].size : i \in DOMAIN r}) + 1]
  BY <1>1, <1>2 DEF MeaningAlg
<1> QED
  BY <1>3, <1>4 DEF r

(* Types that mean the same agree in all but their variables. *)
LEMMA SameConstructor ==
  ASSUME NEW g, NEW t \in Types, ~IsVar(t), NEW u \in Types, ~IsVar(u),
         Meaning(g, t) = Meaning(g, u)
  PROVE  /\ t.f = u.f /\ t.l = u.l /\ DOMAIN t.a = DOMAIN u.a
         /\ \A i \in DOMAIN t.a : Meaning(g, t.a[i]) = Meaning(g, u.a[i])
<1> DEFINE ta == [i \in DOMAIN t.a |-> Meaning(g, t.a[i])]
           ua == [i \in DOMAIN u.a |-> Meaning(g, u.a[i])]
           tn == Largest({Meaning(g, t.a[i]).size : i \in DOMAIN t.a}) + 1
           un == Largest({Meaning(g, u.a[i]).size : i \in DOMAIN u.a}) + 1
<1>1. /\ Meaning(g, t) = [f |-> t.f, l |-> t.l, a |-> ta, size |-> tn]
      /\ Meaning(g, u) = [f |-> u.f, l |-> u.l, a |-> ua, size |-> un]
  BY MeaningOfConstructor
<1>2. DOMAIN ta = DOMAIN t.a /\ DOMAIN ua = DOMAIN u.a
      /\ (\A i \in DOMAIN t.a : ta[i] = Meaning(g, t.a[i]))
      /\ (\A i \in DOMAIN u.a : ua[i] = Meaning(g, u.a[i]))
  OBVIOUS
<1> HIDE DEF ta, ua, tn, un
<1>3. /\ Meaning(g, t).f = t.f /\ Meaning(g, t).l = t.l /\ Meaning(g, t).a = ta
      /\ Meaning(g, u).f = u.f /\ Meaning(g, u).l = u.l /\ Meaning(g, u).a = ua
  BY ONLY <1>1
<1>4. t.f = u.f /\ t.l = u.l /\ ta = ua
  BY <1>3
<1> QED
  BY <1>2, <1>4

(* An empty row has no fields ...                                          *)
LEMMA MeaningOfEmptyRow ==
  ASSUME NEW g, EmptyRow \in Terms
  PROVE  Meaning(g, EmptyRow) = NoFields
<1> DEFINE r == [i \in DOMAIN EmptyRow.a |-> Meaning(g, EmptyRow.a[i])]
<1>1. Meaning(g, EmptyRow) = MeaningAlg(g, EmptyRow, r)
  BY MeaningEquation
<1> HIDE DEF r
<1> QED
  BY <1>1, EmptyRowShape DEF MeaningAlg

(* ... and a row with a field has it in front of the rest.                 *)
LEMMA MeaningOfField ==
  ASSUME NEW g, NEW t \in Terms, t.f = "RowExt", DOMAIN t.a = {1, 2}
  PROVE  Meaning(g, t) = WithField(t.l, Meaning(g, t.a[1]), Meaning(g, t.a[2]))
<1> DEFINE r == [i \in DOMAIN t.a |-> Meaning(g, t.a[i])]
<1>1. Meaning(g, t) = MeaningAlg(g, t, r)
  BY MeaningEquation
<1>2. r[1] = Meaning(g, t.a[1]) /\ r[2] = Meaning(g, t.a[2])
  OBVIOUS
<1> HIDE DEF r
<1> QED
  BY <1>1, <1>2 DEF MeaningAlg, IsVar

-----------------------------------------------------------------------------
(* The largest of finitely many numbers. *)
LEMMA LargestExists ==
  ASSUME NEW f, NEW n \in Nat, \A i \in 1 .. n : f[i] \in Nat
  PROVE  \E m \in {f[i] : i \in 1 .. n} \cup {0} : \A i \in 1 .. n : f[i] <= m
<1> DEFINE Bounded(k) == \E m \in {f[i] : i \in 1 .. k} \cup {0} : \A i \in 1 .. k : f[i] <= m
           S == {k \in Nat : k <= n => Bounded(k)}
<1>1. 0 \in S
  OBVIOUS
<1>2. ASSUME NEW k \in S
      PROVE  k + 1 \in S
  <2>1. SUFFICES ASSUME k + 1 <= n
                 PROVE  Bounded(k + 1)
    OBVIOUS
  <2>2. k \in Nat /\ f[k + 1] \in Nat /\ 1 .. (k + 1) = (1 .. k) \cup {k + 1}
        /\ 1 .. k \subseteq 1 .. n
    BY <2>1
  <2>3. PICK m \in {f[i] : i \in 1 .. k} \cup {0} : \A i \in 1 .. k : f[i] <= m
    BY <2>1, <2>2
  <2>4. m \in Nat
    BY <2>2
  <2>5. CASE f[k + 1] <= m
    BY <2>2, <2>3, <2>5
  <2>6. CASE m < f[k + 1]
    <3>1. \A i \in 1 .. (k + 1) : f[i] <= f[k + 1]
      BY <2>2, <2>3, <2>4, <2>6
    <3> QED
      BY <2>2, <3>1
  <2> QED
    BY <2>2, <2>4, <2>5, <2>6
<1>3. S \in SUBSET Nat
  OBVIOUS
<1>4. n \in S
  <2> HIDE DEF S
  <2> QED
    BY <1>1, <1>2, <1>3, Levels!NaturalNumbers
<1> QED
  BY <1>4

(* The largest of the sizes of the arguments of a term.                    *)
LEMMA LargestIs ==
  ASSUME NEW g, NEW t \in Terms, ~IsVar(t), \A i \in DOMAIN t.a : Meaning(g, t.a[i]).size \in Nat
  PROVE  LET n == Largest({Meaning(g, t.a[i]).size : i \in DOMAIN t.a})
         IN  n \in Nat /\ \A i \in DOMAIN t.a : Meaning(g, t.a[i]).size <= n
<1> DEFINE f == [i \in DOMAIN t.a |-> Meaning(g, t.a[i]).size]
           S == {Meaning(g, t.a[i]).size : i \in DOMAIN t.a}
<1>1. PICK k \in Nat : DOMAIN t.a = 1 .. k
  BY TermCases
<1>2. \A i \in 1 .. k : f[i] \in Nat
  BY <1>1
<1>3. S = {f[i] : i \in 1 .. k}
  BY <1>1
<1>4. PICK m \in {f[i] : i \in 1 .. k} \cup {0} : \A i \in 1 .. k : f[i] <= m
  <2> HIDE DEF f
  <2> QED
    BY <1>2, LargestExists
<1>5. \E m1 \in S \cup {0} : \A x \in S : x <= m1
  <2> HIDE DEF f, S
  <2> QED
    BY <1>3, <1>4
<1>6. Largest(S) \in S \cup {0} /\ \A x \in S : x <= Largest(S)
  <2> HIDE DEF S
  <2> QED
    BY <1>5 DEF Largest
<1> QED
  BY <1>6

-----------------------------------------------------------------------------
(* What a row is with one field more, and with one field less. *)
HasField(w, l, x, row) ==
  /\ RowOf(w)
  /\ w.size = row.size + x.size + 1
  /\ w.fields[l] = <<x, row.fields[l]>>
  /\ \A m \in Labels \ {l} : w.fields[m] = row.fields[m]
LacksField(w, l, row) ==
  /\ RowOf(w)
  /\ w.size = row.size - row.fields[l][1].size - 1
  /\ w.fields[l] = row.fields[l][2]
  /\ \A m \in Labels \ {l} : w.fields[m] = row.fields[m]

(* What a row is with a field more ...                                     *)
LEMMA WithFieldIs ==
  ASSUME NEW row, RowOf(row), NEW l \in Labels, NEW x
  PROVE  HasField(WithField(l, x, row), l, x, row)
BY DEF WithField, HasField, RowOf

(* ... and with a field less.                                              *)
LEMMA WithoutIs ==
  ASSUME NEW row, RowOf(row), NEW l \in Labels, row.fields[l] # <<>>
  PROVE  LacksField(Without(l, row), l, row)
BY DEF Without, LacksField, RowOf

(* Rows are equal if they have the same fields and size.                   *)
LEMMA SameRows ==
  ASSUME NEW r, NEW s, RowOf(r), RowOf(s),
         \A m \in Labels : r.fields[m] = s.fields[m], r.size = s.size
  PROVE  r = s
<1>1. r.fields = s.fields
  BY DEF RowOf
<1> QED
  BY <1>1 DEF RowOf

(* What has one field more is the row with this field.                     *)
LEMMA FieldIs ==
  ASSUME NEW row, RowOf(row), NEW l \in Labels, NEW x, NEW w, HasField(w, l, x, row)
  PROVE  w = WithField(l, x, row)
<1> DEFINE v == WithField(l, x, row)
<1>1. HasField(v, l, x, row)
  BY WithFieldIs
<1> HIDE DEF v
<1>2. \A m \in Labels : w.fields[m] = v.fields[m]
  BY <1>1 DEF HasField
<1>3. w = v
  BY <1>1, <1>2, SameRows DEF HasField
<1> QED
  BY <1>3 DEF v

(* With a field more a row is still one.                                   *)
LEMMA FieldOfRow ==
  ASSUME NEW row, IsRow(row), NEW l \in Labels, NEW x, x.size \in Nat
  PROVE  IsRow(WithField(l, x, row))
<1> DEFINE w == WithField(l, x, row)
<1>1. HasField(w, l, x, row)
  BY WithFieldIs DEF IsRow
<1> HIDE DEF w
<1>2. RowOf(w) /\ w.size \in Nat
  BY <1>1 DEF HasField, IsRow
<1>3. ASSUME NEW m \in Labels, w.fields[m] # <<>>
      PROVE  w.fields[m] = <<w.fields[m][1], w.fields[m][2]>> /\ w.fields[m][1].size \in Nat
  <2>1. CASE m = l
    BY <1>1, <2>1 DEF HasField
  <2>2. CASE m # l
    BY <1>1, <1>3, <2>2 DEF HasField, IsRow
  <2> QED
    BY <2>1, <2>2
<1>4. IsRow(w)
  BY <1>2, <1>3 DEF IsRow
<1> QED
  BY <1>4 DEF w

(* To take off the field that was put on gives the row back ... *)
LEMMA WithoutField ==
  ASSUME NEW row, IsRow(row), NEW l \in Labels, NEW x, x.size \in Nat
  PROVE  Without(l, WithField(l, x, row)) = row
<1> DEFINE w == WithField(l, x, row)
           u == Without(l, w)
<1>1. HasField(w, l, x, row)
  BY WithFieldIs DEF IsRow
<1> HIDE DEF w
<1>2. w.fields[l] # <<>> /\ w.fields[l][1] = x /\ w.fields[l][2] = row.fields[l]
  BY <1>1 DEF HasField
<1>3. LacksField(u, l, w)
  BY <1>1, <1>2, WithoutIs DEF HasField
<1> HIDE DEF u
<1>4. u.size = row.size
  BY <1>1, <1>2, <1>3 DEF HasField, LacksField, IsRow
<1>5. \A m \in Labels : u.fields[m] = row.fields[m]
  BY <1>1, <1>2, <1>3 DEF HasField, LacksField
<1>6. u = row
  BY <1>3, <1>4, <1>5, SameRows DEF LacksField, IsRow
<1> QED
  BY <1>6 DEF u, w

(* ... and a field that lies below it can be taken off before it is put on. *)
LEMMA WithoutOther ==
  ASSUME NEW row, IsRow(row), NEW l \in Labels, NEW m \in Labels, l # m,
         NEW x, x.size \in Nat
  PROVE  Without(m, WithField(l, x, row)) = WithField(l, x, Without(m, row))
<1> DEFINE w == WithField(l, x, row)
           v == Without(m, row)
           u == Without(m, w)
<1>1. HasField(w, l, x, row)
  BY WithFieldIs DEF IsRow
<1>2. CASE row.fields[m] = <<>>
  <2>1. v = row
    BY <1>2 DEF Without
  <2> HIDE DEF w, v
  <2>2. w.fields[m] = <<>>
    BY <1>1, <1>2 DEF HasField
  <2>3. u = w
    BY <2>2 DEF Without
  <2> QED
    BY <2>1, <2>3 DEF w, v
<1>3. CASE row.fields[m] # <<>>
  <2>1. LacksField(v, m, row)
    BY <1>3, WithoutIs DEF IsRow
  <2> HIDE DEF w, v
  <2>2. w.fields[m] = row.fields[m] /\ w.fields[m] # <<>> /\ row.fields[m][1].size \in Nat
    BY <1>1, <1>3 DEF HasField, IsRow
  <2>3. LacksField(u, m, w)
    BY <1>1, <2>2, WithoutIs DEF HasField
  <2> HIDE DEF u
  <2>4. u.size = v.size + x.size + 1
    BY <1>1, <2>1, <2>2, <2>3 DEF HasField, LacksField, IsRow
  <2>5. u.fields[l] = <<x, v.fields[l]>>
    BY <1>1, <2>1, <2>3 DEF HasField, LacksField
  <2>6. ASSUME NEW n \in Labels \ {l}
        PROVE  u.fields[n] = v.fields[n]
    <3>1. CASE n = m
      BY <1>1, <2>1, <2>2, <2>3, <3>1 DEF HasField, LacksField
    <3>2. CASE n # m
      BY <1>1, <2>1, <2>3, <3>2 DEF HasField, LacksField
    <3> QED
      BY <3>1, <3>2
  <2>7. HasField(u, l, x, v)
    BY <2>3, <2>4, <2>5, <2>6 DEF HasField, LacksField
  <2>8. u = WithField(l, x, v)
    BY <2>1, <2>7, FieldIs DEF LacksField
  <2> QED
    BY <2>8 DEF u, v, w
<1> QED
  BY <1>2, <1>3

(* Finite rows: what they are, and what they are closed under. *)
Finite(row) == \E W : FiniteRows(W) /\ row \in W

(* What is left of a finite row is finite.                                 *)
LEMMA FiniteIs ==
  ASSUME NEW row, Finite(row)
  PROVE  /\ IsRow(row) /\ RowOf(row) /\ row.size \in Nat
         /\ \A l \in Labels : Finite(Without(l, row))
BY DEF Finite, FiniteRows, IsRow

(* A row without fields is finite ...                                      *)
LEMMA NoFieldsFinite == Finite(NoFields)
<1>1. FiniteRows({NoFields})
  BY DEF FiniteRows, NoFields, IsRow, RowOf, Without
<1> QED
  BY <1>1 DEF Finite

(* ... and one field more does not change that.                            *)
LEMMA WithFieldFinite ==
  ASSUME NEW row, Finite(row), NEW l \in Labels, NEW x, x.size \in Nat
  PROVE  Finite(WithField(l, x, row))
<1>1. PICK W : FiniteRows(W) /\ row \in W
  BY DEF Finite
<1> DEFINE V == W \cup {WithField(l, x, w) : w \in W}
<1>2. ASSUME NEW w \in W
      PROVE  IsRow(w) /\ \A m \in Labels : Without(m, w) \in V
  BY <1>1 DEF FiniteRows
<1>3. ASSUME NEW w \in W
      PROVE  LET y == WithField(l, x, w) IN IsRow(y) /\ \A m \in Labels : Without(m, y) \in V
  <2>1. IsRow(WithField(l, x, w))
    BY <1>2, FieldOfRow
  <2>2. ASSUME NEW m \in Labels
        PROVE  Without(m, WithField(l, x, w)) \in V
    <3>1. CASE m = l
      BY <1>2, <3>1, WithoutField
    <3>2. CASE m # l
      <4>1. Without(m, w) \in W
        BY <1>1 DEF FiniteRows
      <4>2. Without(m, WithField(l, x, w)) = WithField(l, x, Without(m, w))
        BY <1>2, <3>2, WithoutOther
      <4> QED
        BY <4>1, <4>2
    <3> QED
      BY <3>1, <3>2
  <2> QED
    BY <2>1, <2>2
<1>4. \A y \in V : y \in W \/ \E w \in W : y = WithField(l, x, w)
  OBVIOUS
<1>5. WithField(l, x, row) \in V
  BY <1>1
<1> HIDE DEF V
<1>6. FiniteRows(V)
  BY <1>2, <1>3, <1>4 DEF FiniteRows
<1> QED
  BY <1>5, <1>6 DEF Finite

(* Fields of different labels commute. *)
LEMMA FieldsCommute ==
  ASSUME NEW row, IsRow(row), NEW l \in Labels, NEW m \in Labels, l # m,
         NEW x, x.size \in Nat, NEW y, y.size \in Nat
  PROVE  WithField(l, x, WithField(m, y, row)) = WithField(m, y, WithField(l, x, row))
<1> DEFINE p == WithField(m, y, row)
           q == WithField(l, x, row)
           r == WithField(l, x, p)
<1>1. HasField(p, m, y, row) /\ HasField(q, l, x, row)
  BY WithFieldIs DEF IsRow
<1> HIDE DEF p, q
<1>2. HasField(r, l, x, p)
  BY <1>1, WithFieldIs DEF HasField
<1> HIDE DEF r
<1>3. r.size = q.size + y.size + 1
  BY <1>1, <1>2 DEF HasField, IsRow
<1>4. r.fields[m] = <<y, q.fields[m]>>
  BY <1>1, <1>2 DEF HasField
<1>5. ASSUME NEW n \in Labels \ {m}
      PROVE  r.fields[n] = q.fields[n]
  <2>1. CASE n = l
    BY <1>1, <1>2, <2>1 DEF HasField
  <2>2. CASE n # l
    BY <1>1, <1>2, <2>2 DEF HasField
  <2> QED
    BY <2>1, <2>2
<1>6. HasField(r, m, y, q)
  BY <1>2, <1>3, <1>4, <1>5 DEF HasField
<1>7. r = WithField(m, y, q)
  BY <1>1, <1>6, FieldIs DEF HasField
<1> QED
  BY <1>7 DEF r, p, q

(* Equal rows whose first fields differ in their labels have a tail in     *)
(* common: what the one has without the field of the other.                *)
LEMMA CommonTail ==
  ASSUME NEW r, IsRow(r), NEW s, IsRow(s), NEW l \in Labels, NEW m \in Labels, l # m,
         NEW x, x.size \in Nat, NEW y, y.size \in Nat,
         WithField(l, x, r) = WithField(m, y, s)
  PROVE  r = WithField(m, y, Without(m, r)) /\ s = WithField(l, x, Without(m, r))
<1> DEFINE w == WithField(l, x, r)
           p == Without(m, r)
<1>1. HasField(w, l, x, r) /\ HasField(w, m, y, s)
  BY WithFieldIs DEF IsRow
<1> HIDE DEF w
<1>2. /\ r.fields[m] = <<y, s.fields[m]>> /\ s.fields[l] = <<x, r.fields[l]>>
      /\ \A n \in Labels \ {l, m} : r.fields[n] = s.fields[n]
  BY <1>1 DEF HasField
<1>8. s.size = r.size - y.size + x.size /\ r.size \in Nat /\ s.size \in Nat
  <2>1. w.size = r.size + x.size + 1 /\ w.size = s.size + y.size + 1
    BY <1>1 DEF HasField
  <2>2. r.size \in Nat /\ s.size \in Nat
    BY DEF IsRow
  <2> QED
    BY <2>1, <2>2
<1>3. r.fields[m] # <<>> /\ r.fields[m][1] = y /\ r.fields[m][2] = s.fields[m]
  BY <1>2
<1>4. LacksField(p, m, r)
  BY <1>3, WithoutIs DEF IsRow
<1> HIDE DEF p
<1>5. HasField(r, m, y, p)
  BY <1>2, <1>3, <1>4 DEF HasField, LacksField, IsRow
<1>6. HasField(s, l, x, p)
  <2>1. s.size = p.size + x.size + 1
    BY <1>3, <1>4, <1>8 DEF LacksField
  <2>2. s.fields[l] = <<x, p.fields[l]>>
    BY <1>2, <1>4 DEF LacksField
  <2>3. ASSUME NEW n \in Labels \ {l}
        PROVE  s.fields[n] = p.fields[n]
    <3>1. CASE n = m
      BY <1>3, <1>4, <3>1 DEF LacksField
    <3>2. CASE n # m
      BY <1>2, <1>4, <3>2 DEF LacksField
    <3> QED
      BY <3>1, <3>2
  <2> QED
    BY <2>1, <2>2, <2>3 DEF HasField, IsRow
<1>7. r = WithField(m, y, p) /\ s = WithField(l, x, p)
  BY <1>4, <1>5, <1>6, FieldIs DEF LacksField
<1> QED
  BY <1>7 DEF p

(* A field determines its type and the rest of its row. *)
LEMMA SameField ==
  ASSUME NEW r, IsRow(r), NEW s, IsRow(s), NEW l \in Labels,
         NEW x, NEW y, x.size \in Nat, y.size \in Nat,
         WithField(l, x, r) = WithField(l, y, s)
  PROVE  x = y /\ r = s
<1> DEFINE w == WithField(l, x, r)
<1>1. HasField(w, l, x, r) /\ HasField(w, l, y, s)
  BY WithFieldIs DEF IsRow
<1> HIDE DEF w
<1>2. x = y /\ r.fields[l] = s.fields[l]
  BY <1>1 DEF HasField
<1>3. \A n \in Labels : r.fields[n] = s.fields[n]
  BY <1>1, <1>2 DEF HasField
<1>4. r.size = s.size
  BY <1>1, <1>2 DEF HasField, IsRow
<1> QED
  BY <1>2, <1>3, <1>4, SameRows DEF IsRow

(* A row with a field is not the empty one. *)
LEMMA FieldIsNotNone ==
  ASSUME NEW row, IsRow(row), NEW l \in Labels, NEW x
  PROVE  WithField(l, x, row) # NoFields
<1> DEFINE w == WithField(l, x, row)
<1>1. HasField(w, l, x, row)
  BY WithFieldIs DEF IsRow
<1> HIDE DEF w
<1>2. w.fields[l] # <<>>
  BY <1>1 DEF HasField
<1>3. NoFields.fields[l] = <<>>
  BY DEF NoFields
<1>4. w # NoFields
  BY <1>2, <1>3
<1> QED
  BY <1>4 DEF w

-----------------------------------------------------------------------------
(* Valuations that give types and rows to the variables of V, and what     *)
(* terms mean under them.                                                  *)
Proper(g, V) ==
  /\ \A v \in V \cap TypeVars : g[v].size \in Nat
  /\ \A v \in V \cap RowVars : Finite(g[v])

(* Under a proper valuation types have a size, and rows are finite.        *)
LEMMA ProperMeaning ==
  ASSUME NEW g
  PROVE  \A t \in Terms : Proper(g, FreeVariables(t)) =>
           /\ Meaning(g, t).size \in Nat
           /\ t \in Rows => Finite(Meaning(g, t))
<1> DEFINE S == {t \in Terms : Proper(g, FreeVariables(t)) =>
                    /\ Meaning(g, t).size \in Nat
                    /\ t \in Rows => Finite(Meaning(g, t))}
<1>1. ASSUME NEW t \in Terms, \A i \in DOMAIN t.a : t.a[i] \in S, Proper(g, FreeVariables(t))
      PROVE  /\ Meaning(g, t).size \in Nat
             /\ t \in Rows => Finite(Meaning(g, t))
  <2>1. CASE IsVar(t)
    <3>1. Meaning(g, t) = g[t.l] /\ t.l \in FreeVariables(t)
      BY <2>1, MeaningOfVariable, FreeOfVariable
    <3>2. t \in Rows => t.l \in RowVars
      BY <2>1, Sorts
    <3>3. t \in Types => t.l \in TypeVars
      BY <2>1, Sorts
    <3> QED
      BY <1>1, <3>1, <3>2, <3>3, FiniteIs DEF Proper, Terms
  <2>2. ASSUME ~IsVar(t)
        PROVE  \A i \in DOMAIN t.a : Proper(g, FreeVariables(t.a[i]))
    BY <1>1, <2>2, FreeOfNode DEF Proper
  <2>3. CASE ~IsVar(t) /\ t \in Types
    <3>1. \A i \in DOMAIN t.a : Meaning(g, t.a[i]).size \in Nat
      BY <1>1, <2>2, <2>3
    <3>2. Largest({Meaning(g, t.a[i]).size : i \in DOMAIN t.a}) \in Nat
      BY <2>3, <3>1, LargestIs
    <3>3. Meaning(g, t).size = Largest({Meaning(g, t.a[i]).size : i \in DOMAIN t.a}) + 1
      BY <2>3, MeaningOfConstructor
    <3>4. t \notin Rows
      BY <2>3, Sorts, SortsAssumption DEF IsVar
    <3> QED
      BY <3>2, <3>3, <3>4
  <2>4. CASE ~IsVar(t) /\ t \in Rows
    <3> HIDE DEF Var, EmptyRow
    <3>1. t = EmptyRow \/ t \in Fielded
      BY <2>4, RowCases, VarShape
    <3>2. CASE t = EmptyRow
      BY <3>2, MeaningOfEmptyRow, NoFieldsFinite, FiniteIs
    <3>3. CASE t \in Fielded
      <4>1. t.f = "RowExt" /\ t.l \in Labels /\ DOMAIN t.a = {1, 2} /\ t.a[2] \in Rows
        BY <3>3, FieldedShape
      <4>2. Meaning(g, t.a[1]).size \in Nat /\ Finite(Meaning(g, t.a[2]))
        BY <1>1, <2>2, <2>4, <4>1
      <4>3. Meaning(g, t) = WithField(t.l, Meaning(g, t.a[1]), Meaning(g, t.a[2]))
        BY <4>1, MeaningOfField
      <4>4. Finite(Meaning(g, t))
        BY <4>1, <4>2, <4>3, WithFieldFinite
      <4> QED
        BY <4>4, FiniteIs
    <3> QED
      BY <3>1, <3>2, <3>3
  <2> QED
    BY <2>1, <2>3, <2>4 DEF Terms
<1>2. \A t \in Terms : t \in S
  <2>1. \A t \in Terms : (\A i \in DOMAIN t.a : t.a[i] \in S) => t \in S
    BY <1>1
  <2>2. S \in SUBSET Terms
    OBVIOUS
  <2> HIDE DEF S
  <2> QED
    BY <2>1, <2>2, Induction
<1> QED
  BY <1>2

(* A term is larger than each of its arguments, and than its variables.    *)
LEMMA ArgumentsSmaller ==
  ASSUME NEW g, NEW t \in Terms, ~IsVar(t), Proper(g, FreeVariables(t)), NEW i \in DOMAIN t.a
  PROVE  /\ Proper(g, FreeVariables(t.a[i]))
         /\ Meaning(g, t.a[i]).size \in Nat
         /\ Meaning(g, t).size \in Nat
         /\ Meaning(g, t.a[i]).size < Meaning(g, t).size
<1>1. \A j \in DOMAIN t.a : Proper(g, FreeVariables(t.a[j]))
  BY FreeOfNode DEF Proper
<1>2. \A j \in DOMAIN t.a : Meaning(g, t.a[j]).size \in Nat
  BY <1>1, Subterms, ProperMeaning
<1>3. Meaning(g, t).size \in Nat
  BY ProperMeaning
<1>4. CASE t \in Types
  <2>1. LET n == Largest({Meaning(g, t.a[j]).size : j \in DOMAIN t.a})
        IN  n \in Nat /\ \A j \in DOMAIN t.a : Meaning(g, t.a[j]).size <= n
    BY <1>2, LargestIs
  <2>2. Meaning(g, t).size = Largest({Meaning(g, t.a[j]).size : j \in DOMAIN t.a}) + 1
    BY <1>4, MeaningOfConstructor
  <2> DEFINE n == Largest({Meaning(g, t.a[j]).size : j \in DOMAIN t.a})
  <2>3. n \in Nat /\ Meaning(g, t.a[i]).size <= n /\ Meaning(g, t).size = n + 1
    BY <2>1, <2>2
  <2> HIDE DEF n
  <2> QED
    BY <1>1, <1>2, <1>3, <2>3
<1>5. CASE t \in Rows
  <2> HIDE DEF Var, EmptyRow
  <2>1. DOMAIN <<>> = {}
    OBVIOUS
  <2>2. t \in Fielded
    BY <1>5, <2>1, RowCases, VarShape, EmptyRowShape
  <2>3. t.f = "RowExt" /\ t.l \in Labels /\ DOMAIN t.a = {1, 2} /\ t.a[2] \in Rows
    BY <2>2, FieldedShape
  <2> DEFINE x == Meaning(g, t.a[1])
             r == Meaning(g, t.a[2])
  <2>4. Meaning(g, t) = WithField(t.l, x, r)
    BY <2>3, MeaningOfField
  <2>5. r \in {r} /\ Finite(r)
    BY <1>1, <2>3, Subterms, ProperMeaning
  <2>6. x.size \in Nat /\ r.size \in Nat
    BY <1>2, <2>3
  <2>7. i = 1 \/ i = 2
    BY <2>3
  <2> HIDE DEF x, r
  <2>8. HasField(WithField(t.l, x, r), t.l, x, r)
    BY <2>3, <2>5, FiniteIs, WithFieldIs
  <2>9. Meaning(g, t).size = r.size + x.size + 1
    BY <2>4, <2>8 DEF HasField
  <2>10. r.size < Meaning(g, t).size /\ x.size < Meaning(g, t).size
    BY <2>6, <2>9
  <2> QED
    BY <1>1, <1>2, <1>3, <2>7, <2>10 DEF x, r
<1> QED
  BY <1>4, <1>5 DEF Terms

(* This is why the occurs check rejects only what has no solution: a type  *)
(* that contains a variable and is another would be larger than itself.    *)
LEMMA VariablesSmaller ==
  ASSUME NEW g
  PROVE  \A t \in Terms : Proper(g, FreeVariables(t)) =>
           \A v \in FreeVariables(t) :
              /\ g[v].size \in Nat /\ g[v].size <= Meaning(g, t).size
              /\ ~IsVar(t) => g[v].size < Meaning(g, t).size
<1> DEFINE S == {t \in Terms : Proper(g, FreeVariables(t)) =>
                    \A v \in FreeVariables(t) :
                       /\ g[v].size \in Nat /\ g[v].size <= Meaning(g, t).size
                       /\ ~IsVar(t) => g[v].size < Meaning(g, t).size}
<1>1. ASSUME NEW t \in Terms, \A i \in DOMAIN t.a : t.a[i] \in S, Proper(g, FreeVariables(t)),
             NEW v \in FreeVariables(t)
      PROVE  /\ g[v].size \in Nat /\ g[v].size <= Meaning(g, t).size
             /\ ~IsVar(t) => g[v].size < Meaning(g, t).size
  <2>1. CASE IsVar(t)
    <3>1. Meaning(g, t) = g[t.l] /\ v = t.l
      BY <2>1, MeaningOfVariable, FreeOfVariable
    <3>2. Meaning(g, t).size \in Nat
      BY <1>1, ProperMeaning
    <3> QED
      BY <2>1, <3>1, <3>2
  <2>2. CASE ~IsVar(t)
    <3>1. PICK i \in DOMAIN t.a : v \in FreeVariables(t.a[i])
      BY <2>2, FreeOfNode
    <3>2. /\ Proper(g, FreeVariables(t.a[i])) /\ Meaning(g, t.a[i]).size \in Nat
          /\ Meaning(g, t).size \in Nat /\ Meaning(g, t.a[i]).size < Meaning(g, t).size
      BY <1>1, <2>2, ArgumentsSmaller
    <3>3. g[v].size \in Nat /\ g[v].size <= Meaning(g, t.a[i]).size
      BY <1>1, <3>1, <3>2
    <3> QED
      BY <3>2, <3>3
  <2> QED
    BY <2>1, <2>2
<1>2. \A t \in Terms : t \in S
  <2>1. \A t \in Terms : (\A i \in DOMAIN t.a : t.a[i] \in S) => t \in S
    BY <1>1
  <2>2. S \in SUBSET Terms
    OBVIOUS
  <2> HIDE DEF S
  <2> QED
    BY <2>1, <2>2, Induction
<1> QED
  BY <1>2

(* The variables that are left when one is replaced: just those that were  *)
(* there, and if it was there those of what replaces it.                   *)
LEMMA FreeOfReplacement ==
  ASSUME NEW b, b.t \in Terms
  PROVE  \A t \in Terms : R(b, t) \in Terms =>
           FreeVariables(R(b, t)) =
             IF b.v \in FreeVariables(t) THEN (FreeVariables(t) \ {b.v}) \cup FreeVariables(b.t)
             ELSE FreeVariables(t)
<1> DEFINE Stays(t) == \A v \in FreeVariables(t) :
                         IF v = b.v THEN FreeVariables(b.t) \subseteq FreeVariables(R(b, t))
                         ELSE v \in FreeVariables(R(b, t))
           P(t) == R(b, t) \in Terms => Stays(t)
           S == {t \in Terms : P(t)}
<1>1. ASSUME NEW t \in Terms, \A i \in DOMAIN t.a : t.a[i] \in S
      PROVE  P(t)
  <2>1. CASE IsVar(t)
    BY <2>1, ReplaceInVariable, FreeOfVariable
  <2>2. CASE ~IsVar(t)
    <3>1. SUFFICES ASSUME R(b, t) \in Terms, NEW v \in FreeVariables(t)
                   PROVE  IF v = b.v THEN FreeVariables(b.t) \subseteq FreeVariables(R(b, t))
                          ELSE v \in FreeVariables(R(b, t))
      OBVIOUS
    <3>2. /\ ~IsVar(R(b, t)) /\ DOMAIN R(b, t).a = DOMAIN t.a
          /\ \A i \in DOMAIN t.a : R(b, t).a[i] = R(b, t.a[i])
      BY <2>2, ReplaceInNode
    <3>3. PICK i \in DOMAIN t.a : v \in FreeVariables(t.a[i])
      BY <2>2, <3>1, FreeOfNode
    <3>4. R(b, t.a[i]) \in Terms
      BY <3>1, <3>2, Subterms
    <3>5. P(t.a[i])
      BY <1>1
    <3>6. FreeVariables(R(b, t.a[i])) \subseteq FreeVariables(R(b, t))
      BY <3>1, <3>2, FreeOfNode
    <3> QED
      BY <3>3, <3>4, <3>5, <3>6
  <2> QED
    BY <2>1, <2>2
<1>2. \A t \in Terms : t \in S
  <2>1. \A t \in Terms : (\A i \in DOMAIN t.a : t.a[i] \in S) => t \in S
    BY <1>1
  <2>2. S \in SUBSET Terms
    OBVIOUS
  <2> HIDE DEF S
  <2> QED
    BY <2>1, <2>2, Induction
<1>3. ASSUME NEW t \in Terms, R(b, t) \in Terms
      PROVE  FreeVariables(R(b, t)) =
             IF b.v \in FreeVariables(t) THEN (FreeVariables(t) \ {b.v}) \cup FreeVariables(b.t)
             ELSE FreeVariables(t)
  <2>1. Stays(t)
    BY <1>2, <1>3
  <2>2. FreeVariables(R(b, t)) \subseteq (FreeVariables(t) \ {b.v}) \cup FreeVariables(b.t)
    BY <1>3, FreeOfReplaced
  <2>3. CASE b.v \in FreeVariables(t)
    BY <2>1, <2>2, <2>3
  <2>4. CASE b.v \notin FreeVariables(t)
    BY <2>4, NothingToReplace
  <2> QED
    BY <2>3, <2>4
<1> QED
  BY <1>3

(* Renaming: in a variable, and in a node. *)
LEMMA RenamingEquation ==
  ASSUME NEW m, NEW t \in Terms
  PROVE  Rename(t, m) = RenameAlg(m, t, [i \in DOMAIN t.a |-> Rename(t.a[i], m)])
<1>1. Renaming!Inductive
  BY TermInduction DEF TermsAreInductive, Renaming!Inductive
<1> QED
  BY <1>1, Renaming!FoldEquation DEF Rename

(* Rename, of a variable ...                                               *)
LEMMA RenameInVariable ==
  ASSUME NEW m, NEW t \in Terms, IsVar(t)
  PROVE  Rename(t, m) = IF t.l \in DOMAIN m THEN Var(m[t.l]) ELSE t
BY RenamingEquation DEF RenameAlg

(* ... its arguments are renamed.                                          *)
LEMMA RenameInNode ==
  ASSUME NEW m, NEW t \in Terms, ~IsVar(t)
  PROVE  /\ ~IsVar(Rename(t, m)) /\ Rename(t, m).f = t.f /\ Rename(t, m).l = t.l
         /\ DOMAIN Rename(t, m).a = DOMAIN t.a
         /\ \A i \in DOMAIN t.a : Rename(t, m).a[i] = Rename(t.a[i], m)
<1> DEFINE r == [i \in DOMAIN t.a |-> Rename(t.a[i], m)]
<1>1. Rename(t, m) = [t EXCEPT !.a = r]
  BY RenamingEquation DEF RenameAlg
<1>2. t = [f |-> t.f, l |-> t.l, a |-> t.a]
  BY TermCases
<1> HIDE DEF r
<1>3. Rename(t, m) = [f |-> t.f, l |-> t.l, a |-> r]
  BY <1>1, <1>2
<1> QED
  BY <1>3 DEF r, IsVar

(* The variables of a renamed term are those of the term, renamed.         *)
LEMMA FreeOfRenamed ==
  ASSUME NEW m
  PROVE  \A t \in Terms : Rename(t, m) \in Terms =>
           FreeVariables(Rename(t, m)) =
             {IF v \in DOMAIN m THEN m[v] ELSE v : v \in FreeVariables(t)}
<1> DEFINE To(v) == IF v \in DOMAIN m THEN m[v] ELSE v
           P(t) == Rename(t, m) \in Terms =>
                     \A u : u \in FreeVariables(Rename(t, m)) <=>
                              \E v \in FreeVariables(t) : u = To(v)
           S == {t \in Terms : P(t)}
<1>1. ASSUME NEW t \in Terms, \A i \in DOMAIN t.a : t.a[i] \in S
      PROVE  P(t)
  <2>1. CASE IsVar(t)
    <3>1. FreeVariables(t) = {t.l}
      BY <2>1, FreeOfVariable
    <3>2. CASE t.l \in DOMAIN m
      <4>1. Rename(t, m) = Var(m[t.l]) /\ IsVar(Rename(t, m)) /\ Rename(t, m).l = m[t.l]
        BY <2>1, <3>2, RenameInVariable, VarShape
      <4>2. Rename(t, m) \in Terms => FreeVariables(Rename(t, m)) = {m[t.l]}
        BY <4>1, FreeOfVariable
      <4> QED
        BY <3>1, <3>2, <4>2
    <3>3. CASE t.l \notin DOMAIN m
      BY <2>1, <3>1, <3>3, RenameInVariable
    <3> QED
      BY <3>2, <3>3
  <2>2. CASE ~IsVar(t)
    <3>1. SUFFICES ASSUME Rename(t, m) \in Terms, NEW u
                   PROVE  u \in FreeVariables(Rename(t, m)) <=>
                            \E v \in FreeVariables(t) : u = To(v)
      OBVIOUS
    <3>2. /\ ~IsVar(Rename(t, m)) /\ DOMAIN Rename(t, m).a = DOMAIN t.a
          /\ \A i \in DOMAIN t.a : Rename(t, m).a[i] = Rename(t.a[i], m)
      BY <2>2, RenameInNode
    <3>3. \A i \in DOMAIN t.a : Rename(t.a[i], m) \in Terms
      BY <3>1, <3>2, Subterms
    <3>4. u \in FreeVariables(Rename(t, m)) <=>
            \E i \in DOMAIN t.a : u \in FreeVariables(Rename(t.a[i], m))
      BY <3>1, <3>2, FreeOfNode
    <3>5. \A i \in DOMAIN t.a : P(t.a[i])
      BY <1>1
    <3>6. \A i \in DOMAIN t.a :
            u \in FreeVariables(Rename(t.a[i], m)) <=>
              \E v \in FreeVariables(t.a[i]) : u = To(v)
      BY <3>3, <3>5
    <3>7. \A v : v \in FreeVariables(t) <=> \E i \in DOMAIN t.a : v \in FreeVariables(t.a[i])
      BY <2>2, FreeOfNode
    <3> HIDE DEF To
    <3> QED
      BY <3>4, <3>6, <3>7
  <2> QED
    BY <2>1, <2>2
<1>2. \A t \in Terms : t \in S
  <2>1. \A t \in Terms : (\A i \in DOMAIN t.a : t.a[i] \in S) => t \in S
    BY <1>1
  <2>2. S \in SUBSET Terms
    OBVIOUS
  <2> HIDE DEF S
  <2> QED
    BY <2>1, <2>2, Induction
<1> QED
  BY <1>2

(* To rename a variable is to give it the meaning of its new name.         *)
LEMMA MeaningOfRenamed ==
  ASSUME NEW m, NEW g, NEW h
  PROVE  \A t \in Terms :
           /\ Rename(t, m) \in Terms
           /\ \A v \in FreeVariables(t) : h[v] = IF v \in DOMAIN m THEN g[m[v]] ELSE g[v]
           => Meaning(g, Rename(t, m)) = Meaning(h, t)
<1> DEFINE Fit(t) == \A v \in FreeVariables(t) : h[v] = IF v \in DOMAIN m THEN g[m[v]] ELSE g[v]
           S == {t \in Terms : Rename(t, m) \in Terms /\ Fit(t)
                               => Meaning(g, Rename(t, m)) = Meaning(h, t)}
<1>1. ASSUME NEW t \in Terms, \A i \in DOMAIN t.a : t.a[i] \in S, Rename(t, m) \in Terms, Fit(t)
      PROVE  Meaning(g, Rename(t, m)) = Meaning(h, t)
  <2>1. CASE IsVar(t)
    <3>1. h[t.l] = IF t.l \in DOMAIN m THEN g[m[t.l]] ELSE g[t.l]
      BY <1>1, <2>1, FreeOfVariable
    <3>2. Meaning(h, t) = h[t.l] /\ Meaning(g, t) = g[t.l]
      BY <2>1, MeaningOfVariable
    <3>3. t.l \in DOMAIN m => Meaning(g, Rename(t, m)) = g[m[t.l]]
      BY <1>1, <2>1, RenameInVariable, VarShape, MeaningOfVariable
    <3> QED
      BY <2>1, <3>1, <3>2, <3>3, RenameInVariable
  <2>2. CASE ~IsVar(t)
    <3>1. /\ ~IsVar(Rename(t, m)) /\ Rename(t, m).f = t.f /\ Rename(t, m).l = t.l
          /\ DOMAIN Rename(t, m).a = DOMAIN t.a
          /\ \A i \in DOMAIN t.a : Rename(t, m).a[i] = Rename(t.a[i], m)
      BY <2>2, RenameInNode
    <3>2. ASSUME NEW i \in DOMAIN t.a
          PROVE  Meaning(g, Rename(t, m).a[i]) = Meaning(h, t.a[i])
      <4>1. Rename(t.a[i], m) \in Terms
        BY <1>1, <3>1, Subterms
      <4>2. Fit(t.a[i])
        BY <1>1, <2>2, FreeOfNode
      <4> HIDE DEF Fit
      <4> QED
        BY <1>1, <3>1, <4>1, <4>2
    <3> QED
      BY <1>1, <2>2, <3>1, <3>2, NodesAgree
  <2> QED
    BY <2>1, <2>2
<1>2. \A t \in Terms : t \in S
  <2>1. \A t \in Terms : (\A i \in DOMAIN t.a : t.a[i] \in S) => t \in S
    BY <1>1
  <2>2. S \in SUBSET Terms
    OBVIOUS
  <2> HIDE DEF S
  <2> QED
    BY <2>1, <2>2, Induction
<1> QED
  BY <1>2

-----------------------------------------------------------------------------
HIDE DEF Var, EmptyRow, Con

(* What a substitution is worth, as a composition of its bindings.         *)
BoundBy(s) == {s[i].v : i \in DOMAIN s}
Mentions(s) == UNION {FreeVariables(s[i].t) : i \in DOMAIN s}
Respects(g, s) == \A i \in DOMAIN s : g[s[i].v] = Meaning(g, s[i].t)

(* What is bound is gone. *)
Removes(s) ==
  \A t \in Terms : Apply(t, s) \in Terms =>
    FreeVariables(Apply(t, s)) \subseteq (FreeVariables(t) \cup Mentions(s)) \ BoundBy(s)
(* What is not bound stays, and so does what is too deep. *)
Leaves(s) ==
  /\ \A t \in Terms : FreeVariables(t) \cap BoundBy(s) = {} => Apply(t, s) = t
  /\ \A t : t \notin Terms => Apply(t, s) = t
KeepsSort(s) ==
  \A t \in Terms : Apply(t, s) \in Terms =>
    (t \in Types => Apply(t, s) \in Types) /\ (t \in Rows => Apply(t, s) \in Rows)
(* It changes no meaning under a valuation that respects it ... *)
KeepsMeaning(s) ==
  \A g : Respects(g, s) =>
    \A t \in Terms : Apply(t, s) \in Terms => Meaning(g, Apply(t, s)) = Meaning(g, t)
(* ... and every valuation is one that respects it, of what it leaves. *)
Refines(s) ==
  \A g : Proper(g, TypeVars \cup RowVars) =>
    \E h : /\ Proper(h, TypeVars \cup RowVars) /\ Respects(h, s)
           /\ \A t \in Terms : Apply(t, s) \in Terms => Meaning(h, t) = Meaning(g, Apply(t, s))

Composed(s) == Removes(s) /\ Leaves(s) /\ KeepsSort(s) /\ KeepsMeaning(s) /\ Refines(s)

(* A substitution without bindings changes nothing ...                     *)
LEMMA ApplyEmpty == \A t : Apply(t, <<>>) = t
BY Bindings!FoldEmpty DEF Apply

(* ... and one more binding is applied last.                               *)
LEMMA ApplyAppend ==
  ASSUME NEW s \in Seq(BindingSet), NEW b \in BindingSet
  PROVE  \A t : Apply(t, Append(s, b)) = Replace(Apply(t, s), b)
BY Bindings!FoldAppend DEF Apply

(* No bindings are a composed substitution.                                *)
LEMMA ComposedEmpty == Composed(<<>>)
<1>1. DOMAIN <<>> = {}
  OBVIOUS
<1>2. BoundBy(<<>>) = {} /\ Mentions(<<>>) = {} /\ \A g : Respects(g, <<>>)
  BY <1>1 DEF BoundBy, Mentions, Respects
<1>3. Removes(<<>>) /\ Leaves(<<>>) /\ KeepsSort(<<>>)
  BY <1>2, ApplyEmpty DEF Removes, Leaves, KeepsSort
<1>4. KeepsMeaning(<<>>)
  BY ApplyEmpty DEF KeepsMeaning
<1>5. Refines(<<>>)
  BY <1>2, ApplyEmpty DEF Refines
<1> QED
  BY <1>3, <1>4, <1>5 DEF Composed

(* One binding more. *)
LEMMA ComposedAppend ==
  ASSUME NEW s \in Seq(BindingSet), NEW b \in BindingSet, Composed(s), Var(b.v) \in Terms,
         b.v \notin BoundBy(s), b.v \notin FreeVariables(b.t),
         FreeVariables(b.t) \cap BoundBy(s) = {}
  PROVE  Composed(Append(s, b))
<1> DEFINE n == Len(s)
           u == Append(s, b)
<1>1. /\ DOMAIN u = DOMAIN s \cup {n + 1} /\ n + 1 \notin DOMAIN s /\ u[n + 1] = b
      /\ \A i \in DOMAIN s : u[i] = s[i]
  OBVIOUS
<1>2. \A t : Apply(t, u) = IF Apply(t, s) \in Terms THEN R(b, Apply(t, s)) ELSE Apply(t, s)
  BY ApplyAppend DEF Replace, R
<1>3. b.t \in Terms /\ b.v \in TypeVars \cup RowVars
      /\ ((b.v \in TypeVars /\ b.t \in Types) \/ (b.v \in RowVars /\ b.t \in Rows))
  BY DEF BindingSet, Terms
<1> HIDE DEF u, n
<1>4. /\ BoundBy(u) = BoundBy(s) \cup {b.v}
      /\ Mentions(u) = Mentions(s) \cup FreeVariables(b.t)
  BY <1>1 DEF BoundBy, Mentions
<1>5. \A g : Respects(g, u) <=> Respects(g, s) /\ g[b.v] = Meaning(g, b.t)
  BY <1>1 DEF Respects
<1>6. ASSUME NEW t, Apply(t, u) \in Terms
      PROVE  Apply(t, s) \in Terms /\ Apply(t, u) = R(b, Apply(t, s))
  BY <1>2, <1>6
<1>7. Removes(u)
  <2> SUFFICES ASSUME NEW t \in Terms, Apply(t, u) \in Terms
               PROVE  FreeVariables(Apply(t, u)) \subseteq
                        (FreeVariables(t) \cup Mentions(u)) \ BoundBy(u)
    BY DEF Removes
  <2>1. Apply(t, s) \in Terms /\ Apply(t, u) = R(b, Apply(t, s))
    BY <1>6
  <2>2. FreeVariables(Apply(t, u)) \subseteq
          (FreeVariables(Apply(t, s)) \ {b.v}) \cup FreeVariables(b.t)
    BY <1>3, <2>1, FreeOfReplaced
  <2>3. FreeVariables(Apply(t, s)) \subseteq (FreeVariables(t) \cup Mentions(s)) \ BoundBy(s)
    BY <2>1 DEF Composed, Removes
  <2> QED
    BY <1>4, <2>2, <2>3
<1>8. Leaves(u)
  <2>1. ASSUME NEW t \in Terms, FreeVariables(t) \cap BoundBy(u) = {}
        PROVE  Apply(t, u) = t
    <3>1. Apply(t, s) = t
      BY <1>4, <2>1 DEF Composed, Leaves
    <3>2. b.v \notin FreeVariables(t)
      BY <1>4, <2>1
    <3>3. R(b, t) = t
      BY <3>2, NothingToReplace
    <3> QED
      BY <1>2, <3>1, <3>3
  <2>2. ASSUME NEW t, t \notin Terms
        PROVE  Apply(t, u) = t
    BY <1>2, <2>2 DEF Composed, Leaves
  <2> QED
    BY <2>1, <2>2 DEF Leaves
<1>9. KeepsSort(u)
  <2> SUFFICES ASSUME NEW t \in Terms, Apply(t, u) \in Terms
               PROVE  /\ t \in Types => Apply(t, u) \in Types
                      /\ t \in Rows => Apply(t, u) \in Rows
    BY DEF KeepsSort
  <2>1. Apply(t, s) \in Terms /\ Apply(t, u) = R(b, Apply(t, s))
    BY <1>6
  <2>2. (t \in Types => Apply(t, s) \in Types) /\ (t \in Rows => Apply(t, s) \in Rows)
    BY <2>1 DEF Composed, KeepsSort
  <2>3. /\ Apply(t, s) \in Types => R(b, Apply(t, s)) \in Types
        /\ Apply(t, s) \in Rows => R(b, Apply(t, s)) \in Rows
    BY <1>3, <2>1, ReplaceKeepsSort
  <2> QED
    BY <2>1, <2>2, <2>3
<1>10. KeepsMeaning(u)
  <2> SUFFICES ASSUME NEW g, Respects(g, u), NEW t \in Terms, Apply(t, u) \in Terms
               PROVE  Meaning(g, Apply(t, u)) = Meaning(g, t)
    BY DEF KeepsMeaning
  <2>1. Apply(t, s) \in Terms /\ Apply(t, u) = R(b, Apply(t, s))
    BY <1>6
  <2>2. Meaning(g, Apply(t, s)) = Meaning(g, t)
    BY <1>5, <2>1 DEF Composed, KeepsMeaning
  <2>3. Meaning(g, R(b, Apply(t, s))) = Meaning(g, Apply(t, s))
    BY <1>5, <2>1, MeaningOfReplaced
  <2> QED
    BY <2>1, <2>2, <2>3
<1>11. Apply(Var(b.v), u) = b.t /\ Apply(b.t, u) = b.t
  <2>1. FreeVariables(Var(b.v)) = {b.v}
    BY VarShape, FreeOfVariable
  <2>2. Apply(Var(b.v), s) = Var(b.v)
    BY <2>1 DEF Composed, Leaves
  <2>3. R(b, Var(b.v)) = b.t
    BY VarShape, ReplaceInVariable
  <2>4. Apply(b.t, s) = b.t
    BY <1>3 DEF Composed, Leaves
  <2>5. R(b, b.t) = b.t
    BY <1>3, NothingToReplace
  <2> QED
    BY <1>2, <1>3, <2>2, <2>3, <2>4, <2>5
<1>12. Refines(u)
  <2> DEFINE V == TypeVars \cup RowVars
  <2> SUFFICES ASSUME NEW g, Proper(g, V)
               PROVE  \E h : /\ Proper(h, V) /\ Respects(h, u)
                             /\ \A t \in Terms : Apply(t, u) \in Terms =>
                                  Meaning(h, t) = Meaning(g, Apply(t, u))
    BY DEF Refines
  <2> DEFINE k == [v \in V |-> IF v = b.v THEN Meaning(g, b.t) ELSE g[v]]
  <2>1. /\ Meaning(g, b.t).size \in Nat
        /\ b.t \in Rows => Finite(Meaning(g, b.t))
    <3>1. Proper(g, FreeVariables(b.t))
      BY <1>3, FreeAreVariables DEF Proper
    <3> QED
      BY <1>3, <3>1, ProperMeaning
  <2>2. Proper(k, V)
    <3>1. b.v \in RowVars => b.t \in Rows
      BY <1>3, SortsAssumption
    <3> QED
      BY <1>3, <2>1, <3>1 DEF Proper
  <2>3. \A v \in V : k[v] = IF v = b.v THEN Meaning(g, b.t) ELSE g[v]
    OBVIOUS
  <2> HIDE DEF k
  <2>4. PICK h : /\ Proper(h, V) /\ Respects(h, s)
                 /\ \A t \in Terms : Apply(t, s) \in Terms => Meaning(h, t) = Meaning(k, Apply(t, s))
    BY <2>2 DEF Composed, Refines
  <2>5. ASSUME NEW t \in Terms, Apply(t, u) \in Terms
        PROVE  Meaning(h, t) = Meaning(g, Apply(t, u))
    <3>1. Apply(t, s) \in Terms /\ Apply(t, u) = R(b, Apply(t, s))
      BY <1>6, <2>5
    <3>2. \A v \in FreeVariables(Apply(t, s)) :
            k[v] = IF v = b.v THEN Meaning(g, b.t) ELSE g[v]
      BY <2>3, <3>1, FreeAreVariables
    <3>3. Meaning(g, R(b, Apply(t, s))) = Meaning(k, Apply(t, s))
      BY <2>5, <3>1, <3>2, MeaningOfReplaced
    <3> QED
      BY <2>4, <3>1, <3>3
  <2>6. h[b.v] = Meaning(h, b.t)
    <3>1. Meaning(h, Var(b.v)) = h[b.v]
      BY VarShape, MeaningOfVariable
    <3>2. Meaning(h, Var(b.v)) = Meaning(g, b.t) /\ Meaning(h, b.t) = Meaning(g, b.t)
      BY <1>3, <1>11, <2>5
    <3> QED
      BY <3>1, <3>2
  <2> QED
    BY <1>5, <2>4, <2>5, <2>6
<1> QED
  BY <1>7, <1>8, <1>9, <1>10, <1>12 DEF Composed, u

-----------------------------------------------------------------------------
(* The inductive invariant. *)
Known == EquationVars \cup FreshVars
SolvesPairs(g, ps) == \A i \in DOMAIN ps : Meaning(g, ps[i].l) = Meaning(g, ps[i].r)

OnlyKnown ==
  /\ \A i \in DOMAIN todo : /\ FreeVariables(todo[i].l) \subseteq Known
                            /\ FreeVariables(todo[i].r) \subseteq Known
  /\ BoundBy(sub) \subseteq Known /\ Mentions(sub) \subseteq Known

(* A solution of the equations is one of what has become of them ... *)
Survives(g, e) ==
  /\ Known \subseteq DOMAIN e /\ Proper(e, Known)
  /\ \A v \in EquationVars : e[v] = g[v]
  /\ Respects(e, sub) /\ SolvesPairs(e, todo)
NothingLost == \A g \in Valuations : Solves(g) => Survives(g, Extended(g))
(* ... and the other way round. *)
NothingAdded ==
  \A g : Proper(g, TypeVars \cup RowVars) /\ Respects(g, sub) /\ SolvesPairs(g, todo) => Solves(g)

IInv ==
  /\ TypeOK /\ Within /\ Acyclic /\ Composed(sub) /\ OnlyKnown
  /\ NothingLost /\ NothingAdded /\ RejectsUnsolvable

-----------------------------------------------------------------------------
(* What occurs in equations and bindings is a variable.                    *)
LEMMA EquationVarsAreVariables == EquationVars \subseteq TypeVars \cup RowVars
BY VariablesAssumption

(* ... and so is what has been allocated.                                  *)
LEMMA KnownAreVariables ==
  ASSUME TypeOK
  PROVE  Known \subseteq TypeVars \cup RowVars
BY EquationVarsAreVariables, FreshAssumption, BoundsAssumption DEF Known, FreshVars, TypeOK

(* Both sides of an equation are types in its variables.                   *)
LEMMA FreeOfEquation ==
  ASSUME NEW e \in TypePairs
  PROVE  /\ e[1] \in Types /\ e[2] \in Types /\ e[1] \in Terms /\ e[2] \in Terms
         /\ FreeVariables(e[1]) \subseteq EquationVars /\ FreeVariables(e[2]) \subseteq EquationVars
BY DEF TypePairs, Terms

(* The valuations of the equations are proper.                             *)
LEMMA ValuationsAreProper ==
  ASSUME NEW g \in Valuations
  PROVE  DOMAIN g = EquationVars /\ Proper(g, EquationVars)
BY ValuationsAssumption, RowsAssumption DEF Proper, Finite

(* A valuation is proper on fewer variables.                               *)
LEMMA ProperOnLess ==
  ASSUME NEW g, NEW V, NEW W, Proper(g, W), V \subseteq W
  PROVE  Proper(g, V)
BY DEF Proper

(* What is in a list of pairs whose first has been replaced by others. *)
Rest(q) == DOMAIN q \ {1}
SolvesRest(g, q) == \A j \in Rest(q) : Meaning(g, q[j].l) = Meaning(g, q[j].r)
Replaced(q, ps, r) ==
  /\ r \in Seq(Pairs)
  /\ \A i \in DOMAIN r : \/ \E j \in DOMAIN ps : r[i] = ps[j]
                         \/ \E j \in DOMAIN q : r[i] = q[j]
  /\ \A g : SolvesPairs(g, r) <=> SolvesPairs(g, ps) /\ SolvesRest(g, q)

(* The calls that replace the next one, and those that remain.             *)
LEMMA InsteadOfHead ==
  ASSUME NEW q \in Seq(Pairs), q # <<>>, NEW ps \in Seq(Pairs)
  PROVE  Replaced(q, ps, ps \o Tail(q))
<1> DEFINE r == ps \o Tail(q)
<1> DEFINE m == Len(ps)
           n == Len(q)
<1>1. /\ r \in Seq(Pairs) /\ m \in Nat /\ n \in Nat /\ n # 0
      /\ DOMAIN r = 1 .. (m + n - 1) /\ DOMAIN ps = 1 .. m /\ DOMAIN q = 1 .. n /\ Rest(q) = 2 .. n
  BY DEF Rest
<1>2. \A i \in 1 .. m : r[i] = ps[i]
  OBVIOUS
<1>3. ASSUME NEW i \in (m + 1) .. (m + n - 1)
      PROVE  r[i] = q[i - m + 1]
  <2>1. Tail(q) \in Seq(Pairs) /\ Len(Tail(q)) = n - 1
    OBVIOUS
  <2>2. i - m \in 1 .. (n - 1)
    OBVIOUS
  <2>3. r[i] = Tail(q)[i - m]
    BY <1>1, <2>1, <2>2
  <2>4. Tail(q)[i - m] = q[i - m + 1]
    BY <2>1, <2>2
  <2> QED
    BY <2>3, <2>4
<1> HIDE DEF r, m, n
<1>4. ASSUME NEW i \in DOMAIN r
      PROVE  i \in 1 .. m \/ i \in (m + 1) .. (m + n - 1)
  BY <1>1
<1>5. ASSUME NEW j \in 2 .. n
      PROVE  m + j - 1 \in (m + 1) .. (m + n - 1) /\ r[m + j - 1] = q[j] /\ m + j - 1 \in DOMAIN r
  <2>1. m + j - 1 \in (m + 1) .. (m + n - 1) /\ (m + j - 1) - m + 1 = j
    BY <1>1
  <2> QED
    BY <1>1, <1>3, <2>1
<1>6. \A i \in DOMAIN r : \/ \E j \in DOMAIN ps : r[i] = ps[j]
                          \/ \E j \in Rest(q) : r[i] = q[j]
  <2> SUFFICES ASSUME NEW i \in DOMAIN r
               PROVE  \/ \E j \in DOMAIN ps : r[i] = ps[j]
                      \/ \E j \in Rest(q) : r[i] = q[j]
    OBVIOUS
  <2>1. CASE i \in 1 .. m
    BY <1>1, <1>2, <2>1
  <2>2. CASE i \in (m + 1) .. (m + n - 1)
    <3>1. i - m + 1 \in Rest(q)
      BY <1>1, <2>2
    <3> QED
      BY <1>3, <2>2, <3>1
  <2> QED
    BY <1>4, <2>1, <2>2
<1>7. \A j \in DOMAIN ps : \E i \in DOMAIN r : r[i] = ps[j]
  <2>1. 1 .. m \subseteq DOMAIN r
    BY <1>1
  <2> QED
    BY <1>1, <1>2, <2>1
<1>8. \A j \in Rest(q) : \E i \in DOMAIN r : r[i] = q[j]
  <2>1. \A j \in Rest(q) : j \in 2 .. n
    BY <1>1
  <2> QED
    BY <1>5, <2>1
<1>9. \A g : SolvesPairs(g, r) <=>
               SolvesPairs(g, ps) /\ SolvesRest(g, q)
  <2> TAKE g
  <2>1. ASSUME SolvesPairs(g, r)
        PROVE  SolvesPairs(g, ps)
    BY <1>7, <2>1 DEF SolvesPairs
  <2>2. ASSUME SolvesPairs(g, r)
        PROVE  SolvesRest(g, q)
    BY <1>8, <2>2 DEF SolvesPairs, SolvesRest
  <2>3. ASSUME SolvesPairs(g, ps), SolvesRest(g, q)
        PROVE  SolvesPairs(g, r)
    BY <1>6, <2>3 DEF SolvesPairs, SolvesRest
  <2> QED
    BY <2>1, <2>2, <2>3
<1>10. Rest(q) \subseteq DOMAIN q
  BY DEF Rest
<1> QED
  BY <1>1, <1>6, <1>9, <1>10 DEF Replaced, r

(* The next pair, under the substitution. *)
Equal(g) == Meaning(g, Left) = Meaning(g, Right)
HeadOK ==
  /\ 1 \in DOMAIN todo
  /\ \/ Row /\ Left \in Rows /\ Right \in Rows
     \/ ~Row /\ Left \in Types /\ Right \in Types
  /\ Left \in Terms /\ Right \in Terms
  /\ FreeVariables(Left) \subseteq Known \ Bound /\ FreeVariables(Right) \subseteq Known \ Bound
  /\ \A g : Respects(g, sub) => (Equal(g) <=> Meaning(g, todo[1].l) = Meaning(g, todo[1].r))

(* To solve the pairs is to solve the next one and the rest.               *)
LEMMA HeadOrRest ==
  ASSUME HeadOK, NEW g
  PROVE  SolvesPairs(g, todo) <=>
           Meaning(g, todo[1].l) = Meaning(g, todo[1].r) /\ SolvesRest(g, todo)
BY DEF HeadOK, SolvesPairs, SolvesRest, Rest

(* What is known of the pair of the next call.                             *)
LEMMA HeadFacts ==
  ASSUME IInv, todo # <<>>
  PROVE  HeadOK
<1>1. 1 \in DOMAIN todo /\ todo[1] \in Pairs /\ Head(todo) = todo[1]
  BY DEF IInv, TypeOK
<1> DEFINE l == todo[1].l
           r == todo[1].r
<1>2. Left = Apply(l, sub) /\ Right = Apply(r, sub) /\ Row = todo[1].row
  BY <1>1 DEF Left, Right, Row
<1>3. \/ Row = FALSE /\ l \in Types /\ r \in Types
      \/ Row = TRUE /\ l \in Rows /\ r \in Rows
  BY <1>1, <1>2 DEF Pairs
<1>4. Apply(l, sub) \in Terms /\ Apply(r, sub) \in Terms
  BY <1>1 DEF IInv, Within
<1>5. /\ FreeVariables(l) \subseteq Known /\ FreeVariables(r) \subseteq Known
      /\ Mentions(sub) \subseteq Known
  BY <1>1 DEF IInv, OnlyKnown
<1>6. Composed(sub)
  BY DEF IInv
<1> HIDE DEF l, r
<1>7. l \in Terms /\ r \in Terms
  BY <1>3 DEF Terms
<1>8. /\ l \in Types => Apply(l, sub) \in Types
      /\ l \in Rows => Apply(l, sub) \in Rows
      /\ r \in Types => Apply(r, sub) \in Types
      /\ r \in Rows => Apply(r, sub) \in Rows
  BY <1>4, <1>6, <1>7 DEF Composed, KeepsSort
<1>9. Bound = BoundBy(sub)
  BY DEF Bound, BoundBy
<1>10. /\ FreeVariables(Apply(l, sub)) \subseteq (FreeVariables(l) \cup Mentions(sub)) \ BoundBy(sub)
       /\ FreeVariables(Apply(r, sub)) \subseteq (FreeVariables(r) \cup Mentions(sub)) \ BoundBy(sub)
  BY <1>4, <1>6, <1>7 DEF Composed, Removes
<1>11. \A g : Respects(g, sub) => /\ Meaning(g, Apply(l, sub)) = Meaning(g, l)
                                  /\ Meaning(g, Apply(r, sub)) = Meaning(g, r)
  BY <1>4, <1>6, <1>7 DEF Composed, KeepsMeaning
<1>12. FreeVariables(Left) \subseteq Known \ Bound /\ FreeVariables(Right) \subseteq Known \ Bound
  BY <1>2, <1>5, <1>9, <1>10
<1>13. \A g : Respects(g, sub) => (Equal(g) <=> Meaning(g, l) = Meaning(g, r))
  BY <1>2, <1>11 DEF Equal
<1> QED
  BY <1>1, <1>2, <1>3, <1>4, <1>8, <1>12, <1>13 DEF HeadOK, l, r

(* A step that puts other pairs in the place of the next one. *)
LEMMA Decompose ==
  ASSUME IInv, todo # <<>>, ~failed, NEW ps \in Seq(Pairs),
         \A i \in DOMAIN ps : /\ FreeVariables(ps[i].l) \subseteq Known
                              /\ FreeVariables(ps[i].r) \subseteq Known,
         \A g : Proper(g, Known) => (Equal(g) <=> SolvesPairs(g, ps)),
         Instead(ps), UNCHANGED <<solved, sub, ctr, tails, failed>>, Within'
  PROVE  IInv'
<1>1. HeadOK
  BY HeadFacts
<1>2. todo \in Seq(Pairs) /\ todo' = ps \o Tail(todo)
  BY DEF IInv, TypeOK, Instead
<1>3. Replaced(todo, ps, todo')
  BY <1>2, InsteadOfHead
<1>4. \A g : Proper(g, Known) /\ Respects(g, sub) =>
               (SolvesPairs(g, todo') <=> SolvesPairs(g, todo))
  <2> SUFFICES ASSUME NEW g, Proper(g, Known), Respects(g, sub)
               PROVE  SolvesPairs(g, todo') <=> SolvesPairs(g, todo)
    OBVIOUS
  <2>1. SolvesPairs(g, ps) <=> Meaning(g, todo[1].l) = Meaning(g, todo[1].r)
    BY <1>1 DEF HeadOK
  <2>2. SolvesPairs(g, todo) <=>
          Meaning(g, todo[1].l) = Meaning(g, todo[1].r) /\ SolvesRest(g, todo)
    BY <1>1, HeadOrRest
  <2> QED
    BY <1>3, <2>1, <2>2 DEF Replaced
<1>5. Known' = Known
  BY DEF Known, FreshVars
<1>6. TypeOK'
  BY <1>3 DEF IInv, TypeOK, Replaced
<1>7. Acyclic' /\ Composed(sub)' /\ RejectsUnsolvable'
  BY DEF IInv, Acyclic, RejectsUnsolvable
<1>8. OnlyKnown'
  BY <1>3, <1>5 DEF IInv, OnlyKnown, Replaced
<1>9. NothingLost'
  <2> SUFFICES ASSUME NEW g \in Valuations, Solves(g)'
               PROVE  Survives(g, Extended(g))'
    BY DEF NothingLost
  <2>1. Extended(g)' = Extended(g)
    BY DEF Extended
  <2>2. Survives(g, Extended(g))
    BY DEF IInv, NothingLost, Solves
  <2> QED
    BY <1>4, <1>5, <2>1, <2>2 DEF Survives
<1>10. NothingAdded'
  <2> SUFFICES ASSUME NEW g, Proper(g, TypeVars \cup RowVars), Respects(g, sub'),
                      SolvesPairs(g, todo')
               PROVE  Solves(g)'
    BY DEF NothingAdded
  <2>1. Proper(g, Known)
    BY KnownAreVariables, ProperOnLess DEF IInv
  <2>2. Solves(g)
    BY <1>4, <2>1 DEF IInv, NothingAdded
  <2> QED
    BY <2>2 DEF Solves
<1> QED
  BY <1>6, <1>7, <1>8, <1>9, <1>10 DEF IInv

-----------------------------------------------------------------------------
(* The steps that take a pair apart. *)
LEMMA FreeOfArgument ==
  ASSUME NEW t \in Terms, ~IsVar(t), NEW i \in DOMAIN t.a
  PROVE  t.a[i] \in Terms /\ FreeVariables(t.a[i]) \subseteq FreeVariables(t)
BY Subterms, FreeOfNode

(* A variable and itself.                                                  *)
LEMMA IdenticalStep ==
  ASSUME IInv, todo # <<>>, ~failed, Identical, Within'
  PROVE  IInv'
<1>1. <<>> \in Seq(Pairs) /\ DOMAIN <<>> = {}
  OBVIOUS
<1>2. \A g : Equal(g) /\ SolvesPairs(g, <<>>)
  BY <1>1 DEF Identical, Equal, SolvesPairs
<1> QED
  BY <1>1, <1>2, Decompose DEF Identical

(* Two empty rows.                                                         *)
LEMMA EmptyRowsStep ==
  ASSUME IInv, todo # <<>>, ~failed, EmptyRows, Within'
  PROVE  IInv'
<1>1. <<>> \in Seq(Pairs) /\ DOMAIN <<>> = {}
  OBVIOUS
<1>2. Left \in Rows /\ Right \in Rows
  BY HeadFacts DEF HeadOK, EmptyRows
<1>3. Left = EmptyRow /\ Right = EmptyRow
  BY <1>2, RowCases, VarShape, FieldedShape DEF EmptyRows
<1>4. \A g : Equal(g) /\ SolvesPairs(g, <<>>)
  BY <1>1, <1>3 DEF Equal, SolvesPairs
<1> QED
  BY <1>1, <1>4, Decompose DEF EmptyRows

(* The same constructor: types mean the same if their arguments do.        *)
LEMMA ArgumentsStep ==
  ASSUME IInv, todo # <<>>, ~failed, Arguments, Within'
  PROVE  IInv'
<1> DEFINE ps == ArgumentPairs
<1>1. /\ Left \in Types /\ Right \in Types /\ Left \in Terms /\ Right \in Terms
      /\ FreeVariables(Left) \subseteq Known /\ FreeVariables(Right) \subseteq Known
  BY HeadFacts DEF HeadOK, Arguments
<1>2. Left \in Constructed
  BY <1>1, TypeCases, VarShape, RecordedShape DEF Arguments
<1>3. Right \in Constructed
  BY <1>1, TypeCases, VarShape, RecordedShape DEF Arguments, SameHead
<1>4. PICK n \in Nat : /\ DOMAIN Left.a = 1 .. n /\ DOMAIN Right.a = 1 .. n /\ Len(Left.a) = n
                       /\ \A i \in 1 .. n : Left.a[i] \in Types /\ Right.a[i] \in Types
  BY <1>2, <1>3, ConstructedShape DEF Arguments, SameHead
<1>5. ps \in Seq(Pairs) /\ DOMAIN ps = 1 .. n
      /\ \A i \in 1 .. n : ps[i].l = Left.a[i] /\ ps[i].r = Right.a[i]
  BY <1>4 DEF ArgumentPairs, Pair, Pairs
<1> HIDE DEF ps
<1>6. \A i \in DOMAIN ps : /\ FreeVariables(ps[i].l) \subseteq Known
                           /\ FreeVariables(ps[i].r) \subseteq Known
  <2> SUFFICES ASSUME NEW i \in 1 .. n
               PROVE  /\ FreeVariables(Left.a[i]) \subseteq Known
                      /\ FreeVariables(Right.a[i]) \subseteq Known
    BY <1>5
  <2>1. ~IsVar(Left) /\ ~IsVar(Right)
    BY DEF Arguments
  <2> QED
    BY <1>1, <1>4, <2>1, FreeOfArgument
<1>7. ASSUME NEW g
      PROVE  Equal(g) <=> SolvesPairs(g, ps)
  <2>1. ASSUME Equal(g)
        PROVE  SolvesPairs(g, ps)
    <3>1. \A i \in 1 .. n : Meaning(g, Left.a[i]) = Meaning(g, Right.a[i])
      BY <1>1, <1>4, <2>1, SameConstructor DEF Arguments, Equal
    <3> QED
      BY <1>5, <3>1 DEF SolvesPairs
  <2>2. ASSUME SolvesPairs(g, ps)
        PROVE  Equal(g)
    <3>1. \A i \in 1 .. n : Meaning(g, Left.a[i]) = Meaning(g, Right.a[i])
      BY <1>5, <2>2 DEF SolvesPairs
    <3>2. Left.f = Right.f /\ Left.l = Right.l /\ ~IsVar(Left) /\ ~IsVar(Right)
      BY DEF Arguments, SameHead
    <3> QED
      BY <1>1, <1>4, <3>1, <3>2, NodesAgree DEF Equal
  <2> QED
    BY <2>1, <2>2
<1>8. Instead(ps) /\ UNCHANGED <<solved, sub, ctr, tails, failed>>
  BY DEF Arguments, ps
<1> QED
  BY <1>5, <1>6, <1>7, <1>8, Decompose

(* Two records mean the same if their rows do.                             *)
LEMMA RecordsStep ==
  ASSUME IInv, todo # <<>>, ~failed, Records, Within'
  PROVE  IInv'
<1> DEFINE ps == <<Pair(TRUE, Left.a[1], Right.a[1])>>
<1>1. /\ Left \in Types /\ Right \in Types /\ Left \in Terms /\ Right \in Terms
      /\ FreeVariables(Left) \subseteq Known /\ FreeVariables(Right) \subseteq Known
  BY HeadFacts DEF HeadOK, Records
<1>2. Left \in Recorded /\ Right \in Recorded
  BY <1>1, TypeCases, VarShape, ConstructedShape, SortsAssumption DEF Records
<1>3. /\ ~IsVar(Left) /\ Left.l = "" /\ DOMAIN Left.a = {1} /\ Left.a[1] \in Rows
      /\ ~IsVar(Right) /\ Right.l = "" /\ DOMAIN Right.a = {1} /\ Right.a[1] \in Rows
      /\ Left.f = Right.f
  BY <1>2, RecordedShape
<1>9. /\ ~IsVar(Left) /\ ~IsVar(Right) /\ Left.f = Right.f /\ Left.l = Right.l
      /\ DOMAIN Left.a = DOMAIN Right.a
  BY <1>3
<1>4. /\ FreeVariables(Left.a[1]) \subseteq Known
      /\ FreeVariables(Right.a[1]) \subseteq Known
  BY <1>1, <1>3, FreeOfArgument
<1>5. /\ ps \in Seq(Pairs) /\ DOMAIN ps = {1}
      /\ ps[1].l = Left.a[1] /\ ps[1].r = Right.a[1]
  <2>1. Pair(TRUE, Left.a[1], Right.a[1]) \in Pairs
    BY <1>3 DEF Pair, Pairs
  <2> QED
    BY <2>1 DEF Pair
<1> HIDE DEF ps
<1>6. ASSUME NEW g
      PROVE  Equal(g) <=> SolvesPairs(g, ps)
  <2>1. ASSUME Equal(g)
        PROVE  SolvesPairs(g, ps)
    <3>1. \A i \in DOMAIN Left.a : Meaning(g, Left.a[i]) = Meaning(g, Right.a[i])
      BY <1>1, <1>9, <2>1, SameConstructor DEF Equal
    <3> QED
      BY <1>3, <1>5, <3>1 DEF SolvesPairs
  <2>2. ASSUME SolvesPairs(g, ps)
        PROVE  Equal(g)
    <3>1. \A i \in DOMAIN Left.a : Meaning(g, Left.a[i]) = Meaning(g, Right.a[i])
      BY <1>3, <1>5, <2>2 DEF SolvesPairs
    <3> QED
      BY <1>1, <1>9, <3>1, NodesAgree DEF Equal
  <2> QED
    BY <2>1, <2>2
<1>7. Instead(ps) /\ UNCHANGED <<solved, sub, ctr, tails, failed>>
  BY DEF Records, ps
<1>8. \A i \in DOMAIN ps : /\ FreeVariables(ps[i].l) \subseteq Known
                           /\ FreeVariables(ps[i].r) \subseteq Known
  BY <1>4, <1>5
<1> QED
  BY <1>5, <1>6, <1>7, <1>8, Decompose

(* A row that has a field, and what is known of it under a valuation. *)
LEMMA FieldFacts ==
  ASSUME NEW t \in Rows, t.f = "RowExt"
  PROVE  /\ t \in Terms /\ ~IsVar(t) /\ t.l \in Labels /\ DOMAIN t.a = {1, 2}
         /\ t.a[1] \in Types /\ t.a[2] \in Rows
         /\ FreeVariables(t) = FreeVariables(t.a[1]) \cup FreeVariables(t.a[2])
         /\ \A g : Meaning(g, t) = WithField(t.l, Meaning(g, t.a[1]), Meaning(g, t.a[2]))
<1>1. t \in Fielded
  BY RowCases, VarShape, EmptyRowShape
<1>2. /\ t \in Terms /\ ~IsVar(t) /\ t.l \in Labels /\ DOMAIN t.a = {1, 2}
      /\ t.a[1] \in Types /\ t.a[2] \in Rows
  BY <1>1, FieldedShape DEF Terms
<1>3. FreeVariables(t) = FreeVariables(t.a[1]) \cup FreeVariables(t.a[2])
  BY <1>2, FreeOfNode
<1> QED
  BY <1>2, <1>3, MeaningOfField

(* The parts of a row with a field have a size and are finite.             *)
LEMMA FieldProper ==
  ASSUME NEW t \in Rows, t.f = "RowExt", NEW g, Proper(g, FreeVariables(t))
  PROVE  Meaning(g, t.a[1]).size \in Nat /\ Finite(Meaning(g, t.a[2])) /\ IsRow(Meaning(g, t.a[2]))
<1>1. /\ t.a[1] \in Terms /\ t.a[2] \in Terms /\ t.a[2] \in Rows
      /\ Proper(g, FreeVariables(t.a[1])) /\ Proper(g, FreeVariables(t.a[2]))
  BY FieldFacts DEF Proper, Terms
<1> QED
  BY <1>1, ProperMeaning, FiniteIs

(* Rows that start with the same label mean the same if the types of this  *)
(* label do and the rests do.                                              *)
LEMMA SameLabelStep ==
  ASSUME IInv, todo # <<>>, ~failed, SameLabel, Within'
  PROVE  IInv'
<1> DEFINE ps == <<Pair(FALSE, Left.a[1], Right.a[1]), Pair(TRUE, Left.a[2], Right.a[2])>>
<1>1. /\ Left \in Rows /\ Right \in Rows /\ Left.f = "RowExt" /\ Right.f = "RowExt"
      /\ FreeVariables(Left) \subseteq Known /\ FreeVariables(Right) \subseteq Known
      /\ Left.l = Right.l
  BY HeadFacts DEF HeadOK, SameLabel
<1>2. /\ Left.a[1] \in Types /\ Left.a[2] \in Rows /\ Left.l \in Labels
      /\ Right.a[1] \in Types /\ Right.a[2] \in Rows
      /\ FreeVariables(Left) = FreeVariables(Left.a[1]) \cup FreeVariables(Left.a[2])
      /\ FreeVariables(Right) = FreeVariables(Right.a[1]) \cup FreeVariables(Right.a[2])
      /\ \A g : Meaning(g, Left) = WithField(Left.l, Meaning(g, Left.a[1]), Meaning(g, Left.a[2]))
      /\ \A g : Meaning(g, Right) = WithField(Right.l, Meaning(g, Right.a[1]), Meaning(g, Right.a[2]))
  BY <1>1, FieldFacts
<1>3. /\ ps \in Seq(Pairs) /\ DOMAIN ps = {1, 2}
      /\ ps[1].l = Left.a[1] /\ ps[1].r = Right.a[1]
      /\ ps[2].l = Left.a[2] /\ ps[2].r = Right.a[2]
  <2>1. Pair(FALSE, Left.a[1], Right.a[1]) \in Pairs /\ Pair(TRUE, Left.a[2], Right.a[2]) \in Pairs
    BY <1>2 DEF Pair, Pairs
  <2> QED
    BY <2>1 DEF Pair
<1> HIDE DEF ps
<1>4. ASSUME NEW g, Proper(g, Known)
      PROVE  Equal(g) <=> SolvesPairs(g, ps)
  <2>1. SolvesPairs(g, ps) <=> /\ Meaning(g, Left.a[1]) = Meaning(g, Right.a[1])
                               /\ Meaning(g, Left.a[2]) = Meaning(g, Right.a[2])
    BY <1>3 DEF SolvesPairs
  <2>2. Proper(g, FreeVariables(Left)) /\ Proper(g, FreeVariables(Right))
    BY <1>1, <1>4, ProperOnLess
  <2>3. /\ Meaning(g, Left.a[1]).size \in Nat /\ IsRow(Meaning(g, Left.a[2]))
        /\ Meaning(g, Right.a[1]).size \in Nat /\ IsRow(Meaning(g, Right.a[2]))
    BY <1>1, <2>2, FieldProper
  <2>4. Equal(g) => /\ Meaning(g, Left.a[1]) = Meaning(g, Right.a[1])
                    /\ Meaning(g, Left.a[2]) = Meaning(g, Right.a[2])
    BY <1>1, <1>2, <2>3, SameField DEF Equal
  <2> QED
    BY <1>1, <1>2, <2>1, <2>4 DEF Equal
<1>5. Instead(ps) /\ UNCHANGED <<solved, sub, ctr, tails, failed>>
  BY DEF SameLabel, ps
<1>6. \A i \in DOMAIN ps : /\ FreeVariables(ps[i].l) \subseteq Known
                           /\ FreeVariables(ps[i].r) \subseteq Known
  BY <1>1, <1>2, <1>3
<1> QED
  BY <1>3, <1>4, <1>5, <1>6, Decompose

-----------------------------------------------------------------------------
(* The step that rejects a pair. *)
LEMMA RejectStep ==
  ASSUME IInv, todo # <<>>, Reject, Within',
         \/ \A g : Proper(g, Known) => ~Equal(g)
         \/ Row /\ IsVar(Left) /\ Left = Right
  PROVE  IInv'
<1>1. /\ solved' = solved /\ todo' = todo /\ sub' = sub /\ ctr' = ctr /\ tails' = tails
      /\ failed'
  BY DEF Reject
<1>2. Known' = Known /\ Left' = Left /\ Right' = Right /\ Row' = Row /\ Solutions' = Solutions
  BY <1>1 DEF Known, FreshVars, Left, Right, Row, Solutions, Solves
<1>3. TypeOK' /\ Acyclic' /\ Composed(sub)' /\ OnlyKnown'
  BY <1>1, <1>2 DEF IInv, TypeOK, Acyclic, OnlyKnown
<1>4. NothingLost'
  <2>1. \A g : Extended(g)' = Extended(g) /\ (Solves(g)' <=> Solves(g))
    BY <1>1 DEF Extended, Solves
  <2>2. \A g \in Valuations : Survives(g, Extended(g)) => Survives(g, Extended(g))'
    BY <1>1, <1>2, <2>1 DEF Survives
  <2> QED
    BY <2>1, <2>2 DEF IInv, NothingLost
<1>5. NothingAdded'
  BY <1>1 DEF IInv, NothingAdded, Solves
<1>6. RejectsUnsolvable'
  <2>1. CASE Row /\ IsVar(Left) /\ Left = Right
    BY <1>2, <2>1 DEF RejectsUnsolvable
  <2>2. CASE \A g : Proper(g, Known) => ~Equal(g)
    <3>1. ASSUME NEW g \in Solutions
          PROVE  FALSE
      <4>1. Survives(g, Extended(g))
        BY DEF IInv, NothingLost, Solutions
      <4>2. Meaning(Extended(g), todo[1].l) = Meaning(Extended(g), todo[1].r)
        BY <4>1, HeadFacts DEF Survives, SolvesPairs, HeadOK
      <4>3. Equal(Extended(g))
        BY <4>1, <4>2, HeadFacts DEF Survives, HeadOK
      <4> QED
        BY <2>2, <4>1, <4>3 DEF Survives
    <3>2. Solutions = {}
      BY <3>1
    <3> QED
      BY <1>2, <3>2 DEF RejectsUnsolvable
  <2> QED
    BY <2>1, <2>2
<1> QED
  BY <1>3, <1>4, <1>5, <1>6 DEF IInv

(* Different constructors never mean the same.                             *)
LEMMA ClashStep ==
  ASSUME IInv, todo # <<>>, Clash, Within'
  PROVE  IInv'
<1>1. HeadOK
  BY HeadFacts
<1>2. ASSUME NEW g, Proper(g, Known), Equal(g)
      PROVE  FALSE
  <2>1. CASE Row
    <3>1. /\ Left \in Rows /\ Right \in Rows /\ Left.f # Right.f
          /\ ~IsVar(Left) /\ ~IsVar(Right)
          /\ Proper(g, FreeVariables(Left)) /\ Proper(g, FreeVariables(Right))
      BY <1>1, <1>2, <2>1, ProperOnLess DEF HeadOK, Clash
    <3>2. /\ Left = EmptyRow \/ Left.f = "RowExt"
          /\ Right = EmptyRow \/ Right.f = "RowExt"
      BY <3>1, RowCases, VarShape, FieldedShape
    <3>3. ASSUME NEW t \in Rows, t.f = "RowExt", Proper(g, FreeVariables(t))
          PROVE  Meaning(g, t) # NoFields
      <4>1. t.l \in Labels /\ Meaning(g, t) = WithField(t.l, Meaning(g, t.a[1]), Meaning(g, t.a[2]))
        BY <3>3, FieldFacts
      <4>2. IsRow(Meaning(g, t.a[2]))
        BY <3>3, FieldProper
      <4> QED
        BY <4>1, <4>2, FieldIsNotNone
    <3>4. EmptyRow \in Rows => Meaning(g, EmptyRow) = NoFields
      BY MeaningOfEmptyRow DEF Terms
    <3> QED
      BY <1>2, <3>1, <3>2, <3>3, <3>4 DEF Equal
  <2>2. CASE ~Row
    <3>1. /\ Left \in Types /\ Right \in Types /\ ~IsVar(Left) /\ ~IsVar(Right) /\ ~SameHead
          /\ Left \in Terms /\ Right \in Terms
      BY <1>1, <2>2 DEF HeadOK, Clash
    <3>2. Left.f = Right.f /\ Left.l = Right.l /\ DOMAIN Left.a = DOMAIN Right.a
      BY <1>2, <3>1, SameConstructor DEF Equal
    <3>3. Left.a \in Seq(Terms) /\ Right.a \in Seq(Terms)
      BY <3>1, TermCases
    <3>4. Len(Left.a) = Len(Right.a)
      BY <3>2, <3>3
    <3> QED
      BY <3>1, <3>2, <3>4 DEF SameHead
  <2> QED
    BY <2>1, <2>2
<1>3. Reject
  BY DEF Clash
<1>4. \A g : Proper(g, Known) => ~Equal(g)
  BY <1>2
<1> QED
  BY <1>3, <1>4, RejectStep

-----------------------------------------------------------------------------
(* The step that binds a variable, and the occurs check. *)
LEMMA OccursStep ==
  ASSUME IInv, todo # <<>>, Reject, Within', Variable,
         NEW v, NEW t, v \in FreeVariables(t),
         \/ Left = Var(v) /\ t = Right /\ (Row \/ Left # Right)
         \/ Right = Var(v) /\ t = Left /\ ~IsVar(Left)
  PROVE  IInv'
<1>1. HeadOK
  BY HeadFacts
<1>2. Left \in Terms /\ Right \in Terms /\ t \in Terms /\ Var(v) \in Terms
  BY <1>1 DEF HeadOK
<1>3. CASE IsVar(t)
  <2>1. t = Var(t.l) /\ FreeVariables(t) = {t.l}
    BY <1>2, <1>3, TermCases, FreeOfVariable
  <2>2. t = Var(v)
    BY <2>1
  <2>3. Left = Right /\ Row /\ IsVar(Left)
    BY <1>3, <2>2
  <2> QED
    BY <2>3, RejectStep
<1>4. CASE ~IsVar(t)
  <2>1. ASSUME NEW g, Proper(g, Known), Equal(g)
        PROVE  FALSE
    <3>1. FreeVariables(t) \subseteq Known
      BY <1>1 DEF HeadOK
    <3>2. Proper(g, FreeVariables(t))
      BY <2>1, <3>1, ProperOnLess
    <3>3. g[v].size \in Nat /\ g[v].size < Meaning(g, t).size
      BY <1>2, <1>4, <3>2, VariablesSmaller
    <3>4. Meaning(g, Var(v)) = g[v]
      BY <1>2, VarShape, MeaningOfVariable
    <3>5. g[v] = Meaning(g, t)
      BY <2>1, <3>4 DEF Equal
    <3> QED
      BY <3>3, <3>5
  <2>2. \A g : Proper(g, Known) => ~Equal(g)
    BY <2>1
  <2> QED
    BY <2>2, RejectStep
<1> QED
  BY <1>3, <1>4

(* A variable that is bound: what is solved by the bindings and the pairs  *)
(* stays the same, as the pair says no more than the binding.              *)
LEMMA BindStep ==
  ASSUME IInv, todo # <<>>, ~failed, Within', NEW v, NEW t, v \notin FreeVariables(t),
         sub' = Append(sub, [v |-> v, t |-> t]),
         Instead(<<>>), UNCHANGED <<solved, ctr, tails, failed>>,
         \/ Left = Var(v) /\ t = Right
         \/ Right = Var(v) /\ t = Left
  PROVE  IInv'
<1> DEFINE b == [v |-> v, t |-> t]
<1>1. HeadOK
  BY HeadFacts
<1>2. Left \in Terms /\ Right \in Terms /\ t \in Terms /\ Var(v) \in Terms
  BY <1>1 DEF HeadOK
<1>3. b.v = v /\ b.t = t
  OBVIOUS
<1>4. b \in BindingSet
  <2>1. \/ Var(v) \in Rows /\ t \in Rows
        \/ Var(v) \in Types /\ t \in Types
    BY <1>1 DEF HeadOK
  <2>2. \/ v \in RowVars /\ t \in Rows
        \/ v \in TypeVars /\ t \in Types
    BY <2>1, VarShape, Sorts
  <2> QED
    BY <2>2 DEF BindingSet
<1>5. sub' = Append(sub, b) /\ sub \in Seq(BindingSet) /\ Composed(sub)
  BY DEF IInv, TypeOK
<1>6. FreeVariables(Var(v)) = {v}
  BY <1>2, VarShape, FreeOfVariable
<1>7. Bound = BoundBy(sub)
  BY DEF Bound, BoundBy
<1>8. /\ v \in Known /\ v \notin BoundBy(sub)
      /\ FreeVariables(t) \subseteq Known /\ FreeVariables(t) \cap BoundBy(sub) = {}
  BY <1>1, <1>6, <1>7 DEF HeadOK
<1> DEFINE n == Len(sub)
<1>9. /\ n \in Nat /\ DOMAIN sub = 1 .. n /\ DOMAIN sub' = 1 .. (n + 1)
      /\ sub'[n + 1] = b /\ \A i \in 1 .. n : sub'[i] = sub[i]
  <2> HIDE DEF b
  <2> QED
    BY <1>4, <1>5
<1> HIDE DEF b, n
<1>10. Composed(sub)'
  <2>1. Composed(Append(sub, b))
    BY <1>2, <1>3, <1>4, <1>5, <1>8, ComposedAppend
  <2> QED
    BY <1>5, <2>1
<1>11. \A g : Respects(g, sub') <=> Respects(g, sub) /\ g[v] = Meaning(g, t)
  BY <1>3, <1>9 DEF Respects
<1>12. \A g : Equal(g) <=> g[v] = Meaning(g, t)
  <2>1. \A g : Meaning(g, Var(v)) = g[v]
    BY <1>2, VarShape, MeaningOfVariable
  <2> QED
    BY <2>1 DEF Equal
<1>13. Replaced(todo, <<>>, todo')
  <2>1. <<>> \in Seq(Pairs) /\ todo \in Seq(Pairs)
    BY DEF IInv, TypeOK
  <2> QED
    BY <2>1, InsteadOfHead DEF Instead
<1>14. \A g : Respects(g, sub') /\ SolvesPairs(g, todo') <=> Respects(g, sub) /\ SolvesPairs(g, todo)
  <2> SUFFICES ASSUME NEW g, Respects(g, sub)
               PROVE  g[v] = Meaning(g, t) /\ SolvesPairs(g, todo') <=> SolvesPairs(g, todo)
    BY <1>11
  <2>1. g[v] = Meaning(g, t) <=> Meaning(g, todo[1].l) = Meaning(g, todo[1].r)
    BY <1>1, <1>12 DEF HeadOK
  <2>2. SolvesPairs(g, todo) <=>
          Meaning(g, todo[1].l) = Meaning(g, todo[1].r) /\ SolvesRest(g, todo)
    BY <1>1, HeadOrRest
  <2>3. DOMAIN <<>> = {}
    OBVIOUS
  <2>4. SolvesPairs(g, todo') <=> SolvesRest(g, todo)
    BY <1>13, <2>3 DEF Replaced, SolvesPairs
  <2> QED
    BY <2>1, <2>2, <2>4
<1>15. Known' = Known
  BY DEF Known, FreshVars
<1>16. TypeOK'
  <2>1. sub' \in Seq(BindingSet)
    BY <1>4, <1>5
  <2> QED
    BY <1>13, <2>1 DEF IInv, TypeOK, Replaced
<1>17. Acyclic'
  <2> SUFFICES ASSUME NEW i \in 1 .. (n + 1), NEW j \in 1 .. (n + 1), j <= i
               PROVE  /\ sub'[j].v \notin FreeVariables(sub'[i].t)
                      /\ sub'[j].v = sub'[i].v => i = j
    BY <1>9 DEF Acyclic
  <2>1. CASE i \in 1 .. n
    <3>1. j \in 1 .. n
      BY <1>9, <2>1
    <3>2. /\ sub[j].v \notin FreeVariables(sub[i].t)
          /\ sub[j].v = sub[i].v => i = j
      BY <1>9, <2>1, <3>1 DEF IInv, Acyclic
    <3> QED
      BY <1>9, <2>1, <3>1, <3>2
  <2>2. CASE i = n + 1 /\ j \in 1 .. n
    <3>1. sub[j].v \in BoundBy(sub) /\ sub'[j] = sub[j]
      BY <1>9, <2>2 DEF BoundBy
    <3> QED
      BY <1>3, <1>8, <1>9, <2>2, <3>1
  <2>3. CASE i = n + 1 /\ j = n + 1
    BY <1>3, <1>9, <2>3
  <2> QED
    BY <1>9, <2>1, <2>2, <2>3
<1>18. OnlyKnown'
  <2>1. BoundBy(sub') \subseteq Known /\ Mentions(sub') \subseteq Known
    <3>1. BoundBy(sub) \subseteq Known /\ Mentions(sub) \subseteq Known
      BY DEF IInv, OnlyKnown
    <3> QED
      BY <1>3, <1>8, <1>9, <3>1 DEF BoundBy, Mentions
  <2>2. DOMAIN <<>> = {}
    OBVIOUS
  <2>3. \A i \in DOMAIN todo' : /\ FreeVariables(todo'[i].l) \subseteq Known
                                /\ FreeVariables(todo'[i].r) \subseteq Known
    BY <1>13, <2>2 DEF IInv, OnlyKnown, Replaced
  <2> QED
    BY <1>15, <2>1, <2>3 DEF OnlyKnown
<1>19. NothingLost'
  <2>1. \A g : Extended(g)' = Extended(g) /\ (Solves(g)' <=> Solves(g))
    BY DEF Extended, Solves
  <2>2. \A g \in Valuations : Survives(g, Extended(g)) => Survives(g, Extended(g))'
    BY <1>14, <1>15, <2>1 DEF Survives
  <2> QED
    BY <2>1, <2>2 DEF IInv, NothingLost
<1>20. NothingAdded'
  <2>1. \A g : Solves(g)' <=> Solves(g)
    BY DEF Solves
  <2> QED
    BY <1>14, <2>1 DEF IInv, NothingAdded
<1>21. RejectsUnsolvable'
  BY DEF RejectsUnsolvable
<1> QED
  BY <1>10, <1>16, <1>17, <1>18, <1>19, <1>20, <1>21 DEF IInv

(* Either side can be the variable.                                        *)
LEMMA VariableStep ==
  ASSUME IInv, todo # <<>>, ~failed, Variable, Within'
  PROVE  IInv'
<1>1. HeadOK
  BY HeadFacts
<1>2. Left \in Terms /\ Right \in Terms
  BY <1>1 DEF HeadOK
<1>3. PICK v, t : /\ \/ Left = Var(v) /\ t = Right /\ (Row \/ Left # Right)
                     \/ Right = Var(v) /\ t = Left /\ ~IsVar(Left)
                  /\ Bind(v, t)
  BY <1>2, TermCases DEF Variable
<1>4. CASE v \in FreeVariables(t) /\ Reject
  BY <1>3, <1>4, OccursStep
<1>5. CASE v \notin FreeVariables(t)
  BY <1>3, <1>5, BindStep DEF Bind
<1> QED
  BY <1>3, <1>4, <1>5 DEF Bind

-----------------------------------------------------------------------------
(* The step that gives two rows a fresh tail. *)
LEMMA FreshIsNew ==
  ASSUME TypeOK, ctr < MaxFresh
  PROVE  NewTypeVar(ctr) \in RowVars /\ NewTypeVar(ctr) \notin Known /\ NewTypeVar(ctr) \notin EquationVars
<1>1. ctr \in 0 .. (MaxFresh - 1) /\ ctr \in Nat
  BY BoundsAssumption DEF TypeOK
<1>2. NewTypeVar(ctr) \in RowVars \ EquationVars
  BY <1>1, FreshAssumption
<1>3. ASSUME NEW i \in 0 .. (ctr - 1), NewTypeVar(i) = NewTypeVar(ctr)
      PROVE  FALSE
  <2>1. i \in 0 .. (MaxFresh - 1) /\ i # ctr
    BY <1>1, BoundsAssumption
  <2> QED
    BY <1>1, <1>3, <2>1, FreshAssumption
<1> QED
  BY <1>2, <1>3 DEF Known, FreshVars

(* The meaning of what is known depends on what is known.                  *)
LEMMA MeaningsOfKnown ==
  ASSUME NEW g, NEW h, \A v \in Known : h[v] = g[v],
         NEW t \in Terms, FreeVariables(t) \subseteq Known
  PROVE  Meaning(h, t) = Meaning(g, t)
BY MeaningsAgree

(* The parts of a row that is put together.                                *)
LEMMA RowExtShape ==
  \A l, t, r : LET u == RowExt(l, t, r)
               IN  u.f = "RowExt" /\ u.l = l /\ u.a[1] = t /\ u.a[2] = r
BY DEF RowExt

(* The row that unify_row makes of a field and the fresh tail.             *)
LEMMA FreshField ==
  ASSUME NEW l, NEW t, NEW v, RowExt(l, t, Var(v)) \in Terms
  PROVE  /\ RowExt(l, t, Var(v)) \in Rows /\ l \in Labels /\ t \in Types /\ v \in RowVars
         /\ FreeVariables(RowExt(l, t, Var(v))) = FreeVariables(t) \cup {v}
         /\ \A g : Meaning(g, RowExt(l, t, Var(v))) = WithField(l, Meaning(g, t), g[v])
<1> DEFINE u == RowExt(l, t, Var(v))
<1>1. u.f = "RowExt" /\ u.l = l /\ u.a[1] = t /\ u.a[2] = Var(v)
  BY RowExtShape
<1> HIDE DEF u
<1>2. u \in Terms
  BY DEF u
<1>3. u \in Rows
  BY <1>1, <1>2, Sorts, SortsAssumption DEF Terms
<1>4. /\ l \in Labels /\ t \in Types /\ Var(v) \in Rows
      /\ FreeVariables(u) = FreeVariables(t) \cup FreeVariables(Var(v))
      /\ \A g : Meaning(g, u) = WithField(l, Meaning(g, t), Meaning(g, Var(v)))
  BY <1>1, <1>3, FieldFacts
<1>5. Var(v) \in Terms /\ v \in RowVars
  BY <1>4, VarShape, Sorts DEF Terms
<1>6. FreeVariables(Var(v)) = {v} /\ \A g : Meaning(g, Var(v)) = g[v]
  BY <1>5, VarShape, FreeOfVariable, MeaningOfVariable
<1> QED
  BY <1>3, <1>4, <1>5, <1>6 DEF u

(* Two calls before the others.                                            *)
LEMMA TwoInFront ==
  ASSUME NEW A, NEW x \in A, NEW y \in A, NEW s \in Seq(A)
  PROVE  /\ <<x, y>> \in Seq(A)
         /\ LET r == <<x, y>> \o s
            IN  1 \in DOMAIN r /\ 2 \in DOMAIN r /\ r[1] = x /\ r[2] = y
OBVIOUS

(* Rows that start with different labels mean the same just if there is a  *)
(* tail that makes each of the rests the field of the other before it.     *)
LEMMA OtherLabelStep ==
  ASSUME IInv, todo # <<>>, ~failed, OtherLabel, Within'
  PROVE  IInv'
<1> DEFINE v == NewTypeVar(ctr)
           l == Left.l
           m == Right.l
           p == RowExt(m, Right.a[1], Var(v))
           q == RowExt(l, Left.a[1], Var(v))
           x == Pair(TRUE, Left.a[2], p)
           y == Pair(TRUE, Right.a[2], q)
           ps == <<x, y>>
           tail == [v |-> v, l |-> m, row |-> Left.a[2]]
<1>1. /\ HeadOK /\ Left \in Rows /\ Right \in Rows /\ Left.f = "RowExt" /\ Right.f = "RowExt"
      /\ FreeVariables(Left) \subseteq Known /\ FreeVariables(Right) \subseteq Known
      /\ l # m
  BY HeadFacts DEF HeadOK, OtherLabel
<1>2. /\ todo' = ps \o Tail(todo) /\ tails' = Append(tails, tail)
      /\ ctr < MaxFresh /\ ctr' = ctr + 1 /\ solved' = solved /\ sub' = sub /\ failed' = failed
  BY DEF OtherLabel, Instead
<1>3. /\ TypeOK /\ todo \in Seq(Pairs) /\ sub \in Seq(BindingSet) /\ Composed(sub)
      /\ tails \in Seq([v : RowVars, l : Labels, row : Rows]) /\ ctr \in 0 .. MaxFresh
  BY DEF IInv, TypeOK
<1>4. v \in RowVars /\ v \notin Known /\ v \notin EquationVars
  BY <1>2, <1>3, FreshIsNew
<1>5. /\ Left.a[1] \in Types /\ Left.a[2] \in Rows /\ l \in Labels
      /\ Right.a[1] \in Types /\ Right.a[2] \in Rows /\ m \in Labels
      /\ FreeVariables(Left) = FreeVariables(Left.a[1]) \cup FreeVariables(Left.a[2])
      /\ FreeVariables(Right) = FreeVariables(Right.a[1]) \cup FreeVariables(Right.a[2])
      /\ \A g : Meaning(g, Left) = WithField(l, Meaning(g, Left.a[1]), Meaning(g, Left.a[2]))
      /\ \A g : Meaning(g, Right) = WithField(m, Meaning(g, Right.a[1]), Meaning(g, Right.a[2]))
  BY <1>1, FieldFacts
<1> HIDE DEF v, p, q, l, m
<1>6. /\ DOMAIN ps = {1, 2}
      /\ ps[1].l = Left.a[2] /\ ps[1].r = p /\ ps[2].l = Right.a[2] /\ ps[2].r = q
  BY DEF Pair
<1>7. p \in Terms /\ q \in Terms
  <2>1. 1 \in DOMAIN todo' /\ 2 \in DOMAIN todo' /\ todo'[1] = ps[1] /\ todo'[2] = ps[2]
    <3> DEFINE A == Pairs \cup {x, y}
    <3>1. x \in A /\ y \in A /\ Pairs \subseteq A
      OBVIOUS
    <3> HIDE DEF x, y, A
    <3>2. Tail(todo) \in Seq(Pairs)
      BY <1>3
    <3>3. Tail(todo) \in Seq(A)
      BY <3>1, <3>2
    <3>4. ps[1] = x /\ ps[2] = y
      OBVIOUS
    <3> QED
      BY <1>2, <3>1, <3>3, <3>4, TwoInFront
  <2>2. Apply(p, sub) \in Terms /\ Apply(q, sub) \in Terms
    BY <1>2, <1>6, <2>1 DEF Within
  <2> QED
    BY <1>3, <2>2 DEF Composed, Leaves
<1>8. /\ p \in Rows /\ q \in Rows
      /\ FreeVariables(p) = FreeVariables(Right.a[1]) \cup {v}
      /\ FreeVariables(q) = FreeVariables(Left.a[1]) \cup {v}
      /\ \A g : Meaning(g, p) = WithField(m, Meaning(g, Right.a[1]), g[v])
      /\ \A g : Meaning(g, q) = WithField(l, Meaning(g, Left.a[1]), g[v])
  BY <1>7, FreshField DEF p, q
<1>9. ps \in Seq(Pairs)
  <2>1. x \in Pairs /\ y \in Pairs
    BY <1>5, <1>8 DEF Pair, Pairs
  <2> HIDE DEF x, y
  <2>2. <<>> \in Seq(Pairs)
    OBVIOUS
  <2> QED
    BY <2>1, <2>2, TwoInFront
<1> HIDE DEF ps
<1>10. Replaced(todo, ps, todo')
  BY <1>2, <1>3, <1>9, InsteadOfHead
<1>11. tail \in [v : RowVars, l : Labels, row : Rows]
       /\ tail.v = v /\ tail.l = m /\ tail.row = Left.a[2]
  BY <1>4, <1>5
<1> HIDE DEF tail
<1>12. Known' = Known \cup {v}
  <2>1. 0 .. (ctr' - 1) = 0 .. (ctr - 1) \cup {ctr}
    BY <1>2, <1>3
  <2>2. FreshVars' = FreshVars \cup {v}
    BY <2>1 DEF FreshVars, v
  <2> QED
    BY <2>2 DEF Known
<1>13. TypeOK'
  <2>1. tails' \in Seq([v : RowVars, l : Labels, row : Rows])
    BY <1>2, <1>3, <1>11
  <2>2. ctr' \in 0 .. MaxFresh
    BY <1>2, <1>3, BoundsAssumption
  <2> QED
    BY <1>2, <1>3, <1>10, <2>1, <2>2 DEF TypeOK, Replaced
<1>14. Acyclic' /\ Composed(sub)' /\ RejectsUnsolvable'
  BY <1>2 DEF IInv, Acyclic, RejectsUnsolvable
<1>15. OnlyKnown'
  <2>1. \A i \in DOMAIN ps : /\ FreeVariables(ps[i].l) \subseteq Known \cup {v}
                             /\ FreeVariables(ps[i].r) \subseteq Known \cup {v}
    BY <1>1, <1>5, <1>6, <1>8
  <2> QED
    BY <1>2, <1>10, <1>12, <2>1 DEF IInv, OnlyKnown, Replaced
<1>16. \A g : SolvesPairs(g, ps) <=> /\ Meaning(g, Left.a[2]) = Meaning(g, p)
                                     /\ Meaning(g, Right.a[2]) = Meaning(g, q)
  BY <1>6 DEF SolvesPairs
<1>17. ASSUME NEW g, Proper(g, Known)
       PROVE  /\ Meaning(g, Left.a[1]).size \in Nat /\ Meaning(g, Right.a[1]).size \in Nat
              /\ Finite(Meaning(g, Left.a[2])) /\ IsRow(Meaning(g, Left.a[2]))
              /\ IsRow(Meaning(g, Right.a[2]))
  <2>1. Proper(g, FreeVariables(Left)) /\ Proper(g, FreeVariables(Right))
    BY <1>1, <1>17, ProperOnLess
  <2> QED
    BY <1>1, <2>1, FieldProper
<1>18. NothingLost'
  <2> SUFFICES ASSUME NEW g \in Valuations, Solves(g)'
               PROVE  Survives(g, Extended(g))'
    BY DEF NothingLost
  <2> DEFINE e == Extended(g)
             h == Extended(g)'
  <2>1. Survives(g, e)
    BY <1>2 DEF IInv, NothingLost, Solves
  <2>2. h = ExtendedBy(e, tail)
    BY <1>2, <1>3, <1>11, Tails!FoldAppend DEF Extended
  <2> HIDE DEF e, h
  <2>3. /\ DOMAIN h = DOMAIN e \cup {v}
        /\ h[v] = Without(m, Meaning(e, Left.a[2]))
        /\ \A w \in DOMAIN e : w # v => h[w] = e[w]
    BY <1>11, <2>2 DEF ExtendedBy
  <2>4. \A w \in Known : h[w] = e[w]
    BY <1>4, <2>1, <2>3 DEF Survives
  <2>5. Proper(e, Known) /\ Known \subseteq DOMAIN e
    BY <2>1 DEF Survives
  <2>6. Proper(h, Known \cup {v})
    <3>1. Finite(h[v])
      BY <1>5, <1>17, <2>3, <2>5, FiniteIs
    <3>2. v \notin TypeVars
      BY <1>4, SortsAssumption
    <3> QED
      BY <2>4, <2>5, <3>1, <3>2 DEF Proper
  <2>7. Respects(h, sub)
    <3>1. \A i \in DOMAIN sub : /\ sub[i].v \in Known /\ sub[i].t \in Terms
                                /\ FreeVariables(sub[i].t) \subseteq Known
      <4>1. \A i \in DOMAIN sub : sub[i].t \in Terms
        BY <1>3 DEF BindingSet, Terms
      <4> QED
        BY <4>1 DEF IInv, OnlyKnown, BoundBy, Mentions
    <3>2. \A i \in DOMAIN sub : Meaning(h, sub[i].t) = Meaning(e, sub[i].t)
      BY <2>4, <3>1, MeaningsOfKnown
    <3> QED
      BY <2>1, <2>4, <3>1, <3>2 DEF Survives, Respects
  <2>8. SolvesRest(h, todo)
    <3>1. \A j \in DOMAIN todo : /\ todo[j].l \in Terms /\ todo[j].r \in Terms
                                 /\ FreeVariables(todo[j].l) \subseteq Known
                                 /\ FreeVariables(todo[j].r) \subseteq Known
      <4>1. \A j \in DOMAIN todo : todo[j].l \in Terms /\ todo[j].r \in Terms
        <5>1. \A j \in DOMAIN todo : todo[j] \in Pairs
          BY <1>3
        <5>2. \A pair \in Pairs : pair.l \in Terms /\ pair.r \in Terms
          BY DEF Pairs, Terms
        <5> QED
          BY <5>1, <5>2
      <4> QED
        BY <4>1 DEF IInv, OnlyKnown
    <3>2. \A j \in DOMAIN todo : /\ Meaning(h, todo[j].l) = Meaning(e, todo[j].l)
                                 /\ Meaning(h, todo[j].r) = Meaning(e, todo[j].r)
      BY <2>4, <3>1, MeaningsOfKnown
    <3> QED
      BY <2>1, <3>2 DEF Survives, SolvesPairs, SolvesRest, Rest
  <2>9. SolvesPairs(h, ps)
    <3>1. Equal(e)
      <4>1. Meaning(e, todo[1].l) = Meaning(e, todo[1].r) /\ Respects(e, sub)
        BY <1>1, <2>1 DEF Survives, SolvesPairs, HeadOK
      <4> QED
        BY <1>1, <4>1 DEF HeadOK
    <3>2. WithField(l, Meaning(e, Left.a[1]), Meaning(e, Left.a[2]))
            = WithField(m, Meaning(e, Right.a[1]), Meaning(e, Right.a[2]))
      BY <1>5, <3>1 DEF Equal
    <3>3. /\ Meaning(e, Left.a[2]) = WithField(m, Meaning(e, Right.a[1]), h[v])
          /\ Meaning(e, Right.a[2]) = WithField(l, Meaning(e, Left.a[1]), h[v])
      BY <1>1, <1>5, <1>17, <2>3, <2>5, <3>2, CommonTail
    <3>4. /\ Left.a[1] \in Terms /\ Left.a[2] \in Terms
          /\ Right.a[1] \in Terms /\ Right.a[2] \in Terms
      BY <1>5 DEF Terms
    <3>5. /\ FreeVariables(Left.a[1]) \subseteq Known /\ FreeVariables(Left.a[2]) \subseteq Known
          /\ FreeVariables(Right.a[1]) \subseteq Known /\ FreeVariables(Right.a[2]) \subseteq Known
      BY <1>1, <1>5
    <3>6. /\ Meaning(h, Left.a[1]) = Meaning(e, Left.a[1])
          /\ Meaning(h, Left.a[2]) = Meaning(e, Left.a[2])
          /\ Meaning(h, Right.a[1]) = Meaning(e, Right.a[1])
          /\ Meaning(h, Right.a[2]) = Meaning(e, Right.a[2])
      BY <2>4, <3>4, <3>5, MeaningsOfKnown
    <3> QED
      BY <1>8, <1>16, <3>3, <3>6
  <2>10. SolvesPairs(h, todo')
    BY <1>10, <2>8, <2>9 DEF Replaced
  <2>11. \A w \in EquationVars : h[w] = g[w]
    BY <2>1, <2>4 DEF Survives, Known
  <2>12. Known' \subseteq DOMAIN h /\ Proper(h, Known')
    BY <1>12, <2>3, <2>5, <2>6
  <2>13. Respects(h, sub')
    BY <1>2, <2>7
  <2> QED
    BY <2>10, <2>11, <2>12, <2>13 DEF Survives, h
<1>19. NothingAdded'
  <2> SUFFICES ASSUME NEW g, Proper(g, TypeVars \cup RowVars), Respects(g, sub'),
                      SolvesPairs(g, todo')
               PROVE  Solves(g)'
    BY DEF NothingAdded
  <2>1. SolvesPairs(g, ps) /\ SolvesRest(g, todo) /\ Respects(g, sub)
    BY <1>2, <1>10 DEF Replaced
  <2>2. Proper(g, Known) /\ IsRow(g[v])
    BY <1>3, <1>4, KnownAreVariables, ProperOnLess, FiniteIs DEF Proper
  <2>3. /\ Meaning(g, Left) = WithField(l, Meaning(g, Left.a[1]),
                                WithField(m, Meaning(g, Right.a[1]), g[v]))
        /\ Meaning(g, Right) = WithField(m, Meaning(g, Right.a[1]),
                                 WithField(l, Meaning(g, Left.a[1]), g[v]))
    BY <1>5, <1>8, <1>16, <2>1
  <2>4. Equal(g)
    BY <1>1, <1>5, <1>17, <2>2, <2>3, FieldsCommute DEF Equal
  <2>5. SolvesPairs(g, todo)
    BY <1>1, <2>1, <2>4, HeadOrRest DEF HeadOK
  <2>6. Solves(g)
    BY <2>1, <2>5 DEF IInv, NothingAdded
  <2> QED
    BY <1>2, <2>6 DEF Solves
<1> QED
  BY <1>13, <1>14, <1>15, <1>18, <1>19 DEF IInv

-----------------------------------------------------------------------------
(* The step that takes up an equation. *)
LEMMA EquateStep ==
  ASSUME IInv, NEW e \in TypePairs, Equate(e), Within'
  PROVE  IInv'
<1> DEFINE p == Pair(FALSE, e[1], e[2])
           n == Len(solved)
<1>1. /\ todo = <<>> /\ solved' = Append(solved, e) /\ todo' = <<p>> /\ ~failed
      /\ sub' = sub /\ ctr' = ctr /\ tails' = tails /\ failed' = failed
  BY DEF Equate
<1>2. /\ e[1] \in Types /\ e[2] \in Types /\ e[1] \in Terms /\ e[2] \in Terms
      /\ FreeVariables(e[1]) \subseteq EquationVars /\ FreeVariables(e[2]) \subseteq EquationVars
  BY FreeOfEquation
<1>3. p \in Pairs /\ p.l = e[1] /\ p.r = e[2]
  BY <1>2 DEF Pair, Pairs
<1> HIDE DEF p
<1>4. todo' \in Seq(Pairs) /\ DOMAIN todo' = {1} /\ todo'[1] = p
  BY <1>1, <1>3
<1>5. solved \in Seq(TypePairs)
  BY DEF IInv, TypeOK
<1>6. /\ solved' \in Seq(TypePairs) /\ DOMAIN solved' = DOMAIN solved \cup {n + 1}
      /\ solved'[n + 1] = e /\ \A i \in DOMAIN solved : solved'[i] = solved[i]
  BY <1>1, <1>5
<1>7. Known' = Known
  BY <1>1 DEF Known, FreshVars
<1>8. TypeOK'
  BY <1>1, <1>4, <1>6 DEF IInv, TypeOK
<1>9. Acyclic' /\ Composed(sub)' /\ RejectsUnsolvable'
  BY <1>1 DEF IInv, Acyclic, RejectsUnsolvable
<1>10. OnlyKnown'
  BY <1>1, <1>2, <1>3, <1>4, <1>7 DEF IInv, OnlyKnown, Known
<1>11. \A g : SolvesPairs(g, todo') <=> Meaning(g, e[1]) = Meaning(g, e[2])
  BY <1>3, <1>4 DEF SolvesPairs
<1>12. \A g : Solves(g)' <=> Solves(g) /\ Meaning(g, e[1]) = Meaning(g, e[2])
  BY <1>6 DEF Solves
<1>13. NothingLost'
  <2> SUFFICES ASSUME NEW g \in Valuations, Solves(g)'
               PROVE  Survives(g, Extended(g))'
    BY DEF NothingLost
  <2>1. Extended(g)' = Extended(g)
    BY <1>1 DEF Extended
  <2>2. Solves(g) /\ Meaning(g, e[1]) = Meaning(g, e[2])
    BY <1>12
  <2>3. Survives(g, Extended(g))
    BY <2>2 DEF IInv, NothingLost
  <2>4. \A v \in EquationVars : Extended(g)[v] = g[v]
    BY <2>3 DEF Survives
  <2>5. /\ Meaning(Extended(g), e[1]) = Meaning(g, e[1])
        /\ Meaning(Extended(g), e[2]) = Meaning(g, e[2])
    BY <1>2, <2>4, MeaningsAgree
  <2>6. SolvesPairs(Extended(g), todo')
    BY <1>11, <2>2, <2>5
  <2> QED
    BY <1>1, <1>7, <2>1, <2>3, <2>6 DEF Survives
<1>14. NothingAdded'
  <2> SUFFICES ASSUME NEW g, Proper(g, TypeVars \cup RowVars), Respects(g, sub'),
                      SolvesPairs(g, todo')
               PROVE  Solves(g)'
    BY DEF NothingAdded
  <2>1. DOMAIN todo = {}
    BY <1>1
  <2>2. SolvesPairs(g, todo)
    BY <2>1 DEF SolvesPairs
  <2>3. Solves(g)
    BY <1>1, <2>2 DEF IInv, NothingAdded
  <2> QED
    BY <1>11, <1>12, <2>3
<1> QED
  BY <1>8, <1>9, <1>10, <1>13, <1>14 DEF IInv

(* It holds in the beginning ...                                           *)
LEMMA InitIInv == Init => IInv
<1> SUFFICES ASSUME Init
             PROVE  IInv
  OBVIOUS
<1>1. solved = <<>> /\ todo = <<>> /\ sub = <<>> /\ ctr = 0 /\ tails = <<>> /\ failed = FALSE
  BY DEF Init
<1>2. DOMAIN solved = {} /\ DOMAIN todo = {} /\ DOMAIN sub = {}
  BY <1>1
<1>3. TypeOK
  <2>1. \A A : <<>> \in Seq(A)
    OBVIOUS
  <2>2. 0 \in 0 .. MaxFresh
    BY BoundsAssumption
  <2> QED
    BY <1>1, <2>1, <2>2 DEF TypeOK
<1>4. Within /\ Acyclic /\ RejectsUnsolvable
  BY <1>1, <1>2 DEF Within, Acyclic, RejectsUnsolvable
<1>5. Composed(sub)
  BY <1>1, ComposedEmpty
<1>6. OnlyKnown
  BY <1>2 DEF OnlyKnown, BoundBy, Mentions
<1>7. Known = EquationVars
  BY <1>1 DEF Known, FreshVars
<1>8. NothingLost
  <2> SUFFICES ASSUME NEW g \in Valuations
               PROVE  Survives(g, Extended(g))
    BY DEF NothingLost
  <2>1. Extended(g) = g
    BY <1>1, Tails!FoldEmpty DEF Extended
  <2>2. DOMAIN g = EquationVars /\ Proper(g, EquationVars)
    BY ValuationsAreProper
  <2> QED
    BY <1>2, <1>7, <2>1, <2>2 DEF Survives, Respects, SolvesPairs
<1>9. NothingAdded
  BY <1>2 DEF NothingAdded, Solves
<1> QED
  BY <1>3, <1>4, <1>5, <1>6, <1>8, <1>9 DEF IInv

(* ... and every call of unify and unify_row keeps it.                     *)
LEMMA NextIInv == IInv /\ [Next]_vars => IInv'
<1> SUFFICES ASSUME IInv, [Next]_vars
             PROVE  IInv'
  OBVIOUS
<1>1. CASE (\E e \in Equations : Equate(e)) /\ Within'
  BY <1>1, EquateStep, EquationsAssumption
<1>2. CASE Unify /\ Within'
  <2>1. todo # <<>> /\ ~failed
    BY <1>2 DEF Unify
  <2>2. CASE Identical
    BY <1>2, <2>1, <2>2, IdenticalStep
  <2>3. CASE Variable
    BY <1>2, <2>1, <2>3, VariableStep
  <2>4. CASE Clash
    BY <1>2, <2>1, <2>4, ClashStep
  <2>5. CASE Arguments
    BY <1>2, <2>1, <2>5, ArgumentsStep
  <2>6. CASE Records
    BY <1>2, <2>1, <2>6, RecordsStep
  <2>7. CASE EmptyRows
    BY <1>2, <2>1, <2>7, EmptyRowsStep
  <2>8. CASE SameLabel
    BY <1>2, <2>1, <2>8, SameLabelStep
  <2>9. CASE OtherLabel
    BY <1>2, <2>1, <2>9, OtherLabelStep
  <2> QED
    BY <1>2, <2>2, <2>3, <2>4, <2>5, <2>6, <2>7, <2>8, <2>9 DEF Unify
<1>3. CASE UNCHANGED vars
  <2>1. /\ solved' = solved /\ todo' = todo /\ sub' = sub /\ ctr' = ctr /\ tails' = tails
        /\ failed' = failed
    BY <1>3 DEF vars
  <2>2. Known' = Known /\ Left' = Left /\ Right' = Right /\ Row' = Row /\ Solutions' = Solutions
    BY <2>1 DEF Known, FreshVars, Left, Right, Row, Solutions, Solves
  <2>3. TypeOK' /\ Within' /\ Acyclic' /\ Composed(sub)' /\ OnlyKnown' /\ RejectsUnsolvable'
    BY <2>1, <2>2 DEF IInv, TypeOK, Within, Acyclic, OnlyKnown, RejectsUnsolvable
  <2>4. \A g : Extended(g)' = Extended(g) /\ (Solves(g)' <=> Solves(g))
    BY <2>1 DEF Extended, Solves
  <2>5. NothingLost'
    BY <2>1, <2>2, <2>4 DEF IInv, NothingLost, Survives
  <2>6. NothingAdded'
    BY <2>1, <2>4 DEF IInv, NothingAdded
  <2> QED
    BY <2>3, <2>5, <2>6 DEF IInv
<1> QED
  BY <1>1, <1>2, <1>3 DEF Next

(* The inductive invariant holds in every state, for any equations,        *)
(* valuations, constructors and labels, and any bounds: at every call the  *)
(* bindings and the pairs that remain say exactly what the equations say.  *)
THEOREM Invariance == Spec => []IInv
BY InitIInv, NextIInv, PTL DEF Spec

-----------------------------------------------------------------------------
(* unify gets types and unify_row gets rows, and a row variable is bound   *)
(* to a row (unify, unify_row, types.rs 405-508).                          *)
THEOREM TypeCorrect == Spec => []TypeOK
BY Invariance, PTL DEF IInv

(* The occurs check works: substitutions are acyclic, so apply returns     *)
(* (types.rs 91-101).                                                      *)
THEOREM NoCycle == Spec => []Acyclic
BY Invariance, PTL DEF IInv

(* A solution of the equations respects the bindings.                      *)
LEMMA IInvMostGeneral ==
  ASSUME IInv
  PROVE  MostGeneral
<1> SUFFICES ASSUME NEW g \in Solutions
             PROVE  \A i \in DOMAIN sub : Extended(g)[sub[i].v] = Meaning(Extended(g), sub[i].t)
  BY DEF MostGeneral
<1>1. Survives(g, Extended(g))
  BY DEF IInv, NothingLost, Solutions
<1> QED
  BY <1>1 DEF Survives, Respects

(* Unification decides nothing that the equations leave open: its          *)
(* substitution is most general, the fresh tails of rows included.         *)
THEOREM NothingMore == Spec => []MostGeneral
BY Invariance, IInvMostGeneral, PTL

(* What unify and unify_row reject has no solution, with the exception of  *)
(* a row variable and itself (types.rs 469).                               *)
THEOREM NothingSolvable == Spec => []RejectsUnsolvable
BY Invariance, PTL DEF IInv

(* A valuation of the variables that are left is one of all variables, the *)
(* others of which have no fields.                                         *)
LEMMA Completed ==
  ASSUME NEW f, Proper(f, DOMAIN f)
  PROVE  \E g : /\ Proper(g, TypeVars \cup RowVars)
                /\ \A v \in (TypeVars \cup RowVars) \cap DOMAIN f : g[v] = f[v]
<1> DEFINE V == TypeVars \cup RowVars
           g == [v \in V |-> IF v \in DOMAIN f THEN f[v] ELSE NoFields]
<1>1. Finite(NoFields) /\ NoFields.size \in Nat
  BY NoFieldsFinite, FiniteIs
<1>2. \A v \in V : g[v] = IF v \in DOMAIN f THEN f[v] ELSE NoFields
  OBVIOUS
<1> HIDE DEF g
<1>3. Proper(g, V)
  BY <1>1, <1>2 DEF Proper
<1> QED
  BY <1>2, <1>3

(* When no call remains every valuation of the variables that are left     *)
(* makes both sides of every equation equal.                               *)
LEMMA IInvSound ==
  ASSUME IInv
  PROVE  Sound
<1> SUFFICES ASSUME Idle, NEW g \in Valuations, NEW h \in [FreshVars \ Bound -> GroundRows],
                    NEW i \in DOMAIN solved
             PROVE  Meaning(Under(g, h), Apply(solved[i][1], sub))
                      = Meaning(Under(g, h), Apply(solved[i][2], sub))
  BY DEF Sound
<1> DEFINE f == Under(g, h)
           l == solved[i][1]
           r == solved[i][2]
<1>1. TypeOK /\ Composed(sub) /\ OnlyKnown /\ NothingAdded /\ Within
  BY DEF IInv
<1>2. DOMAIN g = EquationVars /\ Proper(g, EquationVars) /\ DOMAIN h = FreshVars \ Bound
  BY ValuationsAreProper
<1>3. /\ DOMAIN f = EquationVars \cup (FreshVars \ Bound)
      /\ \A v \in EquationVars : f[v] = g[v]
      /\ \A v \in (FreshVars \ Bound) \ EquationVars : f[v] = h[v]
  BY <1>2 DEF Under
<1> HIDE DEF f
<1>4. FreshVars \subseteq RowVars
  BY <1>1, FreshAssumption, BoundsAssumption DEF FreshVars, TypeOK
<1>5. Proper(f, DOMAIN f)
  <2>1. \A v \in FreshVars \ Bound : Finite(h[v])
    BY RowsAssumption DEF Finite
  <2> QED
    BY <1>2, <1>3, <1>4, <2>1, SortsAssumption DEF Proper
<1>6. PICK c : /\ Proper(c, TypeVars \cup RowVars)
               /\ \A v \in (TypeVars \cup RowVars) \cap DOMAIN f : c[v] = f[v]
  BY <1>5, Completed
<1>7. PICK d : /\ Proper(d, TypeVars \cup RowVars) /\ Respects(d, sub)
               /\ \A t \in Terms : Apply(t, sub) \in Terms =>
                     Meaning(d, t) = Meaning(c, Apply(t, sub))
  BY <1>1, <1>6 DEF Composed, Refines
<1>8. SolvesPairs(d, todo)
  <2>1. DOMAIN todo = {}
    BY DEF Idle
  <2> QED
    BY <2>1 DEF SolvesPairs
<1>9. Meaning(d, l) = Meaning(d, r)
  BY <1>1, <1>7, <1>8 DEF NothingAdded, Solves
<1>10. /\ l \in Terms /\ r \in Terms
       /\ FreeVariables(l) \subseteq EquationVars /\ FreeVariables(r) \subseteq EquationVars
  <2>1. solved[i] \in TypePairs
    BY <1>1 DEF TypeOK
  <2> QED
    BY <2>1, FreeOfEquation
<1>11. Apply(l, sub) \in Terms /\ Apply(r, sub) \in Terms
  BY <1>1 DEF Within
<1> HIDE DEF l, r
<1>12. Meaning(c, Apply(l, sub)) = Meaning(c, Apply(r, sub))
  BY <1>7, <1>9, <1>10, <1>11
<1>13. Bound = BoundBy(sub)
  BY DEF Bound, BoundBy
<1>14. ASSUME NEW t \in Terms, FreeVariables(t) \subseteq EquationVars, Apply(t, sub) \in Terms
       PROVE  Meaning(c, Apply(t, sub)) = Meaning(f, Apply(t, sub))
  <2>1. FreeVariables(Apply(t, sub)) \subseteq (FreeVariables(t) \cup Mentions(sub)) \ BoundBy(sub)
    BY <1>1, <1>14 DEF Composed, Removes
  <2>2. Mentions(sub) \subseteq EquationVars \cup FreshVars
    BY <1>1 DEF OnlyKnown, Known
  <2>3. FreeVariables(Apply(t, sub)) \subseteq DOMAIN f
    BY <1>3, <1>13, <1>14, <2>1, <2>2
  <2>4. FreeVariables(Apply(t, sub)) \subseteq TypeVars \cup RowVars
    BY <1>14, FreeAreVariables
  <2>5. \A v \in FreeVariables(Apply(t, sub)) : c[v] = f[v]
    BY <1>6, <2>3, <2>4
  <2> QED
    BY <1>14, <2>5, MeaningsAgree
<1>15. Meaning(f, Apply(l, sub)) = Meaning(f, Apply(r, sub))
  BY <1>10, <1>11, <1>12, <1>14
<1> QED
  BY <1>15 DEF f, l, r

(* The substitution of a run solves all of its equations, also the earlier *)
(* ones (Substitution::combine, types.rs 257-267).                         *)
THEOREM Soundness == Spec => []Sound
BY Invariance, IInvSound, PTL
=============================================================================
