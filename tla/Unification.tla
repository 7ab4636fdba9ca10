---------------------------- MODULE Unification ----------------------------
(***************************************************************************)
(* A run of unifications as Algorithm W performs them (types.rs): every    *)
(* equation is solved under the substitution of the equations before it,   *)
(* and its substitution is combined with that one.                         *)
(*                                                                         *)
(* unify and unify_row are recursive functions that return a substitution, *)
(* applied by the caller to what it unifies next and combined with its     *)
(* own.  Here their recursion is a list of pairs still to be unified, in   *)
(* the order of the calls, and the substitutions one list of bindings, in  *)
(* the order in which they are made: every step is one call, without the   *)
(* calls it makes.  MCUnification checks that the result is that of the    *)
(* recursive functions and of Substitution::combine.                       *)
(***************************************************************************)
EXTENDS TypeMeaning

CONSTANTS
  EquationVars,  \* the variables of the types that are unified
  Equations,     \* the pairs of types that may have to be equal
  MaxEquations,  \* bound: how many of them one run solves
  MaxFresh,      \* bound: how many fresh row variables it allocates
  NewTypeVar(_),    \* NewTypeVar(n): the n-th of them, TypeContext::new_typevar
  Valuations,    \* functions from the equations' variables to meanings
  GroundRows     \* the rows among the meanings

(* Pairs of types in these variables *)
TypePairs ==
  {e \in Types \X Types :
     FreeVariables(e[1]) \subseteq EquationVars /\ FreeVariables(e[2]) \subseteq EquationVars}

ASSUME BoundsAssumption == MaxEquations \in Nat /\ MaxFresh \in Nat
ASSUME EquationsAssumption == Equations \subseteq TypePairs
ASSUME VariablesAssumption == EquationVars \subseteq TypeVars \cup RowVars
(* new_typevar never gives a name out twice.                               *)
ASSUME FreshAssumption ==
  \A i \in 0 .. (MaxFresh - 1) :
     /\ NewTypeVar(i) \in RowVars \ EquationVars
     /\ \A j \in 0 .. (MaxFresh - 1) : NewTypeVar(i) = NewTypeVar(j) => i = j
(* Meanings are finite, and there is one for every tail of a row.          *)
ASSUME RowsAssumption == FiniteRows(GroundRows)
ASSUME ValuationsAssumption ==
  \A g \in Valuations :
     /\ DOMAIN g = EquationVars
     /\ \A v \in EquationVars \cap TypeVars : g[v].size \in Nat
     /\ \A v \in EquationVars \cap RowVars : g[v] \in GroundRows

VARIABLES
  solved,  \* the equations so far, the one being solved or rejected included
  todo,    \* the pairs that are still to be unified, the next one first
  sub,     \* the substitution: its bindings in the order they were made
  ctr,     \* TypeContext::type_var_ctr
  tails,   \* auxiliary: what each fresh row variable stands for
  failed   \* the next pair was rejected: inference stops

vars == <<solved, todo, sub, ctr, tails, failed>>

Init ==
  /\ solved = <<>>
  /\ todo = <<>>
  /\ sub = <<>>
  /\ ctr = 0
  /\ tails = <<>>
  /\ failed = FALSE

(* A call of unify, or of unify_row *)
Pair(row, l, r) == [row |-> row, l |-> l, r |-> r]

(* The bound MaxDepth: no type of the run outgrows it.  A run that would   *)
(* do so, or that has used its MaxFresh variables, stops where it is; so   *)
(* does the one on which unify_row never returns, two records with the     *)
(* same row variable after different labels.                               *)
Within ==
  /\ \A i \in DOMAIN todo : Apply(todo[i].l, sub) \in Terms /\ Apply(todo[i].r, sub) \in Terms
  /\ \A i \in DOMAIN solved :
       Apply(solved[i][1], sub) \in Terms /\ Apply(solved[i][2], sub) \in Terms

(* Algorithm W asks for one more unification. *)
Equate(e) ==
  /\ ~failed /\ todo = <<>>
  /\ Len(solved) < MaxEquations
  /\ solved' = Append(solved, e)
  /\ todo' = <<Pair(FALSE, e[1], e[2])>>
  /\ UNCHANGED <<sub, ctr, tails, failed>>

(* The pair of the next call, under the bindings made so far *)
Row == Head(todo).row
Left == Apply(Head(todo).l, sub)
Right == Apply(Head(todo).r, sub)

(* The calls that this one makes, in their order *)
Instead(pairs) == todo' = pairs \o Tail(todo)

(* Err(UnificationError): nothing is unified any more. *)
Reject ==
  /\ failed' = TRUE
  /\ UNCHANGED <<solved, todo, sub, ctr, tails>>

(* unify, of a variable and itself; unify_row has no such case. *)
Identical ==
  /\ ~Row /\ IsVar(Left) /\ Left = Right
  /\ Instead(<<>>)
  /\ UNCHANGED <<solved, sub, ctr, tails, failed>>

(* A defect: no occurs check. *)
BindUnchecked(v, t) ==
  /\ sub' = Append(sub, [v |-> v, t |-> t])
  /\ Instead(<<>>)
  /\ UNCHANGED <<solved, ctr, tails, failed>>

(* unify and unify_row, of a variable and something else: it is bound,     *)
(* unless it occurs there ("Infinite recursive type").                     *)
Bind(v, t) ==
  \/ v \in FreeVariables(t) /\ Reject
  \/ /\ v \notin FreeVariables(t)
     /\ sub' = Append(sub, [v |-> v, t |-> t])
     /\ Instead(<<>>)
     /\ UNCHANGED <<solved, ctr, tails, failed>>

Variable ==
  \/ IsVar(Left) /\ (Row \/ Left # Right) /\ Bind(Left.l, Right)
  \/ ~IsVar(Left) /\ IsVar(Right) /\ Bind(Right.l, Left)

(* Constructors, their names and the numbers of arguments *)
SameHead == <<Left.f, Left.l, Len(Left.a)>> = <<Right.f, Right.l, Len(Right.a)>>

(* A defect: rows have to list their labels in the same order. *)
ClashOnLabels ==
  /\ ~IsVar(Left) /\ ~IsVar(Right)
  /\ IF Row THEN <<Left.f, Left.l>> # <<Right.f, Right.l>> ELSE ~SameHead
  /\ Reject

(* Types with different constructors; a record and something else, which   *)
(* unify_row rejects; a row with a field and one without                   *)
Clash ==
  /\ ~IsVar(Left) /\ ~IsVar(Right)
  /\ IF Row THEN Left.f # Right.f ELSE ~SameHead
  /\ Reject

(* A defect: the last argument is left out. *)
ArgumentsShort == [i \in 1 .. (Len(Left.a) - 1) |-> Pair(FALSE, Left.a[i], Right.a[i])]

ArgumentPairs == [i \in 1 .. Len(Left.a) |-> Pair(FALSE, Left.a[i], Right.a[i])]
(* unify, of types with the same constructor: their arguments, from left   *)
(* to right                                                                *)
Arguments ==
  /\ ~Row /\ ~IsVar(Left) /\ ~IsVar(Right) /\ SameHead /\ Left.f # "Rec"
  /\ Instead(ArgumentPairs)
  /\ UNCHANGED <<solved, sub, ctr, tails, failed>>

(* A defect: the records are not unwrapped. *)
RecordsAsRow ==
  /\ ~Row /\ Left.f = "Rec" /\ Right.f = "Rec"
  /\ Instead(<<Pair(TRUE, Left, Right)>>)
  /\ UNCHANGED <<solved, sub, ctr, tails, failed>>

(* unify, of two records: unify_row of what peel_rec finds in them *)
Records ==
  /\ ~Row /\ Left.f = "Rec" /\ Right.f = "Rec"
  /\ Instead(<<Pair(TRUE, Left.a[1], Right.a[1])>>)
  /\ UNCHANGED <<solved, sub, ctr, tails, failed>>

(* unify_row, of two closed rows *)
EmptyRows ==
  /\ Row /\ Left.f = "EmptyRow" /\ Right.f = "EmptyRow"
  /\ Instead(<<>>)
  /\ UNCHANGED <<solved, sub, ctr, tails, failed>>

(* unify_row, of rows that start with the same label: their types, then    *)
(* the rest                                                                *)
SameLabel ==
  /\ Row /\ Left.f = "RowExt" /\ Right.f = "RowExt" /\ Left.l = Right.l
  /\ Instead(<<Pair(FALSE, Left.a[1], Right.a[1]), Pair(TRUE, Left.a[2], Right.a[2])>>)
  /\ UNCHANGED <<solved, sub, ctr, tails, failed>>

(* A defect: there is nothing in common after the two fields. *)
OtherLabelClosed ==
  /\ Row /\ Left.f = "RowExt" /\ Right.f = "RowExt" /\ Left.l # Right.l
  /\ ctr < MaxFresh
  /\ Instead(<<Pair(TRUE, Left.a[2], RowExt(Right.l, Right.a[1], EmptyRow)),
               Pair(TRUE, Right.a[2], RowExt(Left.l, Left.a[1], EmptyRow))>>)
  /\ ctr' = ctr + 1
  /\ tails' = Append(tails, [v |-> NewTypeVar(ctr), l |-> Right.l, row |-> Left.a[2]])
  /\ UNCHANGED <<solved, sub, failed>>

(* unify_row, of rows that start with different labels: the rest of either *)
(* is the field of the other before a common fresh tail.  The auxiliary    *)
(* tails keeps what that tail stands for: the rest of the left row without *)
(* the field of the right one.                                             *)
OtherLabel ==
  /\ Row /\ Left.f = "RowExt" /\ Right.f = "RowExt" /\ Left.l # Right.l
  /\ ctr < MaxFresh
  /\ LET fresh == Var(NewTypeVar(ctr))
     IN  Instead(<<Pair(TRUE, Left.a[2], RowExt(Right.l, Right.a[1], fresh)),
                   Pair(TRUE, Right.a[2], RowExt(Left.l, Left.a[1], fresh))>>)
  /\ ctr' = ctr + 1
  /\ tails' = Append(tails, [v |-> NewTypeVar(ctr), l |-> Right.l, row |-> Left.a[2]])
  /\ UNCHANGED <<solved, sub, failed>>

(* One call of unify or unify_row *)
Unify ==
  /\ ~failed /\ todo # <<>>
  /\ \/ Identical \/ Variable \/ Clash \/ Arguments \/ Records
     \/ EmptyRows \/ SameLabel \/ OtherLabel

Next == ((\E e \in Equations : Equate(e)) \/ Unify) /\ Within'

Spec == Init /\ [][Next]_vars

-----------------------------------------------------------------------------
Idle == todo = <<>>
Bound == {sub[i].v : i \in DOMAIN sub}
FreshVars == {NewTypeVar(i) : i \in 0 .. (ctr - 1)}

Pairs == [row : {FALSE}, l : Types, r : Types] \cup [row : {TRUE}, l : Rows, r : Rows]
BindingSet == [v : TypeVars, t : Types] \cup [v : RowVars, t : Rows]

(* What the variables hold.  unify gets types and unify_row rows, and what *)
(* is bound to a row variable is a row.                                    *)
TypeOK ==
  /\ solved \in Seq(TypePairs)
  /\ todo \in Seq(Pairs)
  /\ sub \in Seq(BindingSet)
  /\ ctr \in 0 .. MaxFresh
  /\ tails \in Seq([v : RowVars, l : Labels, row : Rows])
  /\ failed \in BOOLEAN

(* The occurs check: no binding mentions a variable that is bound before   *)
(* it or by it, and none is bound twice.  So the substitution has no       *)
(* cycle, and Monotype::apply, which replaces variables until none is left *)
(* that is bound, always returns.                                          *)
Acyclic ==
  \A i \in DOMAIN sub, j \in DOMAIN sub :
     j <= i => /\ sub[j].v \notin FreeVariables(sub[i].t)
               /\ sub[j].v = sub[i].v => i = j

(* g, and h for the variables that g does not give *)
Under(g, h) == [v \in DOMAIN g \cup DOMAIN h |-> IF v \in DOMAIN g THEN g[v] ELSE h[v]]

(* The substitution solves every equation of the run, the earlier ones     *)
(* too: both sides mean the same, whatever the variables that are left     *)
(* stand for.  Nothing combine does loses what has been learnt.            *)
Sound ==
  Idle => \A g \in Valuations, h \in [FreshVars \ Bound -> GroundRows] :
    \A i \in DOMAIN solved :
       Meaning(Under(g, h), Apply(solved[i][1], sub)) =
       Meaning(Under(g, h), Apply(solved[i][2], sub))

Solves(g) == \A i \in DOMAIN solved : Meaning(g, solved[i][1]) = Meaning(g, solved[i][2])
Solutions == {g \in Valuations : Solves(g)}

(* A solution, and what it gives to the fresh row variables: one after     *)
(* another, what is left of a row without a field.                         *)
ExtendedBy(g, tail) ==
  [v \in DOMAIN g \cup {tail.v} |->
     IF v = tail.v THEN Without(tail.l, Meaning(g, tail.row)) ELSE g[v]]
Tails == INSTANCE SequenceFold WITH Op <- ExtendedBy
Extended(g) == Tails!Fold(g, tails)

(* It is most general: every solution of the equations, with the fresh row *)
(* variables chosen so, is a solution of the bindings, so unification has  *)
(* decided nothing that the equations leave open, at no time.              *)
MostGeneral ==
  ~failed => \A g \in Solutions :
    \A i \in DOMAIN sub : Extended(g)[sub[i].v] = Meaning(Extended(g), sub[i].t)

(* A run is rejected only if its equations have no solution, except that   *)
(* unify_row rejects a row variable and itself, which have all.            *)
RejectsUnsolvable ==
  failed => Solutions = {} \/ (Row /\ IsVar(Left) /\ Left = Right)

(* docs/typerules.md, unify: "if b is same typevar: return {}".  A type    *)
(* unifies with itself; an open record type, though, does not.             *)
Reflexive == failed => LET e == solved[Len(solved)] IN Apply(e[1], sub) # Apply(e[2], sub)
=============================================================================
