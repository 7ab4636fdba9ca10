-------------------------- MODULE InferenceProofs --------------------------
(***************************************************************************)
(* What algorithm W finds is a derivation by the typing rules (Derivation).*)
(*                                                                         *)
(* The invariant WInv has, next to that of unification (IInv), what is so  *)
(* of the tree of calls, of the context and of the types of the nodes.     *)
(* What carries it is who has which variables.  A variable is live at a    *)
(* node whose call is in progress if the node's own variable, the types of *)
(* its parts or what it has put into the context still have it (Live).     *)
(* Two nodes in progress share a variable only if what is in scope at the  *)
(* inner one has it (Separate), and unify works on variables that are live *)
(* at the innermost (Running).  So what a let generalises is live nowhere  *)
(* else, and because it is renamed nowhere again (Spent): no later binding *)
(* touches it, and a polytype goes on to mean what the type means that it  *)
(* was made of (SchemesOK), an instance what its source does but for the   *)
(* quantified variables (InstancesOK).                                     *)
(***************************************************************************)
EXTENDS Inference, UnificationProofs

(* What the bindings leave of the variables of a type, ... *)
F(t) == FreeVariables(Apply(t, sub))
TodoFree == UNION {F(todo[i].l) \cup F(todo[i].r) : i \in DOMAIN todo}
(* ... and what one binding more makes of them *)
Moved(S, b) == IF b.v \in S THEN (S \ {b.v}) \cup FreeVariables(b.t) ELSE S

(* The step binds a variable of the pairs to a type made of such. *)
BindsTodo(b) ==
  /\ sub' = Append(sub, b) /\ b \in BindingSet /\ b.t \in Terms
  /\ b.v \notin FreeVariables(b.t)
  /\ b.v \in TodoFree /\ FreeVariables(b.t) \subseteq TodoFree
  /\ \A i \in DOMAIN todo' : \E j \in DOMAIN todo : todo'[i] = todo[j]

(* One binding more, in the variables of a type.                           *)
LEMMA FreeAfter ==
  ASSUME NEW s \in Seq(BindingSet), NEW b \in BindingSet, b.t \in Terms,
         NEW t, Apply(t, s) \in Terms, Apply(t, Append(s, b)) \in Terms
  PROVE  FreeVariables(Apply(t, Append(s, b))) = Moved(FreeVariables(Apply(t, s)), b)
<1>1. Apply(t, Append(s, b)) = R(b, Apply(t, s))
  BY ApplyAppend DEF Replace, R
<1> QED
  BY <1>1, FreeOfReplacement DEF Moved

(* The variables of the next pair are variables of the pairs that remain.  *)
LEMMA HeadFree ==
  ASSUME IInv, todo # <<>>
  PROVE  FreeVariables(Left) \subseteq TodoFree /\ FreeVariables(Right) \subseteq TodoFree
<1>1. 1 \in DOMAIN todo /\ Head(todo) = todo[1]
  BY DEF IInv, TypeOK
<1> QED
  BY <1>1 DEF Left, Right, TodoFree, F

(* Pairs made of the variables of the next one bring in no others.         *)
LEMMA InsteadFree ==
  ASSUME IInv, todo # <<>>, NEW ps \in Seq(Pairs),
         \A i \in DOMAIN ps : /\ ps[i].l \in Terms /\ ps[i].r \in Terms
                              /\ FreeVariables(ps[i].l) \cup FreeVariables(ps[i].r)
                                   \subseteq FreeVariables(Left) \cup FreeVariables(Right),
         Instead(ps), sub' = sub
  PROVE  TodoFree' \subseteq TodoFree
<1>1. todo \in Seq(Pairs)
  BY DEF IInv, TypeOK
<1>2. Replaced(todo, ps, todo')
  BY <1>1, InsteadOfHead DEF Instead
<1>3. FreeVariables(Left) \cap Bound = {} /\ FreeVariables(Right) \cap Bound = {}
  BY HeadFacts DEF HeadOK
<1>4. \A t \in Terms : FreeVariables(t) \cap Bound = {} => Apply(t, sub) = t
  BY DEF IInv, Composed, Leaves, Bound, BoundBy
<1>5. \A i \in DOMAIN ps : F(ps[i].l) \subseteq TodoFree /\ F(ps[i].r) \subseteq TodoFree
  <2> SUFFICES ASSUME NEW i \in DOMAIN ps
               PROVE  F(ps[i].l) \subseteq TodoFree /\ F(ps[i].r) \subseteq TodoFree
    OBVIOUS
  <2>1. Apply(ps[i].l, sub) = ps[i].l /\ Apply(ps[i].r, sub) = ps[i].r
    BY <1>3, <1>4
  <2> QED
    BY <2>1, HeadFree DEF F
<1>6. \A i \in DOMAIN todo : F(todo[i].l) \subseteq TodoFree /\ F(todo[i].r) \subseteq TodoFree
  BY DEF TodoFree
<1>7. \A i \in DOMAIN todo' : F(todo'[i].l) \subseteq TodoFree /\ F(todo'[i].r) \subseteq TodoFree
  BY <1>2, <1>5, <1>6 DEF Replaced
<1>8. TodoFree' = UNION {F(todo'[i].l) \cup F(todo'[i].r) : i \in DOMAIN todo'}
  BY DEF TodoFree, F
<1> QED
  BY <1>7, <1>8

(* A variable of the next pair that is bound.                              *)
LEMMA BindFree ==
  ASSUME IInv, todo # <<>>, NEW v, NEW t, v \notin FreeVariables(t),
         sub' = Append(sub, [v |-> v, t |-> t]), Instead(<<>>),
         \/ Left = Var(v) /\ t = Right
         \/ Right = Var(v) /\ t = Left
  PROVE  BindsTodo([v |-> v, t |-> t])
<1> DEFINE b == [v |-> v, t |-> t]
<1>1. HeadOK
  BY HeadFacts
<1>2. Left \in Terms /\ Right \in Terms /\ t \in Terms /\ Var(v) \in Terms
  BY <1>1 DEF HeadOK
<1>3. b.v = v /\ b.t = t
  OBVIOUS
<1>4. b \in BindingSet
  <2>1. \/ Var(v) \in Rows /\ t \in Rows
        \/ Var(v) \in Types /\ t \in Types
    BY <1>1 DEF HeadOK
  <2>2. \/ v \in RowVars /\ t \in Rows
        \/ v \in TypeVars /\ t \in Types
    BY <2>1, VarShape, Sorts
  <2> QED
    BY <2>2 DEF BindingSet
<1>5. FreeVariables(Var(v)) = {v}
  BY <1>2, VarShape, FreeOfVariable
<1>6. v \in TodoFree /\ FreeVariables(t) \subseteq TodoFree
  BY <1>5, HeadFree
<1>7. \A i \in DOMAIN todo' : \E j \in DOMAIN todo : todo'[i] = todo[j]
  <2>1. todo \in Seq(Pairs) /\ <<>> \in Seq(Pairs) /\ DOMAIN <<>> = {}
    BY DEF IInv, TypeOK
  <2> QED
    BY <2>1, InsteadOfHead DEF Instead, Replaced
<1> HIDE DEF b
<1>8. sub' = Append(sub, b)
  BY DEF b
<1>9. BindsTodo(b)
  BY <1>2, <1>3, <1>4, <1>6, <1>7, <1>8 DEF BindsTodo
<1> QED
  BY <1>9 DEF b

(* The arguments of two types with the same constructor.                   *)
LEMMA ArgumentsFree ==
  ASSUME IInv, todo # <<>>, Arguments
  PROVE  TodoFree' \subseteq TodoFree
<1> DEFINE ps == ArgumentPairs
<1>1. Left \in Types /\ Right \in Types /\ Left \in Terms /\ Right \in Terms
  BY HeadFacts DEF HeadOK, Arguments
<1>2. Left \in Constructed
  BY <1>1, TypeCases, VarShape, RecordedShape DEF Arguments
<1>3. Right \in Constructed
  BY <1>1, TypeCases, VarShape, RecordedShape DEF Arguments, SameHead
<1>4. PICK n \in Nat : /\ DOMAIN Left.a = 1 .. n /\ DOMAIN Right.a = 1 .. n /\ Len(Left.a) = n
                       /\ \A i \in 1 .. n : Left.a[i] \in Types /\ Right.a[i] \in Types
  BY <1>2, <1>3, ConstructedShape DEF Arguments, SameHead
<1>5. ps \in Seq(Pairs) /\ DOMAIN ps = 1 .. n
      /\ \A i \in 1 .. n : ps[i].l = Left.a[i] /\ ps[i].r = Right.a[i]
  BY <1>4 DEF ArgumentPairs, Pair, Pairs
<1> HIDE DEF ps
<1>6. ~IsVar(Left) /\ ~IsVar(Right)
  BY DEF Arguments
<1>7. \A i \in 1 .. n : /\ Left.a[i] \in Terms /\ Right.a[i] \in Terms
                        /\ FreeVariables(Left.a[i]) \subseteq FreeVariables(Left)
                        /\ FreeVariables(Right.a[i]) \subseteq FreeVariables(Right)
  BY <1>1, <1>4, <1>6, FreeOfArgument
<1>8. Instead(ps) /\ sub' = sub
  BY DEF Arguments, ps
<1> QED
  BY <1>5, <1>7, <1>8, InsteadFree

(* The rows of two records.                                                *)
LEMMA RecordsFree ==
  ASSUME IInv, todo # <<>>, Records
  PROVE  TodoFree' \subseteq TodoFree
<1> DEFINE ps == <<Pair(TRUE, Left.a[1], Right.a[1])>>
<1>1. Left \in Types /\ Right \in Types /\ Left \in Terms /\ Right \in Terms
  BY HeadFacts DEF HeadOK, Records
<1>2. Left \in Recorded /\ Right \in Recorded
  BY <1>1, TypeCases, VarShape, ConstructedShape, SortsAssumption DEF Records
<1>3. /\ ~IsVar(Left) /\ DOMAIN Left.a = {1} /\ Left.a[1] \in Rows
      /\ ~IsVar(Right) /\ DOMAIN Right.a = {1} /\ Right.a[1] \in Rows
  BY <1>2, RecordedShape
<1>4. /\ ps \in Seq(Pairs) /\ DOMAIN ps = {1}
      /\ ps[1].l = Left.a[1] /\ ps[1].r = Right.a[1]
  <2>1. Pair(TRUE, Left.a[1], Right.a[1]) \in Pairs
    BY <1>3 DEF Pair, Pairs
  <2> QED
    BY <2>1 DEF Pair
<1> HIDE DEF ps
<1>5. /\ Left.a[1] \in Terms /\ Right.a[1] \in Terms
      /\ FreeVariables(Left.a[1]) \subseteq FreeVariables(Left)
      /\ FreeVariables(Right.a[1]) \subseteq FreeVariables(Right)
  BY <1>1, <1>3, FreeOfArgument
<1>6. Instead(ps) /\ sub' = sub
  BY DEF Records, ps
<1> QED
  BY <1>4, <1>5, <1>6, InsteadFree

(* The types of a field, and the rests of the rows.                        *)
LEMMA SameLabelFree ==
  ASSUME IInv, todo # <<>>, SameLabel
  PROVE  TodoFree' \subseteq TodoFree
<1> DEFINE ps == <<Pair(FALSE, Left.a[1], Right.a[1]), Pair(TRUE, Left.a[2], Right.a[2])>>
<1>1. Left \in Rows /\ Right \in Rows /\ Left.f = "RowExt" /\ Right.f = "RowExt"
  BY HeadFacts DEF HeadOK, SameLabel
<1>2. /\ Left.a[1] \in Types /\ Left.a[2] \in Rows /\ Right.a[1] \in Types /\ Right.a[2] \in Rows
      /\ FreeVariables(Left) = FreeVariables(Left.a[1]) \cup FreeVariables(Left.a[2])
      /\ FreeVariables(Right) = FreeVariables(Right.a[1]) \cup FreeVariables(Right.a[2])
  BY <1>1, FieldFacts
<1>3. /\ ps \in Seq(Pairs) /\ DOMAIN ps = {1, 2}
      /\ ps[1].l = Left.a[1] /\ ps[1].r = Right.a[1]
      /\ ps[2].l = Left.a[2] /\ ps[2].r = Right.a[2]
  <2>1. Pair(FALSE, Left.a[1], Right.a[1]) \in Pairs /\ Pair(TRUE, Left.a[2], Right.a[2]) \in Pairs
    BY <1>2 DEF Pair, Pairs
  <2> QED
    BY <2>1 DEF Pair
<1> HIDE DEF ps
<1>4. Instead(ps) /\ sub' = sub
  BY DEF SameLabel, ps
<1>5. \A i \in DOMAIN ps : /\ ps[i].l \in Terms /\ ps[i].r \in Terms
                           /\ FreeVariables(ps[i].l) \subseteq FreeVariables(Left) \cup FreeVariables(Right)
                           /\ FreeVariables(ps[i].r) \subseteq FreeVariables(Left) \cup FreeVariables(Right)
  BY <1>2, <1>3 DEF Terms
<1> QED
  BY <1>3, <1>4, <1>5, InsteadFree

(* What a call of unify does to the variables: it leaves them or binds one *)
(* of those of the pairs that remain.                                      *)
LEMMA UnifyCases ==
  ASSUME IInv, Unify
  PROVE  \/ sub' = sub /\ TodoFree' \subseteq TodoFree
         \/ \E b : BindsTodo(b)
<1>1. todo # <<>> /\ <<>> \in Seq(Pairs) /\ DOMAIN <<>> = {}
  BY DEF Unify
<1>2. CASE Identical
  BY <1>1, <1>2, InsteadFree DEF Identical
<1>3. CASE EmptyRows
  BY <1>1, <1>3, InsteadFree DEF EmptyRows
<1>4. ASSUME Reject
      PROVE  sub' = sub /\ TodoFree' \subseteq TodoFree
  BY <1>4 DEF Reject, TodoFree, F
<1>5. CASE Variable
  <2>1. Left \in Terms /\ Right \in Terms
    BY <1>1, HeadFacts DEF HeadOK
  <2>2. PICK v, t : /\ \/ Left = Var(v) /\ t = Right
                       \/ Right = Var(v) /\ t = Left
                    /\ Bind(v, t)
    BY <1>5, <2>1, TermCases DEF Variable
  <2>3. CASE Reject
    BY <1>4, <2>3
  <2>4. CASE /\ v \notin FreeVariables(t) /\ sub' = Append(sub, [v |-> v, t |-> t])
             /\ Instead(<<>>)
    BY <1>1, <2>2, <2>4, BindFree
  <2> QED
    BY <2>2, <2>3, <2>4 DEF Bind
<1>6. CASE Clash
  BY <1>4, <1>6 DEF Clash
<1>7. CASE Arguments
  BY <1>1, <1>7, ArgumentsFree DEF Arguments
<1>8. CASE Records
  BY <1>1, <1>8, RecordsFree DEF Records
<1>9. CASE SameLabel
  BY <1>1, <1>9, SameLabelFree DEF SameLabel
<1>10. CASE OtherLabel
  <2>1. ctr \in 0 .. MaxFresh /\ ctr < MaxFresh
    BY <1>10 DEF OtherLabel, IInv, TypeOK
  <2> QED
    BY <2>1, RecordsAssumption
<1> QED
  BY <1>2, <1>3, <1>5, <1>6, <1>7, <1>8, <1>9, <1>10 DEF Unify

-----------------------------------------------------------------------------
(* Types that are the same but for what m renames. *)
AllVars == TypeVars \cup RowVars
With(g, m, s) ==
  [v \in DOMAIN g \cup DOMAIN m |->
     IF v \in DOMAIN m THEN Meaning(g, Apply(Var(m[v]), s)) ELSE g[v]]
SameUnder(s, t, m, u) ==
  \A g : AllVars \subseteq DOMAIN g => Meaning(g, Apply(t, s)) = Meaning(With(g, m, s), Apply(u, s))

(* They stay the same under one more binding, unless it is about something *)
(* that is renamed.                                                        *)
LEMMA SameAfter ==
  ASSUME NEW s \in Seq(BindingSet), NEW b \in BindingSet, b.t \in Terms,
         NEW t, NEW m, NEW u, SameUnder(s, t, m, u),
         Apply(t, s) \in Terms, Apply(t, Append(s, b)) \in Terms,
         Apply(u, s) \in Terms, Apply(u, Append(s, b)) \in Terms,
         \A v \in DOMAIN m : /\ Apply(Var(m[v]), s) \in Terms
                             /\ Apply(Var(m[v]), Append(s, b)) \in Terms,
         b.v \notin DOMAIN m, FreeVariables(b.t) \cap DOMAIN m = {}
  PROVE  SameUnder(Append(s, b), t, m, u)
<1> SUFFICES ASSUME NEW g, AllVars \subseteq DOMAIN g
             PROVE  Meaning(g, Apply(t, Append(s, b)))
                      = Meaning(With(g, m, Append(s, b)), Apply(u, Append(s, b)))
  BY DEF SameUnder
<1> DEFINE h == [v \in DOMAIN g |-> IF v = b.v THEN Meaning(g, b.t) ELSE g[v]]
           k == With(g, m, Append(s, b))
           l == With(h, m, s)
<1>1. \A x : Apply(x, Append(s, b)) = Replace(Apply(x, s), b)
  BY ApplyAppend
<1>2. \A x : Apply(x, s) \in Terms => Apply(x, Append(s, b)) = R(b, Apply(x, s))
  BY <1>1 DEF Replace, R
<1>3. \A x \in Terms : \A v \in FreeVariables(x) : v \in DOMAIN g
  BY FreeAreVariables DEF AllVars
<1>4. \A x : Apply(x, s) \in Terms /\ Apply(x, Append(s, b)) \in Terms =>
        Meaning(g, Apply(x, Append(s, b))) = Meaning(h, Apply(x, s))
  BY <1>2, <1>3, MeaningOfReplaced
<1>5. DOMAIN h = DOMAIN g
  OBVIOUS
<1>6. Meaning(h, Apply(t, s)) = Meaning(l, Apply(u, s))
  <2> HIDE DEF h
  <2> QED
    BY <1>5 DEF SameUnder
<1>7. /\ \A v \in DOMAIN m : k[v] = l[v]
      /\ \A v \in DOMAIN g \ DOMAIN m : k[v] = g[v] /\ l[v] = IF v = b.v THEN Meaning(g, b.t) ELSE g[v]
  BY <1>4 DEF With
<1> HIDE DEF h, k, l
<1>8. Meaning(k, b.t) = Meaning(g, b.t)
  <2>1. \A v \in FreeVariables(b.t) : k[v] = g[v]
    BY <1>3, <1>7
  <2> QED
    BY <2>1, MeaningsAgree
<1>9. \A v \in FreeVariables(Apply(u, s)) : l[v] = IF v = b.v THEN Meaning(k, b.t) ELSE k[v]
  BY <1>3, <1>7, <1>8
<1>10. Meaning(k, R(b, Apply(u, s))) = Meaning(l, Apply(u, s))
  BY <1>2, <1>9, MeaningOfReplaced
<1> QED
  BY <1>2, <1>4, <1>6, <1>10 DEF k

-----------------------------------------------------------------------------
(* The tree of calls. *)
Parts(n) == DOMAIN Exp[n].parts
IsLet(n) == Exp[n].e = "Let"
Generalises(n) == IsLet(n) /\ part[n] = 2

CallsOK ==
  /\ done \subseteq called /\ called \subseteq Nodes
  /\ \A n \in Nodes \ called : part[n] = 0
  /\ \A n \in Nodes : /\ part[n] \in 0 .. Len(Exp[n].parts)
                      /\ \A i \in Parts(n) : /\ Part(n, i) \in called <=> i <= part[n]
                                             /\ i < part[n] => Part(n, i) \in done
  /\ \A n \in done : part[n] = Len(Exp[n].parts) /\ \A i \in Parts(n) : Part(n, i) \in done
(* From each open node to the innermost there is a chain of open parts. *)
Chain ==
  \A n, m \in Open : n < m =>
    part[n] \in Parts(n) /\ Part(n, part[n]) \in Open /\ Part(n, part[n]) <= m
(* What is in scope is bound by an open node, in its last part, ... *)
BoundIn(m, n, b) == \E l \in Open : n <= l /\ l < m /\ b = <<l, part[l]>>
ScopesOK ==
  /\ \A m \in Open, y \in Idents : Scope[m][y] # None => BoundIn(m, 0, Scope[m][y])
  /\ \A n, m \in Open, y \in Idents : n <= m =>
       Scope[m][y] = Scope[n][y] \/ BoundIn(m, n, Scope[m][y])
(* ... and that node has been called as far. *)
  /\ \A m \in called, y \in Idents : Scope[m][y] # None =>
       \E a \in called, i \in {1, 2} :
          Scope[m][y] = <<a, i>> /\ i \in Binds(a) /\ i <= part[a]

-----------------------------------------------------------------------------
(* The context of the call that runs. *)
EntryIn(b, s, v) == IF Polymorphic(b) THEN s[b[1]] ELSE Mono(v[b[1]])
Entry(b) == EntryIn(b, scheme, var)
NameOfLet(y) == \E n \in Nodes : IsLet(n) /\ Exp[n].x = y
EntryOK(b, y, p, s, v) ==
  /\ b # None => p = EntryIn(b, s, v)
  /\ b = None /\ y \in DOMAIN RuntimeTypes => p = Mono(RuntimeTypes[y])
  /\ b = None /\ y \notin DOMAIN RuntimeTypes /\ ~NameOfLet(y) => p = Unbound
Current(n) == InScope(n, part[n])
ContextOK ==
  /\ DOMAIN ctx = Idents /\ DOMAIN old = Nodes
  /\ \A n \in Open : Runs(n) => \A y \in Idents : EntryOK(Current(n)[y], y, ctx[y], scheme, var)
  /\ \A n \in Open : Exp[n].e = "Abstraction" /\ part[n] = 1 =>
       EntryOK(Scope[n][Exp[n].x], Exp[n].x, old[n], scheme, var)
  /\ \A n \in called : IsLet(n) /\ part[n] > 0 => Exp[n].x \notin DOMAIN RuntimeTypes

-----------------------------------------------------------------------------
(* What has been asked for, and what has been returned. *)
TypeOf(n, i) == typ[Part(n, i)]
Asks(n) ==
  CASE Exp[n].e = "Application" -> << <<TypeOf(n, 1), Fn(TypeOf(n, 2), var[n])>> >>
    [] Exp[n].e = "Let" -> << <<TypeOf(n, 1), var[n]>> >>
    [] Exp[n].e = "IfElse" -> << <<TypeOf(n, 1), TBool>>, <<TypeOf(n, 2), TypeOf(n, 3)>> >>
    [] Exp[n].e = "Cons" -> << <<TypeOf(n, 2), List(TypeOf(n, 1))>> >>
    [] Exp[n].e = "Arithmetic" -> << <<TypeOf(n, 1), TypeOf(n, 2)>> >>
    [] Exp[n].e = "Comparison" -> << <<TypeOf(n, 1), TypeOf(n, 2)>> >>
    [] Exp[n].e = "Logical" -> << <<TypeOf(n, 1), TypeOf(n, 2)>>, <<TypeOf(n, 1), TBool>> >>
    [] Exp[n].e = "Not" -> << <<TypeOf(n, 1), TBool>> >>
    [] OTHER -> <<>>
(* the parts whose types are asked about *)
Mentioned(n) ==
  CASE Exp[n].e \in {"Let", "Not"} -> << {1} >>
    [] Exp[n].e = "IfElse" -> << {1}, {2, 3} >>
    [] Exp[n].e = "Logical" -> << {1, 2}, {1} >>
    [] Exp[n].e \in {"Application", "Cons", "Arithmetic", "Comparison"} -> << {1, 2} >>
    [] OTHER -> <<>>
Result(n) ==
  CASE Exp[n].e = "Literal" -> Exp[n].t
    [] Exp[n].e = "Abstraction" -> Fn(var[n], TypeOf(n, 1))
    [] Exp[n].e = "Application" -> var[n]
    [] Exp[n].e \in {"Let", "IfElse"} -> TypeOf(n, 2)
    [] Exp[n].e = "Cons" -> List(TypeOf(n, 1))
    [] Exp[n].e \in {"Arithmetic", "Negate"} -> TypeOf(n, 1)
    [] OTHER -> TBool

AnswersOK ==
  /\ \A n \in Nodes : \A j \in 1 .. asked[n] :
       /\ j \in DOMAIN Mentioned(n) /\ Asks(n)[j] \in Range(solved)
       /\ \A i \in Mentioned(n)[j] : Part(n, i) \in done
  /\ \A n \in done : asked[n] = Len(Mentioned(n))
                     /\ (Exp[n].e # "Variable" => typ[n] = Result(n))

-----------------------------------------------------------------------------
(* What the variables of W hold, and which variables there are. *)
Allocated == {NewTypeVar(i) : i \in 0 .. (allocated - 1)}
(* A binding in a type is one in its arguments. *)
Spreads(s) ==
  \A t \in Terms : ~IsVar(t) /\ Apply(t, s) \in Terms =>
    /\ ~IsVar(Apply(t, s)) /\ DOMAIN Apply(t, s).a = DOMAIN t.a
    /\ \A i \in DOMAIN t.a : Apply(t, s).a[i] = Apply(t.a[i], s)
WTypeOK ==
  /\ Spreads(sub)
  /\ part \in [Nodes -> Nat] /\ asked \in [Nodes -> Nat]
  /\ typ \in [Nodes -> Types] /\ var \in [Nodes -> Types]
  /\ DOMAIN scheme = Nodes /\ DOMAIN inst = Nodes
  /\ allocated \in 0 .. MaxVars
  /\ \A n \in Nodes :
       /\ scheme[n].t \in Types
       /\ n \notin done => typ[n] = Unknown
       /\ n \notin called => var[n] = Unknown /\ inst[n] = Nothing
       /\ ~Generalises(n) => scheme[n] = Unbound
NamesOK ==
  /\ BoundBy(sub) \subseteq Allocated /\ Mentions(sub) \subseteq Allocated
  /\ \A n \in Nodes :
       /\ FreeVariables(typ[n]) \subseteq Allocated /\ FreeVariables(var[n]) \subseteq Allocated
       /\ FreeVariables(scheme[n].t) \subseteq Allocated
       /\ DOMAIN scheme[n].gen \subseteq Allocated /\ Range(scheme[n].gen) \subseteq Allocated
       /\ Range(inst[n]) \subseteq Allocated

-----------------------------------------------------------------------------
(* What the types of an open node have that may still change. *)
Live(n) ==
  IF Generalises(n) THEN FreeIn(scheme[n]) \cup F(TypeOf(n, 2))
  ELSE F(var[n]) \cup UNION {F(TypeOf(n, i)) : i \in Parts(n)}
Env(n) == UNION {FreeIn(Entry(Scope[n][y])) : y \in {z \in Idents : Scope[n][z] # None}}

Separate ==
  \A k, n, l \in Open : k < n /\ n <= l => Live(k) \cap Live(l) \subseteq Env(n)
Running == todo # <<>> => \E n \in Open : Runs(n) /\ TodoFree \subseteq Live(n)
Quantifies(n) == DOMAIN scheme[n].gen \cup Range(scheme[n].gen)
SpentAt(b) ==
  /\ Quantifies(b) \cap Bound = {}
  /\ \A n \in Open : Quantifies(b) \cap Live(n) = {}
  /\ Generalises(b) =>
       /\ Range(scheme[b].gen) \cap F(TypeOf(b, 1)) = {}
       /\ F(TypeOf(b, 1)) \ DOMAIN scheme[b].gen \subseteq F(scheme[b].t)
Spent == \A b \in Nodes : SpentAt(b)

-----------------------------------------------------------------------------
(* Types that are the same but for what m renames. *)
Same(t, m, u) == SameUnder(sub, t, m, u)
SchemesOK == \A b \in Nodes : Generalises(b) => Same(scheme[b].t, scheme[b].gen, TypeOf(b, 1))
InstanceOK(n) ==
  /\ Scope[n][Exp[n].x] = None => Exp[n].x \in DOMAIN RuntimeTypes
  /\ DOMAIN inst[n] = Quantified(n, Exp[n].x)
  /\ Same(typ[n], inst[n], Source(n, Exp[n].x))
InstancesOK == \A n \in done : Exp[n].e = "Variable" => InstanceOK(n)
GeneralOK == \A n \in called : Generalises(n) => IsGeneral(n)

WInv ==
  /\ IInv
  /\ CallsOK /\ Chain /\ ScopesOK /\ ContextOK
  /\ AnswersOK /\ WTypeOK /\ WithinW /\ NamesOK
  /\ Separate /\ Running /\ Spent
  /\ SchemesOK /\ InstancesOK /\ GeneralOK

-----------------------------------------------------------------------------
(* What a step of W does, without the kinds of expressions.                *)
PlainCall(n, i) == i = part[n] + 1 /\ i \in Parts(n) /\ Binds(n) = {} /\ JustCall(n, i)
OpensBinder(n) ==
  /\ part[n] = 0 /\ asked[n] = 0 /\ 1 \in Parts(n) /\ 1 \in Binds(n)
  /\ IsLet(n) => Exp[n].x \notin DOMAIN RuntimeTypes
  /\ Allocate(n)
  /\ ctx' = [ctx EXCEPT ![Exp[n].x] = Mono(var'[n])]
  /\ DOMAIN old' = DOMAIN old /\ \A m \in DOMAIN old : m # n => old'[m] = old[m]
  /\ Exp[n].e = "Abstraction" /\ n \in DOMAIN old => old'[n] = ctx[Exp[n].x]
  /\ Call(n, 1) /\ UNCHANGED scheme
GeneralisesBy(n, k, m) ==
  /\ k \in 0 .. (MaxVars - allocated) /\ m \in Fresh(Generalised(n), k)
  /\ Rename(Typ(Part(n, 1)), m) \in Types
  /\ scheme' = [scheme EXCEPT ![n] = [gen |-> m, t |-> Rename(Typ(Part(n, 1)), m)]]
  /\ ctx' = [ctx EXCEPT ![Exp[n].x] = [gen |-> m, t |-> Rename(Typ(Part(n, 1)), m)]]
  /\ allocated' = allocated + k
GeneralisesLet(n) ==
  /\ IsLet(n) /\ part[n] = 1 /\ asked[n] = 1 /\ 2 \in Parts(n)
  /\ \E k, m : GeneralisesBy(n, k, m)
  /\ Call(n, 2) /\ UNCHANGED <<var, old>>
AsksFor(n) ==
  /\ asked[n] + 1 \in DOMAIN Mentioned(n)
  /\ \A i \in Mentioned(n)[asked[n] + 1] : i \in Parts(n) /\ i <= part[n]
  /\ ~Generalises(n)
  /\ \E l, r : Ask(n, l, r) /\ Asks(n)'[asked[n] + 1] = <<l, r>>
  /\ \/ UNCHANGED <<var, allocated>>
     \/ asked[n] = 0 /\ Exp[n].e = "Application" /\ Allocate(n)
ReturnsResult(n) ==
  /\ Exp[n].e # "Variable"
  /\ part[n] = Len(Exp[n].parts) /\ asked[n] = Len(Mentioned(n))
  /\ Return(n, Result(n)) /\ UNCHANGED <<inst, allocated>>
  /\ IF Exp[n].e = "Abstraction" THEN ctx' = [ctx EXCEPT ![Exp[n].x] = old[n]] ELSE ctx' = ctx
InstantiatesBy(n, p, k, f) ==
  /\ p = ctx[Exp[n].x] /\ p # Unbound
  /\ k \in 0 .. (MaxVars - allocated) /\ f \in Fresh(Range(p.gen), k)
  /\ Return(n, Rename(Apply(p.t, sub), f))
  /\ inst' = [inst EXCEPT ![n] = [v \in DOMAIN p.gen |-> f[p.gen[v]]]]
  /\ allocated' = allocated + k
ReturnsInstance(n) ==
  /\ Exp[n].e = "Variable" /\ part[n] = 0 /\ asked[n] = 0
  /\ \E p, k, f : InstantiatesBy(n, p, k, f)
  /\ UNCHANGED ctx
StepOf(n) ==
  \/ \E i : PlainCall(n, i)
  \/ OpensBinder(n) \/ GeneralisesLet(n) \/ AsksFor(n)
  \/ ReturnsResult(n) \/ ReturnsInstance(n) \/ Refuse

-----------------------------------------------------------------------------
(* 1. The steps of W, whatever the kind of expression.                     *)

(* The parts of a node.                                                    *)
LEMMA PartsOf ==
  ASSUME NEW n \in Nodes
  PROVE  /\ Exp[n].e \in DOMAIN Arity /\ Len(Exp[n].parts) = Arity[Exp[n].e]
         /\ Len(Exp[n].parts) \in Nat
         /\ Parts(n) = 1 .. Len(Exp[n].parts)
         /\ \A i \in Parts(n) : Part(n, i) \in Nodes /\ Part(n, i) > n
         /\ Exp[n].x \in Idents /\ Closed(Exp[n].t)
BY NodesAssumption DEF Parts, Part

(* Kinds with a fixed shape: no name is bound and nothing special happens. *)
LEMMA StepCasesSimple ==
  ASSUME NEW n \in Nodes, Work(n),
         Exp[n].e \notin {"Abstraction", "Let", "Variable", "Application"}
  PROVE  StepOf(n)
<1>1. /\ Len(Exp[n].parts) = Arity[Exp[n].e] /\ Parts(n) = 1 .. Len(Exp[n].parts)
  BY PartsOf
<1>2. Binds(n) = {} /\ ~Generalises(n) /\ Exp[n].e # "Abstraction" /\ Exp[n].e # "Variable"
  BY DEF Binds, Generalises, IsLet
<1>3. ASSUME NEW i, JustCall(n, i), i = part[n] + 1, i \in Parts(n)
      PROVE  StepOf(n)
  BY <1>2, <1>3 DEF StepOf, PlainCall
<1>4. ASSUME NEW l, NEW r, JustAsk(n, l, r), Asks(n)'[asked[n] + 1] = <<l, r>>,
             asked[n] + 1 \in DOMAIN Mentioned(n),
             \A i \in Mentioned(n)[asked[n] + 1] : i \in Parts(n) /\ i <= part[n]
      PROVE  StepOf(n)
  <2>1. Ask(n, l, r) /\ UNCHANGED <<var, allocated>>
    BY <1>4 DEF JustAsk
  <2>2. AsksFor(n)
    BY <1>2, <1>4, <2>1 DEF AsksFor
  <2> QED
    BY <2>2 DEF StepOf
<1>5. ASSUME NEW t, JustReturn(n, t), t = Result(n),
             part[n] = Len(Exp[n].parts), asked[n] = Len(Mentioned(n))
      PROVE  StepOf(n)
  <2>1. ReturnsResult(n)
    BY <1>2, <1>5 DEF ReturnsResult, JustReturn
  <2> QED
    BY <2>1 DEF StepOf
<1>6. ASSUME Refuse
      PROVE  StepOf(n)
  BY <1>6 DEF StepOf
<1>7. CASE Exp[n].e = "Literal"
  <2>1. Literal(n) /\ Mentioned(n) = <<>> /\ Result(n) = Exp[n].t
    BY <1>7 DEF Work, Mentioned, Result
  <2> QED
    BY <1>1, <1>5, <1>7, <2>1 DEF Literal, At, Arity
<1>8. CASE Exp[n].e = "IfElse"
  <2>1. IfElse(n) /\ Mentioned(n) = << {1}, {2, 3} >> /\ Result(n) = typ[Part(n, 2)]
        /\ Parts(n) = {1, 2, 3} /\ Len(Exp[n].parts) = 3
    BY <1>1, <1>8 DEF Work, Mentioned, Result, TypeOf, Arity
  <2>2. Asks(n)' = << <<typ'[Part(n, 1)], TBool>>, <<typ'[Part(n, 2)], typ'[Part(n, 3)]>> >>
    BY <1>8 DEF Asks, TypeOf
  <2>3. CASE At(n, 0, 0) /\ JustCall(n, 1)
    BY <1>3, <2>1, <2>3 DEF At
  <2>4. CASE At(n, 1, 0) /\ JustAsk(n, typ[Part(n, 1)], TBool)
    BY <1>4, <2>1, <2>2, <2>4 DEF At, JustAsk, Ask
  <2>5. CASE At(n, 1, 1) /\ JustCall(n, 2)
    BY <1>3, <2>1, <2>5 DEF At
  <2>6. CASE At(n, 2, 1) /\ JustCall(n, 3)
    BY <1>3, <2>1, <2>6 DEF At
  <2>7. CASE At(n, 3, 1) /\ JustAsk(n, typ[Part(n, 2)], typ[Part(n, 3)])
    BY <1>4, <2>1, <2>2, <2>7 DEF At, JustAsk, Ask
  <2>8. CASE At(n, 3, 2) /\ JustReturn(n, typ[Part(n, 2)])
    BY <1>5, <2>1, <2>8 DEF At
  <2> QED
    BY <2>1, <2>3, <2>4, <2>5, <2>6, <2>7, <2>8 DEF IfElse
<1>9. CASE Exp[n].e = "Cons"
  <2>1. Cons(n) /\ Mentioned(n) = << {1, 2} >> /\ Result(n) = List(typ[Part(n, 1)])
        /\ Parts(n) = {1, 2} /\ Len(Exp[n].parts) = 2
    BY <1>1, <1>9 DEF Work, Mentioned, Result, TypeOf, Arity
  <2>2. Asks(n)' = << <<typ'[Part(n, 2)], List(typ'[Part(n, 1)])>> >>
    BY <1>9 DEF Asks, TypeOf
  <2>3. CASE At(n, 0, 0) /\ JustCall(n, 1)
    BY <1>3, <2>1, <2>3 DEF At
  <2>4. CASE At(n, 1, 0) /\ JustCall(n, 2)
    BY <1>3, <2>1, <2>4 DEF At
  <2>5. CASE At(n, 2, 0) /\ JustAsk(n, typ[Part(n, 2)], List(typ[Part(n, 1)]))
    BY <1>4, <2>1, <2>2, <2>5 DEF At, JustAsk, Ask
  <2>6. CASE At(n, 2, 1) /\ JustReturn(n, List(typ[Part(n, 1)]))
    BY <1>5, <2>1, <2>6 DEF At
  <2> QED
    BY <2>1, <2>3, <2>4, <2>5, <2>6 DEF Cons
<1>10. CASE Exp[n].e \in {"Arithmetic", "Comparison"}
  <2>1. Operation(n) /\ Mentioned(n) = << {1, 2} >>
        /\ Result(n) = (IF Exp[n].e = "Arithmetic" THEN typ[Part(n, 1)] ELSE TBool)
        /\ Parts(n) = {1, 2} /\ Len(Exp[n].parts) = 2
    BY <1>1, <1>10 DEF Work, Mentioned, Result, TypeOf, Arity
  <2>2. Asks(n)' = << <<typ'[Part(n, 1)], typ'[Part(n, 2)]>> >>
    BY <1>10 DEF Asks, TypeOf
  <2>3. CASE At(n, 0, 0) /\ JustCall(n, 1)
    BY <1>3, <2>1, <2>3 DEF At
  <2>4. CASE At(n, 1, 0) /\ JustCall(n, 2)
    BY <1>3, <2>1, <2>4 DEF At
  <2>5. CASE At(n, 2, 0) /\ JustAsk(n, typ[Part(n, 1)], typ[Part(n, 2)])
    BY <1>4, <2>1, <2>2, <2>5 DEF At, JustAsk, Ask
  <2>6. CASE At(n, 2, 1) /\ JustReturn(n, IF Exp[n].e = "Arithmetic" THEN typ[Part(n, 1)] ELSE TBool)
    BY <1>5, <2>1, <2>6 DEF At
  <2> QED
    BY <1>6, <2>1, <2>3, <2>4, <2>5, <2>6 DEF Operation
<1>11. CASE Exp[n].e = "Logical"
  <2>1. Logical(n) /\ Mentioned(n) = << {1, 2}, {1} >> /\ Result(n) = TBool
        /\ Parts(n) = {1, 2} /\ Len(Exp[n].parts) = 2
    BY <1>1, <1>11 DEF Work, Mentioned, Result, TypeOf, Arity
  <2>2. Asks(n)' = << <<typ'[Part(n, 1)], typ'[Part(n, 2)]>>, <<typ'[Part(n, 1)], TBool>> >>
    BY <1>11 DEF Asks, TypeOf
  <2>3. CASE At(n, 0, 0) /\ JustCall(n, 1)
    BY <1>3, <2>1, <2>3 DEF At
  <2>4. CASE At(n, 1, 0) /\ JustCall(n, 2)
    BY <1>3, <2>1, <2>4 DEF At
  <2>5. CASE At(n, 2, 0) /\ JustAsk(n, typ[Part(n, 1)], typ[Part(n, 2)])
    BY <1>4, <2>1, <2>2, <2>5 DEF At, JustAsk, Ask
  <2>6. CASE At(n, 2, 1) /\ JustAsk(n, typ[Part(n, 1)], TBool)
    BY <1>4, <2>1, <2>2, <2>6 DEF At, JustAsk, Ask
  <2>7. CASE At(n, 2, 2) /\ JustReturn(n, TBool)
    BY <1>5, <2>1, <2>7 DEF At
  <2> QED
    BY <2>1, <2>3, <2>4, <2>5, <2>6, <2>7 DEF Logical
<1>12. CASE Exp[n].e = "Not"
  <2>1. Not(n) /\ Mentioned(n) = << {1} >> /\ Result(n) = TBool
        /\ Parts(n) = {1} /\ Len(Exp[n].parts) = 1
    BY <1>1, <1>12 DEF Work, Mentioned, Result, TypeOf, Arity
  <2>2. Asks(n)' = << <<typ'[Part(n, 1)], TBool>> >>
    BY <1>12 DEF Asks, TypeOf
  <2>3. CASE At(n, 0, 0) /\ JustCall(n, 1)
    BY <1>3, <2>1, <2>3 DEF At
  <2>4. CASE At(n, 1, 0) /\ JustAsk(n, typ[Part(n, 1)], TBool)
    BY <1>4, <2>1, <2>2, <2>4 DEF At, JustAsk, Ask
  <2>5. CASE At(n, 1, 1) /\ JustReturn(n, TBool)
    BY <1>5, <2>1, <2>5 DEF At
  <2> QED
    BY <2>1, <2>3, <2>4, <2>5 DEF Not
<1>13. CASE Exp[n].e = "Negate"
  <2>1. Negate(n) /\ Mentioned(n) = <<>> /\ Result(n) = typ[Part(n, 1)]
        /\ Parts(n) = {1} /\ Len(Exp[n].parts) = 1
    BY <1>1, <1>13 DEF Work, Mentioned, Result, TypeOf, Arity
  <2>2. CASE At(n, 0, 0) /\ JustCall(n, 1)
    BY <1>3, <2>1, <2>2 DEF At
  <2>3. CASE At(n, 1, 0) /\ JustReturn(n, typ[Part(n, 1)])
    BY <1>5, <2>1, <2>3 DEF At
  <2> QED
    BY <1>6, <2>1, <2>2, <2>3 DEF Negate
<1>14. Exp[n].e \in {"Literal", "IfElse", "Cons", "Arithmetic", "Comparison", "Logical", "Not", "Negate"}
  BY PartsOf DEF Arity
<1> QED
  BY <1>7, <1>8, <1>9, <1>10, <1>11, <1>12, <1>13, <1>14

(* Functions, their applications, lets and names.                          *)
LEMMA StepCasesBinder ==
  ASSUME NEW n \in Nodes, Work(n),
         Exp[n].e \in {"Abstraction", "Let", "Variable", "Application"}
  PROVE  StepOf(n)
<1>1. /\ Len(Exp[n].parts) = Arity[Exp[n].e] /\ Parts(n) = 1 .. Len(Exp[n].parts)
  BY PartsOf
<1>2. CASE Exp[n].e = "Variable"
  <2>1. InferVariable(n)
    BY <1>2 DEF Work
  <2>2. CASE Refuse
    BY <2>2 DEF StepOf
  <2>3. CASE ~Refuse
    <3> DEFINE p == ctx[Exp[n].x]
    <3>1. /\ At(n, 0, 0) /\ p # Unbound /\ UNCHANGED ctx
          /\ \E k \in 0 .. (MaxVars - allocated) :
                 \E f \in Fresh(Range(p.gen), k) :
                   /\ Return(n, Rename(Apply(p.t, sub), f))
                   /\ inst' = [inst EXCEPT ![n] = [v \in DOMAIN p.gen |-> f[p.gen[v]]]]
                   /\ allocated' = allocated + k
      BY <2>1, <2>3 DEF InferVariable
    <3> HIDE DEF p
    <3>2. \E k, f : InstantiatesBy(n, p, k, f)
      BY <3>1 DEF InstantiatesBy, p
    <3>3. ReturnsInstance(n)
      BY <1>2, <3>1, <3>2 DEF ReturnsInstance, At
    <3> QED
      BY <3>3 DEF StepOf
  <2> QED
    BY <2>2, <2>3
<1>3. CASE Exp[n].e = "Application"
  <2>1. /\ Application(n) /\ Mentioned(n) = << {1, 2} >> /\ Result(n) = var[n]
        /\ Parts(n) = {1, 2} /\ Len(Exp[n].parts) = 2 /\ Binds(n) = {} /\ ~Generalises(n)
    BY <1>1, <1>3 DEF Work, Mentioned, Result, TypeOf, Arity, Binds, Generalises, IsLet
  <2>2. Asks(n)' = << <<typ'[Part(n, 1)], Fn(typ'[Part(n, 2)], var'[n])>> >>
    BY <1>3 DEF Asks, TypeOf
  <2>3. CASE At(n, 0, 0) /\ JustCall(n, 1)
    BY <2>1, <2>3 DEF At, StepOf, PlainCall
  <2>4. CASE At(n, 1, 0) /\ JustCall(n, 2)
    BY <2>1, <2>4 DEF At, StepOf, PlainCall
  <2>5. CASE At(n, 2, 0) /\ Allocate(n) /\ Ask(n, typ[Part(n, 1)], Fn(typ[Part(n, 2)], var'[n]))
    <3>1. part[n] = 2 /\ asked[n] = 0 /\ asked[n] + 1 = 1 /\ 1 \in DOMAIN Mentioned(n)
          /\ Mentioned(n)[1] = {1, 2}
      BY <2>1, <2>5 DEF At
    <3>2. Asks(n)'[1] = <<typ[Part(n, 1)], Fn(typ[Part(n, 2)], var'[n])>>
      BY <2>2, <2>5 DEF Ask
    <3>3. AsksFor(n)
      BY <1>3, <2>1, <2>5, <3>1, <3>2 DEF AsksFor
    <3> QED
      BY <3>3 DEF StepOf
  <2>6. CASE At(n, 2, 1) /\ JustReturn(n, var[n])
    BY <1>3, <2>1, <2>6 DEF At, StepOf, ReturnsResult, JustReturn
  <2> QED
    BY <2>1, <2>3, <2>4, <2>5, <2>6 DEF Application
<1>4. CASE Exp[n].e = "Abstraction"
  <2>1. /\ Abstraction(n) /\ Mentioned(n) = <<>> /\ Result(n) = Fn(var[n], typ[Part(n, 1)])
        /\ Parts(n) = {1} /\ Len(Exp[n].parts) = 1 /\ Binds(n) = {1} /\ ~IsLet(n)
    BY <1>1, <1>4 DEF Work, Mentioned, Result, TypeOf, Arity, Binds, IsLet
  <2>2. CASE /\ At(n, 0, 0)
             /\ Allocate(n)
             /\ old' = [old EXCEPT ![n] = ctx[Exp[n].x]]
             /\ ctx' = [ctx EXCEPT ![Exp[n].x] = Mono(var'[n])]
             /\ Call(n, 1)
             /\ UNCHANGED scheme
    BY <2>1, <2>2 DEF At, StepOf, OpensBinder
  <2>3. CASE /\ At(n, 1, 0)
             /\ ctx' = [ctx EXCEPT ![Exp[n].x] = old[n]]
             /\ Return(n, Fn(var[n], typ[Part(n, 1)]))
             /\ UNCHANGED <<inst, allocated>>
    BY <1>4, <2>1, <2>3 DEF At, StepOf, ReturnsResult
  <2> QED
    BY <2>1, <2>2, <2>3 DEF Abstraction
<1>5. CASE Exp[n].e = "Let"
  <2>1. /\ Let(n) /\ Mentioned(n) = << {1} >> /\ Result(n) = typ[Part(n, 2)]
        /\ Parts(n) = {1, 2} /\ Len(Exp[n].parts) = 2 /\ Binds(n) = {1, 2} /\ IsLet(n)
    BY <1>1, <1>5 DEF Work, Mentioned, Result, TypeOf, Arity, Binds, IsLet
  <2>2. Asks(n)' = << <<typ'[Part(n, 1)], var'[n]>> >>
    BY <1>5 DEF Asks, TypeOf
  <2>3. CASE /\ At(n, 0, 0) /\ Exp[n].x \notin DOMAIN RuntimeTypes
             /\ Allocate(n)
             /\ old' = [old EXCEPT ![n] = [ctx[Exp[n].x] EXCEPT !.t = Apply(@, sub)]]
             /\ ctx' = [ctx EXCEPT ![Exp[n].x] = Mono(var'[n])]
             /\ Call(n, 1)
             /\ UNCHANGED scheme
    BY <1>5, <2>1, <2>3 DEF At, StepOf, OpensBinder
  <2>4. CASE At(n, 1, 0) /\ JustAsk(n, typ[Part(n, 1)], var[n])
    <3>1. part[n] = 1 /\ asked[n] = 0 /\ asked[n] + 1 = 1 /\ 1 \in DOMAIN Mentioned(n)
          /\ Mentioned(n)[1] = {1} /\ ~Generalises(n)
      BY <2>1, <2>4 DEF At, Generalises
    <3>2. Asks(n)'[1] = <<typ[Part(n, 1)], var[n]>>
      BY <2>2, <2>4 DEF Ask, JustAsk
    <3>3. AsksFor(n)
      BY <2>1, <2>4, <3>1, <3>2 DEF AsksFor, JustAsk
    <3> QED
      BY <3>3 DEF StepOf
  <2>5. CASE /\ At(n, 1, 1)
             /\ \E k \in 0 .. (MaxVars - allocated) :
                  \E m \in Fresh(Generalised(n), k) :
                    LET p == [gen |-> m, t |-> Rename(Typ(Part(n, 1)), m)]
                    IN  /\ p.t \in Types
                        /\ scheme' = [scheme EXCEPT ![n] = p]
                        /\ ctx' = [ctx EXCEPT ![Exp[n].x] = p]
                        /\ allocated' = allocated + k
             /\ Call(n, 2)
             /\ UNCHANGED <<var, old>>
    <3>1. PICK k \in 0 .. (MaxVars - allocated) : \E m \in Fresh(Generalised(n), k) :
                LET p == [gen |-> m, t |-> Rename(Typ(Part(n, 1)), m)]
                IN  /\ p.t \in Types
                    /\ scheme' = [scheme EXCEPT ![n] = p]
                    /\ ctx' = [ctx EXCEPT ![Exp[n].x] = p]
                    /\ allocated' = allocated + k
      BY <2>5
    <3>2. \E m : GeneralisesBy(n, k, m)
      BY <3>1 DEF GeneralisesBy
    <3>3. GeneralisesLet(n)
      BY <2>1, <2>5, <3>2 DEF GeneralisesLet, At
    <3> QED
      BY <3>3 DEF StepOf
  <2>6. CASE At(n, 2, 1) /\ JustReturn(n, typ[Part(n, 2)])
    BY <1>5, <2>1, <2>6 DEF At, StepOf, ReturnsResult, JustReturn
  <2>7. CASE Refuse
    BY <2>7 DEF StepOf
  <2> QED
    BY <2>1, <2>3, <2>4, <2>5, <2>6, <2>7 DEF Let
<1> QED
  BY <1>2, <1>3, <1>4, <1>5

(* What a step of W is.                                                    *)
LEMMA StepCases ==
  ASSUME NEW n \in Nodes, Work(n)
  PROVE  StepOf(n)
BY StepCasesSimple, StepCasesBinder

-----------------------------------------------------------------------------
(* 2. The tree of calls, and what is in scope in it.                       *)

(* Only the innermost call works.                                          *)
LEMMA WorkRuns ==
  ASSUME NEW n, Work(n)
  PROVE  Runs(n)
BY DEF Work, At, Literal, InferVariable, Abstraction, Application, Let, IfElse, Cons,
       Operation, Logical, Not, Negate

(* What a step does to the tree of calls. *)
TreeCalls(n, i) ==
  /\ i \in Parts(n) /\ i = part[n] + 1
  /\ called' = called \cup {Part(n, i)} /\ part' = [part EXCEPT ![n] = i] /\ done' = done
TreeReturns(n) ==
  /\ part[n] = Len(Exp[n].parts)
  /\ called' = called /\ part' = part /\ done' = done \cup {n}
TreeStays == called' = called /\ part' = part /\ done' = done

(* In the tree of calls, a step calls the next part of its node, or        *)
(* returns, or does neither.                                               *)
LEMMA TreeSteps ==
  ASSUME NEW n \in Nodes, StepOf(n)
  PROVE  (\E i : TreeCalls(n, i)) \/ TreeReturns(n) \/ TreeStays
<1>1. CASE \E i : PlainCall(n, i)
  BY <1>1 DEF PlainCall, JustCall, Call, TreeCalls
<1>2. CASE OpensBinder(n)
  <2>1. TreeCalls(n, 1)
    BY <1>2 DEF OpensBinder, Call, TreeCalls
  <2> QED
    BY <2>1
<1>3. CASE GeneralisesLet(n)
  <2>1. TreeCalls(n, 2)
    BY <1>3 DEF GeneralisesLet, Call, TreeCalls
  <2> QED
    BY <2>1
<1>4. CASE AsksFor(n)
  BY <1>4 DEF AsksFor, Ask, TreeStays
<1>5. CASE ReturnsResult(n)
  BY <1>5 DEF ReturnsResult, Return, TreeReturns
<1>6. CASE ReturnsInstance(n)
  <2>1. part[n] = Len(Exp[n].parts)
    BY <1>6, PartsOf DEF ReturnsInstance, Arity
  <2> QED
    BY <1>6, <2>1 DEF ReturnsInstance, InstantiatesBy, Return, TreeReturns
<1>7. CASE Refuse
  BY <1>7 DEF Refuse, TreeStays
<1> QED
  BY <1>1, <1>2, <1>3, <1>4, <1>5, <1>6, <1>7 DEF StepOf

(* The parts of a node that runs have been done, as far as it has called   *)
(* them.                                                                   *)
LEMMA PartsDone ==
  ASSUME CallsOK, NEW n, Runs(n), NEW i \in Parts(n), i <= part[n]
  PROVE  Part(n, i) \in done
<1>1. n \in Nodes /\ n \in called
  BY DEF Runs, Open, CallsOK
<1>2. Part(n, i) > n /\ Part(n, i) \in Nat /\ n \in Nat
  BY <1>1, PartsOf, NodesAssumption
<1>3. Part(n, i) \in called
  BY <1>1 DEF CallsOK
<1>4. Part(n, i) \notin Open
  BY <1>2 DEF Runs
<1> QED
  BY <1>3, <1>4 DEF Open

(* The part that is called next is new.                                    *)
LEMMA NextPart ==
  ASSUME CallsOK, NEW n, Runs(n), NEW i \in Parts(n), i = part[n] + 1
  PROVE  /\ n \in Nodes /\ Part(n, i) \in Nodes /\ Part(n, i) \notin called
         /\ part[Part(n, i)] = 0 /\ Part(n, i) > n /\ Part(n, i) # n
         /\ \A m \in Open : m < Part(n, i) /\ m # Part(n, i)
         /\ \A j \in Parts(Part(n, i)) : Part(Part(n, i), j) \notin called
<1>1. n \in Nodes /\ n \in called
  BY DEF Runs, Open, CallsOK
<1>2. /\ Part(n, i) \in Nodes /\ Part(n, i) > n /\ part[n] \in Nat /\ i \in Nat /\ n \in Nat
      /\ Part(n, i) \in Nat
  BY <1>1, PartsOf, NodesAssumption DEF CallsOK
<1>3. Part(n, i) \notin called
  BY <1>1, <1>2 DEF CallsOK
<1>4. part[Part(n, i)] = 0
  BY <1>2, <1>3 DEF CallsOK
<1>5. \A m \in Open : m < Part(n, i) /\ m # Part(n, i)
  <2>1. \A m \in Open : m \in Nat /\ m <= n
    BY NodesAssumption DEF CallsOK, Open, Runs
  <2> QED
    BY <1>2, <2>1
<1>6. \A j \in Parts(Part(n, i)) : Part(Part(n, i), j) \notin called
  BY <1>2, <1>4, PartsOf DEF CallsOK
<1> QED
  BY <1>1, <1>2, <1>3, <1>4, <1>5, <1>6

(* Only the part of an open node that is the last called may be open.      *)
LEMMA OpenParts ==
  ASSUME CallsOK, NEW n \in Nodes, NEW i \in Parts(n), Part(n, i) \in Open
  PROVE  i = part[n]
<1>1. i <= part[n] /\ ~(i < part[n]) /\ i \in Nat /\ part[n] \in Nat
  BY PartsOf DEF CallsOK, Open
<1> QED
  BY <1>1

(* A node is a part of one other. *)
LEMMA OneParent ==
  ASSUME NEW m \in Nodes, NEW n \in Nodes, NEW i \in Parts(m), NEW j \in Parts(n),
         Part(m, i) = Part(n, j)
  PROVE  m = n /\ i = j
BY TreeAssumption DEF Parts, Part

(* The tree of calls, after the next part has been called.                 *)
LEMMA CallsOKCall ==
  ASSUME CallsOK, part \in [Nodes -> Nat], NEW n, Runs(n), NEW i, TreeCalls(n, i)
  PROVE  CallsOK'
<1> DEFINE c == Part(n, i)
<1>0. i \in Parts(n) /\ i = part[n] + 1
  BY DEF TreeCalls
<1>1. /\ n \in Nodes /\ c \in Nodes /\ c \notin called /\ part[c] = 0 /\ c # n
      /\ \A j \in Parts(c) : Part(c, j) \notin called
  BY <1>0, NextPart
<1>2. /\ called' = called \cup {c} /\ done' = done
      /\ part'[n] = i /\ \A m \in Nodes : m # n => part'[m] = part[m]
  BY <1>1 DEF TreeCalls
<1>3. n \in called /\ n \notin done
  BY DEF Runs, Open
<1>4. \A m \in Nodes : \A j \in Parts(m) : Part(m, j) = c => m = n /\ j = i
  BY <1>0, <1>1, OneParent
<1> HIDE DEF c
<1>5. done' \subseteq called' /\ called' \subseteq Nodes
  BY <1>1, <1>2 DEF CallsOK
<1>6. \A m \in Nodes \ called' : part'[m] = 0
  BY <1>2, <1>3 DEF CallsOK
<1>7. ASSUME NEW m \in Nodes
      PROVE  /\ part'[m] \in 0 .. Len(Exp[m].parts)
             /\ \A j \in Parts(m) : /\ Part(m, j) \in called' <=> j <= part'[m]
                                    /\ j < part'[m] => Part(m, j) \in done'
  <2>1. CASE m = n
    <3>1. i \in 0 .. Len(Exp[n].parts)
      BY <1>0, <1>1, PartsOf
    <3>2. ASSUME NEW j \in Parts(n)
          PROVE  Part(n, j) \in called' <=> j <= i
      <4>1. j \in Nat /\ part[n] \in Nat
        BY <1>1, PartsOf DEF CallsOK
      <4>2. CASE j = i
        BY <1>2, <4>1, <4>2 DEF c
      <4>3. CASE j # i
        <5>1. Part(n, j) # c
          BY <1>1, <1>4, <4>3
        <5>2. Part(n, j) \in called' <=> j <= part[n]
          BY <1>1, <1>2, <5>1 DEF CallsOK
        <5> QED
          BY <1>0, <4>1, <4>3, <5>2
      <4> QED
        BY <4>2, <4>3
    <3>3. ASSUME NEW j \in Parts(n), j < i
          PROVE  Part(n, j) \in done
      <4>1. j \in Nat /\ part[n] \in Nat
        BY <1>1, PartsOf DEF CallsOK
      <4>2. j <= part[n]
        BY <1>0, <3>3, <4>1
      <4> QED
        BY <4>2, PartsDone
    <3> QED
      BY <1>2, <2>1, <3>1, <3>2, <3>3
  <2>2. CASE m # n
    <3>1. part'[m] = part[m] /\ \A j \in Parts(m) : Part(m, j) # c
      BY <1>2, <1>4, <2>2
    <3> QED
      BY <1>2, <3>1 DEF CallsOK
  <2> QED
    BY <2>1, <2>2
<1>8. ASSUME NEW m \in done'
      PROVE  part'[m] = Len(Exp[m].parts) /\ \A j \in Parts(m) : Part(m, j) \in done'
  <2>1. m \in done /\ m \in Nodes /\ m # n
    BY <1>2, <1>3, <1>8 DEF CallsOK
  <2> QED
    BY <1>2, <2>1 DEF CallsOK
<1> QED
  BY <1>5, <1>6, <1>7, <1>8 DEF CallsOK

(* ... and after a call has returned.                                      *)
LEMMA CallsOKReturn ==
  ASSUME CallsOK, NEW n, Runs(n), TreeReturns(n)
  PROVE  CallsOK'
<1>1. n \in called /\ n \in Nodes /\ n \notin done
  BY DEF Runs, Open, CallsOK
<1>2. called' = called /\ part' = part /\ done' = done \cup {n}
  BY DEF TreeReturns
<1>3. \A i \in Parts(n) : Part(n, i) \in done
  <2>1. \A i \in Parts(n) : i <= part[n]
    BY <1>1, PartsOf DEF TreeReturns
  <2> QED
    BY <2>1, PartsDone
<1> QED
  BY <1>1, <1>2, <1>3 DEF CallsOK, TreeReturns

(* The chain of open nodes, after a call ...                               *)
LEMMA ChainCall ==
  ASSUME CallsOK, Chain, part \in [Nodes -> Nat], NEW n, Runs(n), NEW i, TreeCalls(n, i)
  PROVE  Chain'
<1> DEFINE c == Part(n, i)
<1>0. i \in Parts(n) /\ i = part[n] + 1
  BY DEF TreeCalls
<1>1. /\ n \in Nodes /\ c \in Nodes /\ c \notin called /\ c # n
      /\ \A m \in Open : m < c /\ m # c
  BY <1>0, NextPart
<1>2. /\ called' = called \cup {c} /\ done' = done
      /\ part'[n] = i /\ \A m \in Nodes : m # n => part'[m] = part[m]
  BY <1>1 DEF TreeCalls
<1>3. Open' = Open \cup {c}
  BY <1>1, <1>2 DEF Open, CallsOK
<1>4. \A m \in Open \cup {c} : m \in Nodes /\ m \in Nat
  BY <1>1, NodesAssumption DEF CallsOK, Open
<1> SUFFICES ASSUME NEW k \in Open', NEW m \in Open', k < m
             PROVE  /\ part'[k] \in Parts(k) /\ Part(k, part'[k]) \in Open'
                    /\ Part(k, part'[k]) <= m
  BY DEF Chain
<1>5. n \in Open /\ \A l \in Open : l <= n
  BY DEF Runs
<1>6. k \in Open
  <2>1. CASE k = c
    <3>1. m < c \/ m = c
      BY <1>1, <1>3
    <3> QED
      BY <1>3, <1>4, <2>1, <3>1
  <2> QED
    BY <1>3, <2>1
<1>7. CASE k = n
  <2>1. m = c
    <3>1. m \in Open => m <= n
      BY <1>5
    <3> QED
      BY <1>3, <1>4, <1>7, <3>1
  <2>2. c <= m
    BY <1>4, <2>1
  <2> QED
    BY <1>0, <1>2, <1>3, <1>7, <2>2
<1>8. CASE k # n
  <2>1. k < n
    BY <1>4, <1>5, <1>6, <1>8
  <2>2. part'[k] = part[k]
    BY <1>2, <1>4, <1>6, <1>8
  <2>3. \A l \in Open : k < l => part[k] \in Parts(k) /\ Part(k, part[k]) \in Open /\ Part(k, part[k]) <= l
    BY <1>6 DEF Chain
  <2>4. CASE m \in Open
    BY <1>3, <2>2, <2>3, <2>4
  <2>5. CASE m = c
    <3>1. Part(k, part[k]) <= n /\ n < c /\ Part(k, part[k]) \in Open
      BY <1>1, <1>5, <2>1, <2>3
    <3>2. Part(k, part[k]) <= c
      BY <1>4, <1>5, <3>1
    <3> QED
      BY <1>3, <1>5, <2>1, <2>2, <2>3, <2>5, <3>2
  <2> QED
    BY <1>3, <2>4, <2>5
<1> QED
  BY <1>7, <1>8

(* ... and after a return.                                                 *)
LEMMA ChainReturn ==
  ASSUME CallsOK, Chain, NEW n, Runs(n), TreeReturns(n)
  PROVE  Chain'
<1>1. called' = called /\ part' = part /\ done' = done \cup {n}
  BY DEF TreeReturns
<1>2. Open' = Open \ {n} /\ n \in Open /\ \A l \in Open : l <= n
  BY <1>1 DEF Open, Runs
<1>3. \A m \in Open : m \in Nat
  BY NodesAssumption DEF CallsOK, Open
<1> SUFFICES ASSUME NEW k \in Open', NEW m \in Open', k < m
             PROVE  /\ part'[k] \in Parts(k) /\ Part(k, part'[k]) \in Open'
                    /\ Part(k, part'[k]) <= m
  BY DEF Chain
<1>4. /\ part[k] \in Parts(k) /\ Part(k, part[k]) \in Open /\ Part(k, part[k]) <= m
  BY <1>2 DEF Chain
<1>5. Part(k, part[k]) # n
  <2>1. m < n
    BY <1>2, <1>3
  <2> QED
    BY <1>2, <1>3, <1>4, <2>1
<1> QED
  BY <1>1, <1>2, <1>4, <1>5

(* What is in scope in the parts of a node.                                *)
LEMMA ScopeOfPart ==
  ASSUME NEW n \in Nodes, NEW i \in Parts(n), NEW y \in Idents
  PROVE  /\ i \in Binds(n) /\ y = Exp[n].x => Scope[Part(n, i)][y] = <<n, i>>
         /\ i \notin Binds(n) \/ y # Exp[n].x => Scope[Part(n, i)][y] = Scope[n][y]
<1>1. Scope[Part(n, i)] = InScope(n, i)
  BY ScopeAssumption DEF Parts, Part
<1>2. Scope[n] \in [Idents -> {None} \cup Nodes \X {1, 2}]
  BY ScopeAssumption
<1> QED
  BY <1>1, <1>2 DEF InScope

(* The names in scope are bound by open nodes, after a call ...            *)
LEMMA ScopesOKCall ==
  ASSUME CallsOK, ScopesOK, part \in [Nodes -> Nat], NEW n, Runs(n), NEW i, TreeCalls(n, i)
  PROVE  ScopesOK'
<1> DEFINE c == Part(n, i)
<1>0. i \in Parts(n) /\ i = part[n] + 1
  BY DEF TreeCalls
<1>1. /\ n \in Nodes /\ c \in Nodes /\ c \notin called /\ c # n /\ n < c
      /\ \A m \in Open : m < c /\ m # c
  BY <1>0, NextPart
<1>2. /\ called' = called \cup {c} /\ done' = done
      /\ part'[n] = i /\ \A m \in Nodes : m # n => part'[m] = part[m]
  BY <1>1 DEF TreeCalls
<1>3. Open' = Open \cup {c}
  BY <1>1, <1>2 DEF Open, CallsOK
<1>4. \A m \in Open \cup {c} : m \in Nodes /\ m \in Nat
  BY <1>1, NodesAssumption DEF CallsOK, Open
<1>5. n \in Open /\ n \in called /\ \A l \in Open : l <= n
  BY DEF Runs, Open
<1>6. \A y \in Idents : Scope[c][y] = Scope[n][y]
                        \/ (i \in Binds(n) /\ y = Exp[n].x /\ Scope[c][y] = <<n, i>>)
  BY <1>0, <1>1, ScopeOfPart
<1>7. \A m \in Open : \A k, b : BoundIn(m, k, b) => BoundIn(m, k, b)'
  <2> SUFFICES ASSUME NEW m \in Open, NEW k, NEW b, BoundIn(m, k, b)
               PROVE  \E l \in Open' : k <= l /\ l < m /\ b = <<l, part'[l]>>
    BY DEF BoundIn
  <2>1. PICK l \in Open : k <= l /\ l < m /\ b = <<l, part[l]>>
    BY DEF BoundIn
  <2>2. l # n /\ l \in Nodes
    BY <1>4, <1>5, <2>1
  <2> QED
    BY <1>2, <1>3, <2>1, <2>2
<1>8. \A k, b : BoundIn(n, k, b) => BoundIn(c, k, b)'
  <2> SUFFICES ASSUME NEW k, NEW b, BoundIn(n, k, b)
               PROVE  \E l \in Open' : k <= l /\ l < c /\ b = <<l, part'[l]>>
    BY DEF BoundIn
  <2>1. PICK l \in Open : k <= l /\ l < n /\ b = <<l, part[l]>>
    BY DEF BoundIn
  <2>2. l # n /\ l \in Nodes /\ l < c
    BY <1>1, <1>4, <1>5, <2>1
  <2> QED
    BY <1>2, <1>3, <2>1, <2>2
<1>9. \A k : k <= n => BoundIn(c, k, <<n, i>>)'
  <2>1. n \in Open' /\ n < c /\ <<n, i>> = <<n, part'[n]>>
    BY <1>1, <1>2, <1>3, <1>5
  <2> QED
    BY <2>1 DEF BoundIn
<1>10. \A m \in called' : m \in called \/ m = c
  BY <1>2
<1> HIDE DEF c
<1>11. ASSUME NEW m \in Open', NEW y \in Idents, Scope[m][y] # None
       PROVE  BoundIn(m, 0, Scope[m][y])'
  <2>1. CASE m \in Open
    <3>1. BoundIn(m, 0, Scope[m][y])
      BY <1>11, <2>1 DEF ScopesOK
    <3> QED
      BY <1>7, <2>1, <3>1
  <2>2. CASE m = c
    <3>1. CASE Scope[c][y] = <<n, i>>
      <4>1. 0 <= n
        BY <1>4, <1>5
      <4> QED
        BY <1>9, <2>2, <3>1, <4>1
    <3>2. CASE Scope[c][y] = Scope[n][y]
      <4>1. BoundIn(n, 0, Scope[n][y])
        BY <1>5, <1>11, <2>2, <3>2 DEF ScopesOK
      <4> QED
        BY <1>8, <2>2, <3>2, <4>1
    <3> QED
      BY <1>6, <3>1, <3>2
  <2> QED
    BY <1>3, <2>1, <2>2
<1>12. ASSUME NEW k \in Open', NEW m \in Open', NEW y \in Idents, k <= m
       PROVE  Scope[m][y] = Scope[k][y] \/ BoundIn(m, k, Scope[m][y])'
  <2>1. CASE m \in Open
    <3>1. k \in Open
      <4>1. CASE k = c
        BY <1>1, <1>4, <1>12, <2>1, <4>1
      <4> QED
        BY <1>3, <4>1
    <3>2. Scope[m][y] = Scope[k][y] \/ BoundIn(m, k, Scope[m][y])
      BY <1>12, <2>1, <3>1 DEF ScopesOK
    <3> QED
      BY <1>7, <2>1, <3>2
  <2>2. CASE m = c /\ k = c
    BY <2>2
  <2>3. CASE m = c /\ k \in Open
    <3>1. k <= n
      BY <1>5, <2>3
    <3>2. CASE Scope[c][y] = <<n, i>>
      BY <1>9, <2>3, <3>1, <3>2
    <3>3. CASE Scope[c][y] = Scope[n][y]
      <4>1. Scope[n][y] = Scope[k][y] \/ BoundIn(n, k, Scope[n][y])
        BY <1>5, <2>3, <3>1 DEF ScopesOK
      <4> QED
        BY <1>8, <2>3, <3>3, <4>1
    <3> QED
      BY <1>6, <3>2, <3>3
  <2> QED
    BY <1>3, <2>1, <2>2, <2>3
<1>13. ASSUME NEW m \in called', NEW y \in Idents, Scope[m][y] # None
       PROVE  \E a \in called', j \in {1, 2} :
                 Scope[m][y] = <<a, j>> /\ j \in Binds(a) /\ j <= part'[a]
  <2>1. ASSUME NEW d \in called, Scope[d][y] # None
        PROVE  \E a \in called', j \in {1, 2} :
                  Scope[d][y] = <<a, j>> /\ j \in Binds(a) /\ j <= part'[a]
    <3>1. PICK a \in called, j \in {1, 2} : Scope[d][y] = <<a, j>> /\ j \in Binds(a) /\ j <= part[a]
      BY <2>1 DEF ScopesOK
    <3>2. a \in Nodes
      BY DEF CallsOK
    <3>3. part[a] \in Nat /\ part[n] \in Nat /\ j <= part'[a]
      BY <1>0, <1>1, <1>2, <3>1, <3>2
    <3> QED
      BY <1>2, <3>1, <3>3
  <2>2. CASE m \in called
    BY <1>13, <2>1, <2>2
  <2>3. CASE m = c /\ Scope[c][y] = Scope[n][y]
    BY <1>5, <1>13, <2>1, <2>3
  <2>4. CASE m = c /\ i \in Binds(n) /\ Scope[c][y] = <<n, i>>
    <3>1. n \in called' /\ i \in {1, 2} /\ i <= part'[n]
      BY <1>2, <1>5, <2>4 DEF Binds
    <3> QED
      BY <2>4, <3>1
  <2> QED
    BY <1>6, <1>10, <2>2, <2>3, <2>4
<1> QED
  BY <1>11, <1>12, <1>13 DEF ScopesOK

(* ... and after a return.                                                 *)
LEMMA ScopesOKReturn ==
  ASSUME CallsOK, ScopesOK, NEW n, Runs(n), TreeReturns(n)
  PROVE  ScopesOK'
<1>1. called' = called /\ part' = part /\ done' = done \cup {n}
  BY DEF TreeReturns
<1>2. Open' = Open \ {n} /\ n \in Open /\ \A l \in Open : l <= n
  BY <1>1 DEF Open, Runs
<1>3. \A m \in Open : m \in Nat
  BY NodesAssumption DEF CallsOK, Open
<1>4. \A m \in Open' : \A k, b : BoundIn(m, k, b) => BoundIn(m, k, b)'
  <2> SUFFICES ASSUME NEW m \in Open', NEW k, NEW b, BoundIn(m, k, b)
               PROVE  \E l \in Open' : k <= l /\ l < m /\ b = <<l, part'[l]>>
    BY DEF BoundIn
  <2>1. PICK l \in Open : k <= l /\ l < m /\ b = <<l, part[l]>>
    BY DEF BoundIn
  <2>2. l # n
    BY <1>2, <1>3, <2>1
  <2> QED
    BY <1>1, <1>2, <2>1, <2>2
<1>5. ASSUME NEW m \in Open', NEW y \in Idents, Scope[m][y] # None
      PROVE  BoundIn(m, 0, Scope[m][y])'
  <2>1. BoundIn(m, 0, Scope[m][y])
    BY <1>2, <1>5 DEF ScopesOK
  <2> QED
    BY <1>4, <2>1
<1>6. ASSUME NEW k \in Open', NEW m \in Open', NEW y \in Idents, k <= m
      PROVE  Scope[m][y] = Scope[k][y] \/ BoundIn(m, k, Scope[m][y])'
  <2>1. Scope[m][y] = Scope[k][y] \/ BoundIn(m, k, Scope[m][y])
    BY <1>2, <1>6 DEF ScopesOK
  <2> QED
    BY <1>4, <2>1
<1>7. ASSUME NEW m \in called', NEW y \in Idents, Scope[m][y] # None
      PROVE  \E a \in called', j \in {1, 2} :
                 Scope[m][y] = <<a, j>> /\ j \in Binds(a) /\ j <= part'[a]
  BY <1>1, <1>7 DEF ScopesOK
<1> QED
  BY <1>5, <1>6, <1>7 DEF ScopesOK

(* The calls in progress, and what is in scope. *)
Tree == CallsOK /\ Chain /\ ScopesOK

(* A step of W keeps the tree of calls and the scopes as they should be,   *)
(* ...                                                                     *)
LEMMA TreeStep ==
  ASSUME Tree, part \in [Nodes -> Nat], NEW n \in Nodes, Runs(n), StepOf(n)
  PROVE  Tree'
<1>1. CASE \E i : TreeCalls(n, i)
  BY <1>1, CallsOKCall, ChainCall, ScopesOKCall DEF Tree
<1>2. CASE TreeReturns(n)
  BY <1>2, CallsOKReturn, ChainReturn, ScopesOKReturn DEF Tree
<1>3. CASE TreeStays
  BY <1>3 DEF TreeStays, Tree, CallsOK, Chain, ScopesOK, BoundIn, Open
<1> QED
  BY <1>1, <1>2, <1>3, TreeSteps

(* ... and so does what changes nothing of W.                              *)
LEMMA TreeKept ==
  ASSUME Tree, UNCHANGED wvars
  PROVE  Tree'
BY DEF wvars, Tree, CallsOK, Chain, ScopesOK, BoundIn, Open

-----------------------------------------------------------------------------
(* 3. The types that W keeps: they are types, also under the bindings.     *)

(* Types without variables are left alone.                                 *)
LEMMA ClosedStays ==
  ASSUME IInv, NEW t, Closed(t)
  PROVE  Apply(t, sub) = t /\ F(t) = {} /\ t \in Types /\ t \in Terms
<1>1. t \in Terms /\ FreeVariables(t) = {}
  BY DEF Closed, Terms
<1> QED
  BY <1>1 DEF IInv, Composed, Leaves, F, Closed

(* ... such as those that nothing is known about.                          *)
LEMMA UnknownStays ==
  ASSUME IInv
  PROVE  /\ Apply(Unknown, sub) = Unknown /\ F(Unknown) = {} /\ Unknown \in Types
         /\ FreeVariables(Unknown) = {}
         /\ Unbound.t = Unknown /\ Unbound.gen = Nothing /\ DOMAIN Nothing = {} /\ Range(Nothing) = {}
BY ClosedStays, TypesAssumption DEF Closed, Unbound, Mono, Nothing, Range

(* The bindings leave no variable that is bound, and bring in only what    *)
(* they mention.                                                           *)
LEMMA FreeLeft ==
  ASSUME IInv, NEW t \in Terms, Apply(t, sub) \in Terms
  PROVE  F(t) \subseteq (FreeVariables(t) \cup Mentions(sub)) \ Bound
BY DEF IInv, Composed, Removes, F, Bound, BoundBy

(* What is not bound is left alone.                                        *)
LEMMA Untouched ==
  ASSUME IInv, NEW t \in Terms, FreeVariables(t) \cap Bound = {}
  PROVE  Apply(t, sub) = t /\ F(t) = FreeVariables(t)
BY DEF IInv, Composed, Leaves, F, Bound, BoundBy

(* What the bindings make of the types of W are types.                     *)
LEMMA TypesWithin ==
  ASSUME IInv, CallsOK, WTypeOK, WithinW, NEW n \in Nodes
  PROVE  /\ Apply(typ[n], sub) \in Types /\ Apply(var[n], sub) \in Types
         /\ Apply(scheme[n].t, sub) \in Types
         /\ \A v \in DOMAIN inst[n] : Apply(Var(inst[n][v]), sub) \in Types
<1>1. CASE n \in called
  BY <1>1 DEF WithinW
<1>2. CASE n \notin called
  <2>1. n \notin done /\ part[n] = 0
    BY <1>2 DEF CallsOK
  <2>2. typ[n] = Unknown /\ var[n] = Unknown /\ inst[n] = Nothing /\ scheme[n] = Unbound
    BY <1>2, <2>1 DEF WTypeOK, Generalises
  <2> QED
    BY <2>2, UnknownStays
<1> QED
  BY <1>1, <1>2

(* Their variables have been allocated, and are not bound.                 *)
LEMMA FreeAllocated ==
  ASSUME IInv, CallsOK, WTypeOK, WithinW, NamesOK, NEW n \in Nodes
  PROVE  /\ F(typ[n]) \subseteq Allocated \ Bound /\ F(var[n]) \subseteq Allocated \ Bound
         /\ F(scheme[n].t) \subseteq Allocated \ Bound
<1>1. /\ typ[n] \in Types /\ var[n] \in Types /\ scheme[n].t \in Types
      /\ Apply(typ[n], sub) \in Types /\ Apply(var[n], sub) \in Types /\ Apply(scheme[n].t, sub) \in Types
  BY TypesWithin DEF WTypeOK
<1>2. \A t \in Types : Apply(t, sub) \in Types /\ FreeVariables(t) \subseteq Allocated
                         => F(t) \subseteq Allocated \ Bound
  <2>1. Mentions(sub) \subseteq Allocated
    BY DEF NamesOK
  <2> QED
    BY <2>1, FreeLeft DEF Terms
<1> QED
  BY <1>1, <1>2 DEF NamesOK

(* A variable that is allocated is new. *)
Allots(n) ==
  /\ allocated < MaxVars /\ allocated' = allocated + 1
  /\ var'[n] = Var(NewTypeVar(allocated))
  /\ asked[n] = 0
  /\ \/ part[n] = 0 /\ part'[n] = 1 /\ 1 \in Binds(n)
     \/ part'[n] = part[n] /\ Exp[n].e = "Application"

(* What a step leaves alone.                                               *)
LEMMA Frame ==
  ASSUME WTypeOK, CallsOK, NEW n \in Nodes, StepOf(n)
  PROVE  /\ sub' = sub /\ ctr' = ctr
         /\ \A m \in Nodes : m # n =>
              /\ var'[m] = var[m] /\ scheme'[m] = scheme[m] /\ inst'[m] = inst[m]
              /\ typ'[m] = typ[m] /\ asked'[m] = asked[m] /\ part'[m] = part[m]
         /\ var'[n] = var[n] \/ Allots(n)
         /\ scheme'[n] = scheme[n] \/ GeneralisesLet(n)
         /\ typ'[n] = typ[n] \/ n \in done'
         /\ inst'[n] = inst[n] \/ ReturnsInstance(n)
         /\ allocated \in Nat /\ allocated' \in allocated .. MaxVars
<1>0. MaxVars \in Nat /\ allocated \in 0 .. MaxVars
  BY CounterAssumption DEF WTypeOK
<1>1. CASE \E i : PlainCall(n, i)
  BY <1>0, <1>1 DEF PlainCall, JustCall, Call, WTypeOK, vars
<1>2. CASE OpensBinder(n)
  BY <1>0, <1>2 DEF OpensBinder, Call, Allocate, WTypeOK, vars, Allots
<1>3. CASE GeneralisesLet(n)
  <2>1. PICK k, m : GeneralisesBy(n, k, m)
    BY <1>3 DEF GeneralisesLet
  <2>2. /\ Call(n, 2) /\ UNCHANGED var /\ k \in 0 .. (MaxVars - allocated) /\ allocated' = allocated + k
        /\ \A j \in Nodes : j # n => scheme'[j] = scheme[j]
    BY <1>3, <2>1 DEF GeneralisesLet, GeneralisesBy, WTypeOK
  <2> QED
    BY <1>0, <1>3, <2>2 DEF Call, WTypeOK, vars
<1>4. CASE AsksFor(n)
  <2>1. PICK l, r : Ask(n, l, r)
    BY <1>4 DEF AsksFor
  <2>2. CASE UNCHANGED <<var, allocated>>
    BY <1>0, <2>1, <2>2 DEF Ask, Equate, WTypeOK
  <2>3. CASE asked[n] = 0 /\ Exp[n].e = "Application" /\ Allocate(n)
    BY <1>0, <2>1, <2>3 DEF Ask, Equate, Allocate, WTypeOK, Allots
  <2> QED
    BY <1>4, <2>2, <2>3 DEF AsksFor
<1>5. CASE ReturnsResult(n)
  BY <1>0, <1>5 DEF ReturnsResult, Return, WTypeOK, vars
<1>6. CASE ReturnsInstance(n)
  <2>1. PICK p, k, f : InstantiatesBy(n, p, k, f)
    BY <1>6 DEF ReturnsInstance
  <2> DEFINE t == Rename(Apply(p.t, sub), f)
             u == [v \in DOMAIN p.gen |-> f[p.gen[v]]]
  <2>2. /\ Return(n, t) /\ k \in 0 .. (MaxVars - allocated) /\ allocated' = allocated + k
        /\ inst' = [inst EXCEPT ![n] = u]
    BY <2>1 DEF InstantiatesBy
  <2> HIDE DEF t, u
  <2> QED
    BY <1>0, <1>6, <2>2 DEF Return, WTypeOK, vars
<1>7. CASE Refuse
  BY <1>0, <1>7 DEF Refuse, WTypeOK, vars
<1> QED
  BY <1>1, <1>2, <1>3, <1>4, <1>5, <1>6, <1>7 DEF StepOf

(* The next variables that are allocated are new. *)
LEMMA NewVars ==
  ASSUME WTypeOK, NEW k \in 0 .. (MaxVars - allocated)
  PROVE  /\ New(k) \cap Allocated = {}
         /\ \A v \in New(k) : v \in EquationVars /\ v \in AllVars /\ Var(v) \in Types
                              /\ Var(v) \in Terms /\ FreeVariables(Var(v)) = {v}
         /\ allocated' = allocated + k => Allocated' = Allocated \cup New(k)
<1>1. allocated \in Nat /\ MaxVars \in Nat /\ k \in Nat /\ allocated + k <= MaxVars
  BY CounterAssumption DEF WTypeOK
<1>2. \A i \in allocated .. (allocated + k - 1) : i \in 0 .. (MaxVars - 1)
  BY <1>1
<1>3. \A i \in 0 .. (allocated - 1) : i \in 0 .. (MaxVars - 1)
  BY <1>1
<1>4. New(k) \cap Allocated = {}
  <2>1. \A i \in allocated .. (allocated + k - 1), j \in 0 .. (allocated - 1) : i # j
    BY <1>1
  <2> QED
    BY <1>2, <1>3, <2>1, CounterAssumption DEF New, Allocated
<1>5. ASSUME NEW v \in New(k)
      PROVE  v \in EquationVars /\ v \in AllVars /\ Var(v) \in Types
             /\ Var(v) \in Terms /\ FreeVariables(Var(v)) = {v}
  <2>1. v \in EquationVars /\ v \in TypeVars /\ Var(v) \in Types
    BY <1>2, CounterAssumption DEF New
  <2> QED
    BY <2>1, FreeOfVariable, VarShape DEF AllVars, Terms
<1>6. allocated' = allocated + k => Allocated' = Allocated \cup New(k)
  <2> DEFINE S == 0 .. (allocated + k - 1)
             T == 0 .. (allocated - 1)
             U == allocated .. (allocated + k - 1)
  <2>1. S = T \cup U
    BY <1>1
  <2>2. New(k) = {NewTypeVar(i) : i \in U} /\ Allocated = {NewTypeVar(i) : i \in T}
    BY DEF New, Allocated
  <2> DEFINE V == 0 .. (allocated' - 1)
  <2>3. Allocated' = {NewTypeVar(i) : i \in V}
    BY DEF Allocated
  <2>4. ASSUME allocated' = allocated + k
        PROVE  V = S
    BY <1>1, <2>4
  <2> HIDE DEF S, T, U, V
  <2> QED
    BY <2>1, <2>2, <2>3, <2>4
<1> QED
  BY <1>4, <1>5, <1>6

(* The next variable, for the functions that allocate one.                 *)
LEMMA NewVar ==
  ASSUME WTypeOK, allocated < MaxVars
  PROVE  /\ NewTypeVar(allocated) \notin Allocated
         /\ NewTypeVar(allocated) \in EquationVars
         /\ Var(NewTypeVar(allocated)) \in Types
         /\ Var(NewTypeVar(allocated)) \in Terms
         /\ FreeVariables(Var(NewTypeVar(allocated))) = {NewTypeVar(allocated)}
         /\ allocated' = allocated + 1 => Allocated' = Allocated \cup {NewTypeVar(allocated)}
<1>1. allocated \in Nat /\ MaxVars \in Nat /\ 1 \in 0 .. (MaxVars - allocated)
  BY CounterAssumption DEF WTypeOK
<1>2. allocated .. (allocated + 1 - 1) = {allocated}
  BY <1>1
<1>3. New(1) = {NewTypeVar(allocated)}
  BY <1>2 DEF New
<1> QED
  BY <1>1, <1>3, NewVars

(* Polytypes that a step makes. *)
LEMMA SchemeSteps ==
  ASSUME WTypeOK, CallsOK, NEW n \in Nodes, Runs(n), StepOf(n), NEW m \in Nodes
  PROVE  /\ DOMAIN scheme' = Nodes
         /\ scheme'[m].t \in Types
         /\ ~Generalises(m)' => scheme'[m] = Unbound
<1>1. CASE GeneralisesLet(n)
  <2>1. PICK k, g : GeneralisesBy(n, k, g)
    BY <1>1 DEF GeneralisesLet
  <2>2. scheme' = [scheme EXCEPT ![n] = [gen |-> g, t |-> Rename(Typ(Part(n, 1)), g)]]
        /\ Rename(Typ(Part(n, 1)), g) \in Types
    BY <2>1 DEF GeneralisesBy
  <2>3. part'[n] = 2 /\ IsLet(n) /\ \A l \in Nodes : l # n => part'[l] = part[l]
    BY <1>1 DEF GeneralisesLet, Call, WTypeOK
  <2>4. CASE m = n
    BY <2>2, <2>3, <2>4 DEF Generalises, WTypeOK
  <2>5. CASE m # n
    BY <2>2, <2>3, <2>5 DEF Generalises, WTypeOK
  <2> QED
    BY <2>4, <2>5
<1>2. CASE ~GeneralisesLet(n)
  <2>1. scheme'[m] = scheme[m]
    BY <1>2, Frame
  <2>2. DOMAIN scheme' = Nodes
    BY <1>2 DEF StepOf, PlainCall, JustCall, OpensBinder, AsksFor, Ask, ReturnsResult, ReturnsInstance,
                InstantiatesBy, Return, Refuse, WTypeOK
  <2>3. Generalises(m) => Generalises(m)'
    <3>1. m # n => part'[m] = part[m]
      BY Frame
    <3>2. m = n /\ Generalises(n) => part'[n] = part[n]
      <4> SUFFICES ASSUME Generalises(n)
                   PROVE  part'[n] = part[n]
        OBVIOUS
      <4>1. Parts(n) = 1 .. 2 /\ part[n] = 2
        BY PartsOf DEF Generalises, IsLet, Arity
      <4>2. ~\E i : TreeCalls(n, i)
        BY <4>1 DEF TreeCalls
      <4> QED
        BY <4>2, TreeSteps DEF TreeReturns, TreeStays
    <3> QED
      BY <3>1, <3>2 DEF Generalises
  <2> QED
    BY <2>1, <2>2, <2>3 DEF WTypeOK
<1> QED
  BY <1>1, <1>2

(* The types of the variables, after a step of W ...                       *)
LEMMA WTypeOKStep ==
  ASSUME IInv, WTypeOK, CallsOK, CallsOK', NEW n \in Nodes, Runs(n), StepOf(n)
  PROVE  WTypeOK'
<1>1. n \in called /\ n \notin done
  BY DEF Runs, Open
<1>2. /\ part' \in [Nodes -> Nat] /\ asked' \in [Nodes -> Nat]
      /\ typ' \in [Nodes -> Types] /\ var' \in [Nodes -> Types] /\ DOMAIN inst' = Nodes
  <2>0. allocated < MaxVars => Var(NewTypeVar(allocated)) \in Types
    BY NewVar
  <2>1. CASE \E i : PlainCall(n, i)
    BY <2>1 DEF PlainCall, JustCall, Call, WTypeOK
  <2>2. CASE OpensBinder(n)
    BY <2>0, <2>2 DEF OpensBinder, Call, Allocate, WTypeOK
  <2>3. CASE GeneralisesLet(n)
    <3>1. Call(n, 2) /\ UNCHANGED var
      BY <2>3 DEF GeneralisesLet
    <3> QED
      BY <3>1 DEF Call, WTypeOK
  <2>4. CASE AsksFor(n)
    <3>1. PICK l, r : Ask(n, l, r)
      BY <2>4 DEF AsksFor
    <3>2. UNCHANGED var \/ Allocate(n)
      BY <2>4 DEF AsksFor
    <3> QED
      BY <2>0, <3>1, <3>2 DEF Ask, Allocate, WTypeOK
  <2>5. CASE ReturnsResult(n)
    BY <2>5 DEF ReturnsResult, Return, WTypeOK
  <2>6. CASE ReturnsInstance(n)
    <3>1. PICK p, k, f : InstantiatesBy(n, p, k, f)
      BY <2>6 DEF ReturnsInstance
    <3> DEFINE t == Rename(Apply(p.t, sub), f)
               u == [v \in DOMAIN p.gen |-> f[p.gen[v]]]
    <3>2. Return(n, t) /\ inst' = [inst EXCEPT ![n] = u]
      BY <3>1 DEF InstantiatesBy
    <3> HIDE DEF t, u
    <3> QED
      BY <3>2 DEF Return, WTypeOK
  <2>7. CASE Refuse
    BY <2>7 DEF Refuse, WTypeOK
  <2> QED
    BY <2>1, <2>2, <2>3, <2>4, <2>5, <2>6, <2>7 DEF StepOf
<1>3. allocated' \in 0 .. MaxVars /\ Spreads(sub')
  BY Frame DEF WTypeOK
<1>4. ASSUME NEW m \in Nodes
      PROVE  /\ m \notin done' => typ'[m] = Unknown
             /\ m \notin called' => var'[m] = Unknown /\ inst'[m] = Nothing
  <2>1. called \subseteq called' /\ done \subseteq done'
    BY TreeSteps DEF TreeCalls, TreeReturns, TreeStays
  <2>2. CASE m = n
    BY <1>1, <2>1, <2>2, Frame DEF WTypeOK
  <2>3. CASE m # n
    BY <2>1, <2>3, Frame DEF WTypeOK
  <2> QED
    BY <2>2, <2>3
<1> QED
  BY <1>2, <1>3, <1>4, SchemeSteps DEF WTypeOK

(* Bindings go into the arguments, one binding more does.                  *)
LEMMA SpreadsAppend ==
  ASSUME NEW s \in Seq(BindingSet), NEW b \in BindingSet, Spreads(s)
  PROVE  Spreads(Append(s, b))
<1> SUFFICES ASSUME NEW t \in Terms, ~IsVar(t), Apply(t, Append(s, b)) \in Terms
             PROVE  /\ ~IsVar(Apply(t, Append(s, b)))
                    /\ DOMAIN Apply(t, Append(s, b)).a = DOMAIN t.a
                    /\ \A i \in DOMAIN t.a : Apply(t, Append(s, b)).a[i] = Apply(t.a[i], Append(s, b))
  BY DEF Spreads
<1>1. \A x : Apply(x, Append(s, b)) = IF Apply(x, s) \in Terms THEN R(b, Apply(x, s)) ELSE Apply(x, s)
  BY ApplyAppend DEF Replace, R
<1>2. Apply(t, s) \in Terms /\ Apply(t, Append(s, b)) = R(b, Apply(t, s))
  BY <1>1
<1> DEFINE u == Apply(t, s)
<1>3. ~IsVar(u) /\ DOMAIN u.a = DOMAIN t.a /\ \A i \in DOMAIN t.a : u.a[i] = Apply(t.a[i], s)
  BY <1>2 DEF Spreads
<1>4. \A i \in DOMAIN t.a : u.a[i] \in Terms
  BY <1>2, <1>3, Subterms
<1> HIDE DEF u
<1>5. /\ R(b, u) = [f |-> u.f, l |-> u.l, a |-> [i \in DOMAIN u.a |-> R(b, u.a[i])]]
      /\ ~IsVar(R(b, u))
  BY <1>2, <1>3, ReplaceInNode DEF u
<1>6. DOMAIN R(b, u).a = DOMAIN u.a /\ \A i \in DOMAIN u.a : R(b, u).a[i] = R(b, u.a[i])
  BY <1>5
<1> QED
  BY <1>1, <1>2, <1>3, <1>4, <1>5, <1>6 DEF u

(* ... and after one of unify.                                             *)
LEMMA WTypeOKUnify ==
  ASSUME WTypeOK, UNCHANGED wvars, sub \in Seq(BindingSet),
         sub' = sub \/ \E b : BindsTodo(b)
  PROVE  WTypeOK'
<1>1. Spreads(sub')
  BY SpreadsAppend DEF BindsTodo, WTypeOK
<1> QED
  BY <1>1 DEF WTypeOK, wvars, Generalises

(* What a binding more does to the types of W.                             *)
LEMMA TypesMove ==
  ASSUME IInv, CallsOK, WTypeOK, WithinW, WithinW', UNCHANGED wvars, NEW b, BindsTodo(b),
         NEW n \in Nodes
  PROVE  /\ Apply(typ[n], sub') \in Types /\ Apply(var[n], sub') \in Types
         /\ Apply(scheme[n].t, sub') \in Types
         /\ \A v \in DOMAIN inst[n] : Apply(Var(inst[n][v]), sub') \in Types
         /\ FreeVariables(Apply(typ[n], sub')) = Moved(F(typ[n]), b)
         /\ FreeVariables(Apply(var[n], sub')) = Moved(F(var[n]), b)
         /\ FreeVariables(Apply(scheme[n].t, sub')) = Moved(F(scheme[n].t), b)
<1>1. sub' = Append(sub, b) /\ b \in BindingSet /\ b.t \in Terms /\ sub \in Seq(BindingSet)
  BY DEF BindsTodo, IInv, TypeOK
<1>2. Apply(Unknown, sub') = Unknown
  <2>1. Apply(Unknown, sub') = Replace(Unknown, b)
    BY <1>1, ApplyAppend, UnknownStays
  <2>2. Unknown \in Terms /\ FreeVariables(Unknown) = {}
    BY UnknownStays DEF Terms
  <2> QED
    BY <2>1, <2>2, NothingToReplace DEF Replace, R
<1>3. /\ Apply(typ[n], sub') \in Types /\ Apply(var[n], sub') \in Types
      /\ Apply(scheme[n].t, sub') \in Types
      /\ \A v \in DOMAIN inst[n] : Apply(Var(inst[n][v]), sub') \in Types
  <2>1. CASE n \in called
    BY <2>1 DEF WithinW, wvars
  <2>2. CASE n \notin called
    <3>1. n \notin done /\ part[n] = 0
      BY <2>2 DEF CallsOK
    <3>2. typ[n] = Unknown /\ var[n] = Unknown /\ inst[n] = Nothing /\ scheme[n] = Unbound
      BY <2>2, <3>1 DEF WTypeOK, Generalises
    <3> QED
      BY <1>2, <3>2, UnknownStays
  <2> QED
    BY <2>1, <2>2
<1>4. /\ Apply(typ[n], sub) \in Types /\ Apply(var[n], sub) \in Types /\ Apply(scheme[n].t, sub) \in Types
  BY TypesWithin
<1> QED
  BY <1>1, <1>3, <1>4, FreeAfter DEF F, Terms

-----------------------------------------------------------------------------
(* 4. The context of the call that runs is that of its scope.              *)

(* Who runs after a call is the part that has been called ...              *)
LEMMA PartRuns ==
  ASSUME CallsOK, part \in [Nodes -> Nat], NEW n, Runs(n), NEW i, TreeCalls(n, i),
         NEW m, Runs(m)'
  PROVE  m = Part(n, i) /\ part'[m] = 0 /\ m \in Nodes /\ m # n
<1>1. /\ n \in Nodes /\ Part(n, i) \in Nodes /\ Part(n, i) \notin called
      /\ part[Part(n, i)] = 0 /\ Part(n, i) # n
      /\ \A l \in Open : l < Part(n, i) /\ l # Part(n, i)
  BY NextPart DEF TreeCalls
<1>2. Open' = Open \cup {Part(n, i)} /\ part'[Part(n, i)] = 0
  BY <1>1 DEF TreeCalls, Open, CallsOK
<1>3. \A l \in Open : l \in Nat
  BY NodesAssumption DEF CallsOK, Open
<1>4. m \in Open' /\ Part(n, i) <= m
  BY <1>2 DEF Runs
<1>5. m = Part(n, i)
  <2>1. Part(n, i) \in Nat
    BY <1>1, NodesAssumption
  <2> QED
    BY <1>1, <1>2, <1>3, <1>4, <2>1
<1> QED
  BY <1>1, <1>2, <1>5

(* ... and after a return the call it is a part of.                        *)
LEMMA ParentRuns ==
  ASSUME CallsOK, Chain, NEW n, Runs(n), TreeReturns(n), NEW m, Runs(m)'
  PROVE  /\ m \in Open /\ m \in Nodes /\ m # n /\ part'[m] = part[m] /\ part[m] \in Parts(m)
         /\ Part(m, part[m]) = n
<1>1. called' = called /\ part' = part /\ done' = done \cup {n}
  BY DEF TreeReturns
<1>2. Open' = Open \ {n} /\ n \in Open /\ \A l \in Open : l <= n
  BY <1>1 DEF Open, Runs
<1>3. \A l \in Open : l \in Nat /\ l \in Nodes
  BY NodesAssumption DEF CallsOK, Open
<1>4. m \in Open /\ m # n /\ m < n /\ \A l \in Open \ {n} : l <= m
  <2>1. m \in Open' /\ \A l \in Open' : l <= m
    BY DEF Runs
  <2> QED
    BY <1>2, <1>3, <2>1
<1>5. part[m] \in Parts(m) /\ Part(m, part[m]) \in Open
  BY <1>2, <1>4 DEF Chain
<1>6. Part(m, part[m]) > m
  BY <1>3, <1>4, <1>5, PartsOf
<1>7. Part(m, part[m]) = n
  BY <1>3, <1>4, <1>5, <1>6
<1> QED
  BY <1>1, <1>3, <1>4, <1>5, <1>7

(* A scope, in a node and in its parts. *)
LEMMA InScopeIs ==
  ASSUME NEW n \in Nodes, NEW i, NEW y \in Idents
  PROVE  /\ i \in Binds(n) /\ y = Exp[n].x => InScope(n, i)[y] = <<n, i>>
         /\ i \notin Binds(n) \/ y # Exp[n].x => InScope(n, i)[y] = Scope[n][y]
<1>1. Scope[n] \in [Idents -> {None} \cup Nodes \X {1, 2}]
  BY ScopeAssumption
<1> QED
  BY <1>1 DEF InScope

(* A binder is not None.                                                   *)
LEMMA NotNone == \A a, i : <<a, i>> # None /\ <<a, i>>[1] = a /\ <<a, i>>[2] = i
BY DEF None

(* What the names in scope stand for is left alone by a step.              *)
LEMMA EntryKept ==
  ASSUME Tree, WTypeOK, NEW n \in Nodes, Runs(n), StepOf(n), NEW m \in Open, NEW y \in Idents
  PROVE  /\ Scope[m][y] # None => EntryIn(Scope[m][y], scheme', var') = Entry(Scope[m][y])
         /\ \A p : EntryOK(Scope[m][y], y, p, scheme, var) => EntryOK(Scope[m][y], y, p, scheme', var')
<1>1. ASSUME Scope[m][y] # None
      PROVE  EntryIn(Scope[m][y], scheme', var') = Entry(Scope[m][y])
  <2>1. PICK l \in Open : l < m /\ Scope[m][y] = <<l, part[l]>>
    BY <1>1 DEF Tree, ScopesOK, BoundIn
  <2>2. l \in Nodes /\ l # n
    <3>1. m <= n
      BY DEF Runs
    <3>2. l \in Nat /\ m \in Nat /\ n \in Nat /\ l \in Nodes
      BY NodesAssumption DEF Tree, CallsOK, Open
    <3> QED
      BY <2>1, <3>1, <3>2
  <2>3. var'[l] = var[l] /\ scheme'[l] = scheme[l]
    BY <2>2, Frame DEF Tree
  <2> QED
    BY <2>1, <2>3, NotNone DEF Entry, EntryIn
<1>2. ASSUME NEW p, EntryOK(Scope[m][y], y, p, scheme, var)
      PROVE  EntryOK(Scope[m][y], y, p, scheme', var')
  BY <1>1, <1>2 DEF EntryOK, Entry
<1> QED
  BY <1>1, <1>2

(* What the open nodes have kept of what was bound outside them. *)
Keeps(m) ==
  Exp[m].e = "Abstraction" /\ part[m] = 1 =>
    EntryOK(Scope[m][Exp[m].x], Exp[m].x, old[m], scheme, var)
Context(m) == Runs(m) => \A y \in Idents : EntryOK(Current(m)[y], y, ctx[y], scheme, var)
Lets == \A n \in called : IsLet(n) /\ part[n] > 0 => Exp[n].x \notin DOMAIN RuntimeTypes

(* What ContextOK says, in parts.                                          *)
LEMMA ContextParts ==
  ContextOK <=> /\ DOMAIN ctx = Idents /\ DOMAIN old = Nodes
                /\ \A n \in Open : Context(n) /\ Keeps(n)
                /\ Lets
BY DEF ContextOK, Context, Keeps, Lets

(* Only a let that begins and a function have their first part called.     *)
LEMMA LetsBegin ==
  ASSUME WTypeOK, CallsOK, NEW n \in Nodes, StepOf(n), IsLet(n), part[n] = 0, part'[n] # part[n]
  PROVE  OpensBinder(n)
<1>1. ~\E i : PlainCall(n, i)
  BY DEF PlainCall, Binds, IsLet
<1>2. ~GeneralisesLet(n)
  BY DEF GeneralisesLet
<1>3. ~AsksFor(n) /\ ~ReturnsResult(n) /\ ~ReturnsInstance(n) /\ ~Refuse
  BY DEF AsksFor, Ask, ReturnsResult, ReturnsInstance, InstantiatesBy, Return, Refuse
<1> QED
  BY <1>1, <1>2, <1>3 DEF StepOf

(* The names of lets are those of no runtime function. *)
LEMMA LetsStep ==
  ASSUME Tree, WTypeOK, Lets, NEW n \in Nodes, Runs(n), StepOf(n)
  PROVE  Lets'
<1>1. ASSUME NEW m \in called', IsLet(m), part'[m] > 0
      PROVE  Exp[m].x \notin DOMAIN RuntimeTypes
  <2>1. m \in Nodes /\ part[m] \in Nat /\ part'[m] \in Nat /\ n \in called
    <3>1. CallsOK' /\ part' \in [Nodes -> Nat]
      <4>1. n \in Nodes /\ CallsOK'
        BY TreeStep DEF Tree, WTypeOK
      <4>2. part' = part \/ \E i \in Nat : part' = [part EXCEPT ![n] = i]
        <5>1. \A i \in Parts(n) : i \in Nat
          BY PartsOf
        <5> QED
          BY <5>1, TreeSteps DEF TreeCalls, TreeReturns, TreeStays
      <4> QED
        BY <4>1, <4>2 DEF WTypeOK
    <3> QED
      BY <3>1 DEF CallsOK, WTypeOK, Runs, Open
  <2>2. CASE m \in called /\ part[m] > 0
    BY <1>1, <2>2 DEF Lets
  <2>3. CASE m \in called /\ part[m] = 0
    <3>1. m = n /\ part'[n] # part[n]
      BY <1>1, <2>1, <2>3, Frame DEF Tree
    <3>2. OpensBinder(n)
      BY <1>1, <2>3, <3>1, LetsBegin DEF Tree
    <3> QED
      BY <1>1, <3>1, <3>2 DEF OpensBinder
  <2>4. CASE m \notin called
    <3>1. part[m] = 0 /\ m # n
      BY <2>1, <2>4 DEF Tree, CallsOK
    <3>2. part'[m] = part[m]
      BY <2>1, <3>1, Frame DEF Tree
    <3> QED
      BY <1>1, <3>1, <3>2
  <2> QED
    BY <2>1, <2>2, <2>3, <2>4
<1> QED
  BY <1>1 DEF Lets

(* What a step puts aside. *)
LEMMA OldStep ==
  ASSUME ContextOK, WTypeOK, NEW n \in Nodes, StepOf(n)
  PROVE  /\ DOMAIN old' = Nodes /\ \A j \in Nodes : j # n => old'[j] = old[j]
         /\ ~OpensBinder(n) => old' = old
<1>1. DOMAIN old = Nodes
  BY DEF ContextOK
<1>2. CASE \E i : PlainCall(n, i)
  BY <1>1, <1>2 DEF PlainCall, JustCall
<1>3. CASE OpensBinder(n)
  BY <1>1, <1>3 DEF OpensBinder
<1>4. CASE GeneralisesLet(n)
  BY <1>1, <1>4 DEF GeneralisesLet
<1>5. CASE AsksFor(n)
  BY <1>1, <1>5 DEF AsksFor, Ask
<1>6. CASE ReturnsResult(n)
  BY <1>1, <1>6 DEF ReturnsResult, Return
<1>7. CASE ReturnsInstance(n)
  BY <1>1, <1>7 DEF ReturnsInstance, InstantiatesBy, Return
<1>8. CASE Refuse
  BY <1>1, <1>8 DEF Refuse
<1> QED
  BY <1>2, <1>3, <1>4, <1>5, <1>6, <1>7, <1>8 DEF StepOf

(* A function in its body has kept what its name was bound to.             *)
LEMMA KeepsStep ==
  ASSUME Tree, WTypeOK, ContextOK, NEW n \in Nodes, Runs(n), StepOf(n), NEW m \in Open'
  PROVE  Keeps(m)'
<1>1. n \in Open
  BY DEF Runs
<1>2. SUFFICES ASSUME Exp[m].e = "Abstraction", part'[m] = 1
               PROVE  EntryOK(Scope[m][Exp[m].x], Exp[m].x, old'[m], scheme', var')
  BY DEF Keeps
<1>3. CASE m \in Open /\ m # n
  <2>1. m \in Nodes
    BY <1>3 DEF Tree, CallsOK, Open
  <2>2. part[m] = 1 /\ old'[m] = old[m] /\ Exp[m].x \in Idents
    BY <1>2, <1>3, <2>1, Frame, PartsOf, OldStep DEF Tree
  <2>3. EntryOK(Scope[m][Exp[m].x], Exp[m].x, old[m], scheme, var)
    BY <1>2, <1>3, <2>2 DEF ContextOK
  <2> QED
    BY <1>3, <2>2, <2>3, EntryKept
<1>4. CASE m = n
  <2>1. Exp[n].x \in Idents /\ Parts(n) = 1 .. 1 /\ Binds(n) = {1} /\ ~IsLet(n) /\ Mentioned(n) = <<>>
    BY <1>2, <1>4, PartsOf DEF Arity, Binds, IsLet, Mentioned
  <2>2. CASE OpensBinder(n)
    <3>0. part[n] = 0 /\ 0 \notin Binds(n)
      BY <2>1, <2>2 DEF OpensBinder
    <3>1. Current(n)[Exp[n].x] = Scope[n][Exp[n].x]
      BY <2>1, <3>0, InScopeIs DEF Current
    <3>2. EntryOK(Scope[n][Exp[n].x], Exp[n].x, ctx[Exp[n].x], scheme, var)
      BY <1>1, <2>1, <3>1 DEF ContextOK
    <3>3. old'[n] = ctx[Exp[n].x]
      BY <1>2, <1>4, <2>2 DEF OpensBinder, ContextOK
    <3> QED
      BY <1>1, <1>4, <2>1, <3>2, <3>3, EntryKept
  <2>3. CASE ~OpensBinder(n)
    <3>1. ~(\E i : PlainCall(n, i)) /\ ~GeneralisesLet(n)
      BY <2>1 DEF PlainCall, GeneralisesLet
    <3>2. part'[n] = part[n]
      BY <2>3, <3>1 DEF StepOf, AsksFor, Ask, ReturnsResult, ReturnsInstance, InstantiatesBy, Return, Refuse
    <3>3. EntryOK(Scope[n][Exp[n].x], Exp[n].x, old[n], scheme, var)
      BY <1>1, <1>2, <1>4, <3>2 DEF ContextOK
    <3> QED
      BY <1>1, <1>4, <2>1, <2>3, <3>3, OldStep, EntryKept
  <2> QED
    BY <2>2, <2>3
<1>5. CASE m \notin Open
  <2>1. m \in Nodes /\ part'[m] = 0
    <3>1. CASE \E i : TreeCalls(n, i)
      <4>1. PICK i : TreeCalls(n, i)
        BY <3>1
      <4>2. /\ Part(n, i) \in Nodes /\ part[Part(n, i)] = 0 /\ Part(n, i) # n
        BY <4>1, NextPart DEF TreeCalls, Tree
      <4>3. m = Part(n, i)
        BY <1>5, <4>1 DEF TreeCalls, Open
      <4> QED
        BY <4>1, <4>2, <4>3 DEF TreeCalls, WTypeOK
    <3>2. CASE TreeReturns(n) \/ TreeStays
      BY <1>5, <3>2 DEF TreeReturns, TreeStays, Open
    <3> QED
      BY <3>1, <3>2, TreeSteps
  <2> QED
    BY <1>2, <2>1
<1> QED
  BY <1>3, <1>4, <1>5

(* What the context of the call that runs has, after a plain call, ...     *)
LEMMA ContextPlain ==
  ASSUME Tree, WTypeOK, ContextOK, NEW n \in Nodes, Runs(n), NEW i, PlainCall(n, i), NEW m, Runs(m)',
         NEW y \in Idents
  PROVE  EntryOK(Current(m)[y], y, ctx[y], scheme, var)'
<1>1. TreeCalls(n, i) /\ Binds(n) = {} /\ StepOf(n)
  BY DEF PlainCall, JustCall, Call, TreeCalls, StepOf
<1>2. m = Part(n, i) /\ part'[m] = 0 /\ m \in Nodes /\ n \in Open
  BY <1>1, PartRuns DEF Tree, WTypeOK, Runs
<1>3. Current(m)'[y] = Scope[n][y]
  <2>1. Current(m)' = InScope(m, 0) /\ 0 \notin Binds(m)
    BY <1>2 DEF Current, Binds
  <2>2. Scope[m][y] = Scope[n][y]
    BY <1>1, <1>2, ScopeOfPart DEF TreeCalls
  <2> QED
    BY <1>2, <2>1, <2>2, InScopeIs
<1>4. Current(n)[y] = Scope[n][y]
  BY <1>1, InScopeIs DEF Current
<1>5. EntryOK(Scope[n][y], y, ctx[y], scheme, var)
  BY <1>2, <1>4 DEF ContextOK
<1>6. ctx' = ctx
  BY DEF PlainCall, JustCall
<1> QED
  BY <1>1, <1>2, <1>3, <1>5, <1>6, EntryKept

(* ... a call that binds a name, ...                                       *)
LEMMA ContextBinder ==
  ASSUME Tree, WTypeOK, ContextOK, NEW n \in Nodes, Runs(n), StepOf(n), NEW i, TreeCalls(n, i),
         i \in Binds(n), ctx' = [ctx EXCEPT ![Exp[n].x] = EntryIn(<<n, i>>, scheme', var')],
         NEW m, Runs(m)', NEW y \in Idents
  PROVE  EntryOK(Current(m)[y], y, ctx[y], scheme, var)'
<1>1. m = Part(n, i) /\ part'[m] = 0 /\ m \in Nodes /\ n \in Open
  BY PartRuns DEF Tree, WTypeOK, Runs
<1>2. Current(m)'[y] = Scope[m][y]
  <2>1. Current(m)' = InScope(m, 0) /\ 0 \notin Binds(m)
    BY <1>1 DEF Current, Binds
  <2> QED
    BY <1>1, <2>1, InScopeIs
<1>3. /\ y = Exp[n].x => Scope[m][y] = <<n, i>>
      /\ y # Exp[n].x => Scope[m][y] = Scope[n][y]
  BY <1>1, ScopeOfPart DEF TreeCalls
<1>4. DOMAIN ctx = Idents
  BY DEF ContextOK
<1>5. CASE y = Exp[n].x
  <2>1. ctx'[y] = EntryIn(<<n, i>>, scheme', var')
    BY <1>4, <1>5
  <2> QED
    BY <1>2, <1>3, <1>5, <2>1, NotNone DEF EntryOK
<1>6. CASE y # Exp[n].x
  <2>1. Current(n)[y] = Scope[n][y]
    BY <1>6, InScopeIs DEF Current
  <2>2. EntryOK(Scope[n][y], y, ctx[y], scheme, var)
    BY <1>1, <2>1 DEF ContextOK
  <2>3. ctx'[y] = ctx[y]
    BY <1>4, <1>6
  <2> QED
    BY <1>1, <1>2, <1>3, <1>6, <2>2, <2>3, EntryKept
<1> QED
  BY <1>5, <1>6

(* ... a unification that is asked for, ...                                *)
LEMMA ContextAsk ==
  ASSUME Tree, WTypeOK, ContextOK, NEW n \in Nodes, Runs(n), AsksFor(n), NEW m, Runs(m)',
         NEW y \in Idents
  PROVE  EntryOK(Current(m)[y], y, ctx[y], scheme, var)'
<1>1. /\ called' = called /\ done' = done /\ part' = part /\ ctx' = ctx /\ scheme' = scheme
  BY DEF AsksFor, Ask
<1>2. Runs(m) /\ m \in Open
  BY <1>1 DEF Runs, Open
<1>3. m = n
  <2>1. m <= n /\ n <= m /\ n \in Nat /\ m \in Nat
    BY <1>2, NodesAssumption DEF Runs, Open, Tree, CallsOK
  <2> QED
    BY <2>1
<1>4. EntryOK(Current(n)[y], y, ctx[y], scheme, var)
  BY <1>2, <1>3 DEF ContextOK
<1>5. Current(n)' = Current(n)
  BY <1>1 DEF Current
<1>6. CASE var' = var
  BY <1>1, <1>3, <1>4, <1>5, <1>6
<1>7. CASE Exp[n].e = "Application"
  <2>1. Current(n)[y] = Scope[n][y]
    <3>1. Binds(n) = {}
      BY <1>7 DEF Binds
    <3> QED
      BY <3>1, InScopeIs DEF Current
  <2>2. StepOf(n)
    BY DEF StepOf
  <2> QED
    BY <1>1, <1>2, <1>3, <1>4, <1>5, <2>1, <2>2, EntryKept
<1> QED
  BY <1>6, <1>7 DEF AsksFor

(* ... and a return. The name of a let stays in the context; nobody sees   *)
(* it.                                                                     *)
LEMMA ContextReturn ==
  ASSUME Tree, WTypeOK, ContextOK, NEW n \in Nodes, Runs(n), StepOf(n), TreeReturns(n),
         scheme' = scheme, var' = var,
         IF Exp[n].e = "Abstraction" THEN ctx' = [ctx EXCEPT ![Exp[n].x] = old[n]] ELSE ctx' = ctx,
         NEW m, Runs(m)', NEW y \in Idents
  PROVE  EntryOK(Current(m)[y], y, ctx[y], scheme, var)'
<1>1. /\ m \in Nodes /\ part'[m] = part[m] /\ part[m] \in Parts(m) /\ Part(m, part[m]) = n /\ n \in Open
  BY ParentRuns DEF Tree, Runs
<1>2. Current(m)'[y] = Scope[n][y]
  <2>1. Current(m)' = InScope(m, part[m])
    BY <1>1 DEF Current
  <2> QED
    BY <1>1, <2>1, InScopeIs, ScopeOfPart
<1>3. EntryOK(Current(n)[y], y, ctx[y], scheme, var) /\ DOMAIN ctx = Idents
  BY <1>1 DEF ContextOK
<1>4. part[n] = Len(Exp[n].parts) /\ Exp[n].x \in Idents
  BY PartsOf DEF TreeReturns
<1>5. CASE y # Exp[n].x \/ Binds(n) = {}
  <2>1. Current(n)[y] = Scope[n][y]
    BY <1>5, InScopeIs DEF Current
  <2>2. ctx'[y] = ctx[y]
    BY <1>3, <1>5 DEF Binds
  <2> QED
    BY <1>2, <1>3, <2>1, <2>2
<1>6. CASE y = Exp[n].x /\ Exp[n].e = "Abstraction"
  <2>1. ctx'[y] = old[n]
    BY <1>3, <1>6
  <2>2. part[n] = 1
    <3>1. Len(Exp[n].parts) = Arity[Exp[n].e]
      BY PartsOf
    <3> QED
      BY <1>4, <1>6, <3>1 DEF Arity
  <2>3. EntryOK(Scope[n][y], y, old[n], scheme, var)
    BY <1>1, <1>6, <2>2 DEF ContextOK
  <2> QED
    BY <1>2, <2>1, <2>3
<1>7. CASE y = Exp[n].x /\ IsLet(n)
  <2>1. part[n] = 2 /\ n \in called
    <3>1. Len(Exp[n].parts) = Arity[Exp[n].e]
      BY PartsOf
    <3> QED
      BY <1>1, <1>4, <1>7, <3>1 DEF Arity, IsLet, Open
  <2>2. y \notin DOMAIN RuntimeTypes
    BY <1>7, <2>1 DEF ContextOK
  <2>3. Scope[n][y] = None /\ NameOfLet(y)
    BY <1>7, <2>2, LetsAssumption DEF IsLet, NameOfLet
  <2> QED
    BY <1>2, <2>2, <2>3 DEF EntryOK
<1> QED
  BY <1>5, <1>6, <1>7 DEF Binds, IsLet

(* The context, after a step of W. *)
LEMMA ContextStep ==
  ASSUME Tree, WTypeOK, ContextOK, NEW n \in Nodes, Runs(n), StepOf(n)
  PROVE  ContextOK'
<1>0. DOMAIN ctx = Idents
  BY DEF ContextOK
<1>1. ASSUME NEW m \in Open'
      PROVE  Context(m)' /\ DOMAIN ctx' = Idents
  <2> SUFFICES /\ DOMAIN ctx' = Idents
               /\ Runs(m)' => \A y \in Idents : EntryOK(Current(m)[y], y, ctx[y], scheme, var)'
    BY DEF Context
  <2>1. CASE \E i : PlainCall(n, i)
    BY <1>0, <2>1, ContextPlain DEF PlainCall, JustCall
  <2>2. CASE OpensBinder(n)
    <3>1. TreeCalls(n, 1) /\ 1 \in Binds(n) /\ ctx' = [ctx EXCEPT ![Exp[n].x] = Mono(var'[n])]
      BY <2>2 DEF OpensBinder, Call, TreeCalls
    <3>2. EntryIn(<<n, 1>>, scheme', var') = Mono(var'[n])
      BY NotNone DEF EntryIn, Polymorphic
    <3> QED
      BY <1>0, <3>1, <3>2, ContextBinder
  <2>3. CASE GeneralisesLet(n)
    <3>1. TreeCalls(n, 2) /\ IsLet(n) /\ ctx' = [ctx EXCEPT ![Exp[n].x] = scheme'[n]]
      <4>1. PICK k, g : GeneralisesBy(n, k, g)
        BY <2>3 DEF GeneralisesLet
      <4> DEFINE p == [gen |-> g, t |-> Rename(Typ(Part(n, 1)), g)]
      <4>2. scheme' = [scheme EXCEPT ![n] = p] /\ ctx' = [ctx EXCEPT ![Exp[n].x] = p]
        BY <4>1 DEF GeneralisesBy
      <4> HIDE DEF p
      <4>3. scheme'[n] = p
        BY <4>2 DEF WTypeOK
      <4>4. IsLet(n) /\ TreeCalls(n, 2)
        BY <2>3 DEF GeneralisesLet, Call, TreeCalls
      <4> QED
        BY <4>2, <4>3, <4>4
    <3>2. EntryIn(<<n, 2>>, scheme', var') = scheme'[n] /\ 2 \in Binds(n)
      BY <3>1, NotNone DEF EntryIn, Polymorphic, IsLet, Binds
    <3> QED
      BY <1>0, <3>1, <3>2, ContextBinder
  <2>4. CASE AsksFor(n)
    BY <1>0, <2>4, ContextAsk DEF AsksFor, Ask
  <2>5. CASE ReturnsResult(n)
    <3>1. /\ TreeReturns(n) /\ scheme' = scheme /\ var' = var
          /\ IF Exp[n].e = "Abstraction" THEN ctx' = [ctx EXCEPT ![Exp[n].x] = old[n]] ELSE ctx' = ctx
      BY <2>5 DEF ReturnsResult, Return, TreeReturns
    <3>2. DOMAIN ctx' = Idents
      BY <1>0, <3>1
    <3> QED
      BY <3>1, <3>2, ContextReturn
  <2>6. CASE ReturnsInstance(n)
    <3>1. /\ TreeReturns(n) /\ scheme' = scheme /\ var' = var
          /\ Exp[n].e # "Abstraction" /\ ctx' = ctx
      <4>1. part[n] = Len(Exp[n].parts) /\ Exp[n].e = "Variable"
        BY <2>6, PartsOf DEF ReturnsInstance, Arity
      <4> QED
        BY <2>6, <4>1 DEF ReturnsInstance, InstantiatesBy, Return, TreeReturns
    <3> QED
      BY <1>0, <3>1, ContextReturn
  <2>7. CASE Refuse
    BY <1>0, <2>7 DEF Refuse, ContextOK, Current, Runs, Open
  <2> QED
    BY <2>1, <2>2, <2>3, <2>4, <2>5, <2>6, <2>7 DEF StepOf
<1>2. DOMAIN ctx' = Idents
  <2>1. CASE \E i : PlainCall(n, i)
    BY <1>0, <2>1 DEF PlainCall, JustCall
  <2>2. CASE OpensBinder(n)
    BY <1>0, <2>2 DEF OpensBinder
  <2>3. CASE GeneralisesLet(n)
    BY <1>0, <2>3 DEF GeneralisesLet, GeneralisesBy
  <2>4. CASE AsksFor(n)
    BY <1>0, <2>4 DEF AsksFor, Ask
  <2>5. CASE ReturnsResult(n)
    BY <1>0, <2>5 DEF ReturnsResult
  <2>6. CASE ReturnsInstance(n)
    BY <1>0, <2>6 DEF ReturnsInstance
  <2>7. CASE Refuse
    BY <1>0, <2>7 DEF Refuse
  <2> QED
    BY <2>1, <2>2, <2>3, <2>4, <2>5, <2>6, <2>7 DEF StepOf
<1>3. DOMAIN old' = Nodes /\ Lets' /\ \A m \in Open' : Keeps(m)'
  BY OldStep, LetsStep, KeepsStep, ContextParts
<1>4. \A m \in Open' : Runs(m)' => \A y \in Idents : EntryOK(Current(m)[y], y, ctx[y], scheme, var)'
  BY <1>1 DEF Context
<1> QED
  BY <1>2, <1>3, <1>4 DEF ContextOK, Lets, Keeps

(* What changes nothing of W keeps the context.                            *)
LEMMA ContextKept ==
  ASSUME ContextOK, UNCHANGED wvars
  PROVE  ContextOK'
BY DEF wvars, ContextOK, Current, Runs, Open

-----------------------------------------------------------------------------
(* 5. What a node has asked for is among what unification has solved.      *)

(* The parts that a node asks about are parts of it. *)
LEMMA MentionedParts ==
  ASSUME NEW n \in Nodes, NEW j \in DOMAIN Mentioned(n)
  PROVE  Mentioned(n)[j] \subseteq Parts(n)
<1>1. Parts(n) = 1 .. Arity[Exp[n].e] /\ Exp[n].e \in DOMAIN Arity
  BY PartsOf
<1>2. CASE Exp[n].e \in {"Let", "Not"}
  BY <1>1, <1>2 DEF Mentioned, Arity
<1>3. CASE Exp[n].e = "IfElse"
  BY <1>1, <1>3 DEF Mentioned, Arity
<1>4. CASE Exp[n].e = "Logical"
  BY <1>1, <1>4 DEF Mentioned, Arity
<1>5. CASE Exp[n].e \in {"Application", "Cons", "Arithmetic", "Comparison"}
  BY <1>1, <1>5 DEF Mentioned, Arity
<1>6. CASE Exp[n].e \notin {"Let", "Not", "IfElse", "Logical", "Application", "Cons",
                          "Arithmetic", "Comparison"}
  <2>1. Mentioned(n) = <<>>
    BY <1>6 DEF Mentioned
  <2> QED
    BY <2>1
<1> QED
  BY <1>2, <1>3, <1>4, <1>5, <1>6

(* What has been asked for stays, as long as the types in it stay.         *)
LEMMA AsksSame ==
  ASSUME NEW n \in Nodes, NEW j \in DOMAIN Mentioned(n), var'[n] = var[n],
         \A i \in Mentioned(n)[j] : typ'[Part(n, i)] = typ[Part(n, i)]
  PROVE  Asks(n)'[j] = Asks(n)[j]
<1>1. CASE Exp[n].e \in {"Let", "Not"}
  <2>1. Mentioned(n) = << {1} >> /\ j = 1 /\ typ'[Part(n, 1)] = typ[Part(n, 1)]
    BY <1>1 DEF Mentioned
  <2> QED
    BY <1>1, <2>1 DEF Asks, TypeOf
<1>2. CASE Exp[n].e = "IfElse"
  <2>1. Mentioned(n) = << {1}, {2, 3} >> /\ j \in {1, 2}
    BY <1>2 DEF Mentioned
  <2>2. /\ Asks(n) = << <<typ[Part(n, 1)], TBool>>, <<typ[Part(n, 2)], typ[Part(n, 3)]>> >>
        /\ Asks(n)' = << <<typ'[Part(n, 1)], TBool>>, <<typ'[Part(n, 2)], typ'[Part(n, 3)]>> >>
    BY <1>2 DEF Asks, TypeOf
  <2>3. CASE j = 1
    BY <2>1, <2>2, <2>3
  <2>4. CASE j = 2
    BY <2>1, <2>2, <2>4
  <2> QED
    BY <2>1, <2>3, <2>4
<1>3. CASE Exp[n].e = "Logical"
  <2>1. Mentioned(n) = << {1, 2}, {1} >> /\ j \in {1, 2}
    BY <1>3 DEF Mentioned
  <2>2. /\ Asks(n) = << <<typ[Part(n, 1)], typ[Part(n, 2)]>>, <<typ[Part(n, 1)], TBool>> >>
        /\ Asks(n)' = << <<typ'[Part(n, 1)], typ'[Part(n, 2)]>>, <<typ'[Part(n, 1)], TBool>> >>
    BY <1>3 DEF Asks, TypeOf
  <2>3. CASE j = 1
    BY <2>1, <2>2, <2>3
  <2>4. CASE j = 2
    BY <2>1, <2>2, <2>4
  <2> QED
    BY <2>1, <2>3, <2>4
<1>4. CASE Exp[n].e \in {"Application", "Cons", "Arithmetic", "Comparison"}
  <2>1. Mentioned(n) = << {1, 2} >> /\ j = 1
        /\ typ'[Part(n, 1)] = typ[Part(n, 1)] /\ typ'[Part(n, 2)] = typ[Part(n, 2)]
    BY <1>4 DEF Mentioned
  <2> QED
    BY <1>4, <2>1 DEF Asks, TypeOf
<1>5. CASE Exp[n].e \notin {"Let", "Not", "IfElse", "Logical", "Application", "Cons",
                          "Arithmetic", "Comparison"}
  <2>1. Mentioned(n) = <<>>
    BY <1>5 DEF Mentioned
  <2> QED
    BY <2>1
<1> QED
  BY <1>1, <1>2, <1>3, <1>4, <1>5

(* So does the result. *)
LEMMA ResultSame ==
  ASSUME NEW n \in Nodes, var'[n] = var[n],
         \A i \in Parts(n) : typ'[Part(n, i)] = typ[Part(n, i)]
  PROVE  Result(n)' = Result(n)
<1>1. Parts(n) = 1 .. Arity[Exp[n].e] /\ Exp[n].e \in DOMAIN Arity
  BY PartsOf
<1>2. CASE Exp[n].e \in {"Abstraction", "Cons", "Arithmetic", "Negate"}
  <2>1. 1 \in Parts(n)
    BY <1>1, <1>2 DEF Arity
  <2> QED
    BY <1>2, <2>1 DEF Result, TypeOf
<1>3. CASE Exp[n].e \in {"Let", "IfElse"}
  <2>1. 2 \in Parts(n)
    BY <1>1, <1>3 DEF Arity
  <2> QED
    BY <1>3, <2>1 DEF Result, TypeOf
<1>4. CASE Exp[n].e \notin {"Abstraction", "Cons", "Arithmetic", "Negate", "Let", "IfElse"}
  BY <1>4 DEF Result
<1> QED
  BY <1>2, <1>3, <1>4

(* What has been asked and returned so far, after a step of W. *)
LEMMA AnswersStep ==
  ASSUME IInv, Tree, WTypeOK, AnswersOK, NEW n \in Nodes, Runs(n), StepOf(n)
  PROVE  AnswersOK'
<1>1. n \in Open /\ n \notin done /\ done \subseteq done' /\ done' \subseteq done \cup {n}
  BY TreeSteps DEF Runs, Open, TreeCalls, TreeReturns, TreeStays
<1>2. \A m \in Nodes : \A i : i \in Parts(m) /\ Part(m, i) \in done => typ'[Part(m, i)] = typ[Part(m, i)]
  <2>1. \A m \in Nodes : \A i : i \in Parts(m) => Part(m, i) \in Nodes
    BY PartsOf
  <2> QED
    BY <1>1, <2>1, Frame DEF Tree
<1>3. Range(solved) \subseteq Range(solved') /\ (~AsksFor(n) => asked'[n] = asked[n])
  <2>1. CASE AsksFor(n)
    <3>1. PICK l, r : Ask(n, l, r)
      BY <2>1 DEF AsksFor
    <3>2. solved' = Append(solved, <<l, r>>) /\ solved \in Seq(TypePairs)
      BY <3>1 DEF Ask, Equate, IInv, TypeOK
    <3> QED
      BY <2>1, <3>2 DEF Range
  <2>2. CASE ~AsksFor(n)
    BY <2>2 DEF StepOf, PlainCall, JustCall, Call, OpensBinder, GeneralisesLet, ReturnsResult,
                ReturnsInstance, InstantiatesBy, Return, Refuse, vars
  <2> QED
    BY <2>1, <2>2
<1>4. ASSUME NEW m \in Nodes, NEW j \in 1 .. asked[m]
      PROVE  /\ j \in DOMAIN Mentioned(m) /\ Asks(m)'[j] \in Range(solved')
             /\ \A i \in Mentioned(m)[j] : Part(m, i) \in done'
  <2>1. /\ j \in DOMAIN Mentioned(m) /\ Asks(m)[j] \in Range(solved)
        /\ \A i \in Mentioned(m)[j] : Part(m, i) \in done
    BY DEF AnswersOK
  <2>2. var'[m] = var[m]
    <3>1. asked[m] # 0
      OBVIOUS
    <3> QED
      BY <3>1, Frame DEF Tree, Allots
  <2>3. Asks(m)'[j] = Asks(m)[j]
    BY <1>2, <2>1, <2>2, MentionedParts, AsksSame
  <2> QED
    BY <1>1, <1>3, <2>1, <2>3
<1>5. ASSUME NEW m \in Nodes, NEW j \in 1 .. asked'[m], j \notin 1 .. asked[m]
      PROVE  /\ j \in DOMAIN Mentioned(m) /\ Asks(m)'[j] \in Range(solved')
             /\ \A i \in Mentioned(m)[j] : Part(m, i) \in done'
  <2>1. m = n /\ AsksFor(n)
    BY <1>3, <1>5, Frame DEF Tree
  <2>2. PICK l, r : Ask(n, l, r) /\ Asks(n)'[asked[n] + 1] = <<l, r>>
    BY <2>1 DEF AsksFor
  <2>3. j = asked[n] + 1
    <3>1. asked'[n] = asked[n] + 1 /\ asked[n] \in Nat
      BY <2>2 DEF Ask, WTypeOK
    <3> QED
      BY <1>5, <2>1, <3>1
  <2>4. Asks(n)'[j] \in Range(solved')
    <3>1. solved' = Append(solved, <<l, r>>) /\ solved \in Seq(TypePairs)
      BY <2>2 DEF Ask, Equate, IInv, TypeOK
    <3>2. Len(solved) + 1 \in DOMAIN solved' /\ solved'[Len(solved) + 1] = <<l, r>>
      BY <3>1
    <3> QED
      BY <2>2, <2>3, <3>2 DEF Range
  <2>5. \A i \in Mentioned(n)[j] : Part(n, i) \in done
    BY <2>1, <2>3, PartsDone DEF AsksFor, Tree
  <2> QED
    BY <1>1, <2>1, <2>3, <2>4, <2>5 DEF AsksFor
<1>6. ASSUME NEW m \in done'
      PROVE  asked'[m] = Len(Mentioned(m)) /\ (Exp[m].e # "Variable" => typ'[m] = Result(m)')
  <2>1. CASE m \in done
    <3>1. m \in Nodes /\ m # n /\ \A i \in Parts(m) : Part(m, i) \in done
      BY <1>1, <2>1 DEF Tree, CallsOK
    <3>2. Result(m)' = Result(m)
      BY <1>2, <3>1, Frame, ResultSame DEF Tree
    <3> QED
      BY <2>1, <3>1, <3>2, Frame DEF AnswersOK, Tree
  <2>2. CASE m \notin done
    <3>1. m = n /\ n \in done'
      BY <1>1, <2>2
    <3>2. ReturnsResult(n) \/ ReturnsInstance(n)
      BY <1>1, <3>1 DEF StepOf, PlainCall, JustCall, Call, OpensBinder, GeneralisesLet,
                 AsksFor, Ask, Refuse
    <3>3. CASE ReturnsResult(n)
      <4>1. typ'[n] = Result(n) /\ var' = var /\ asked' = asked
            /\ asked[n] = Len(Mentioned(n)) /\ part[n] = Len(Exp[n].parts)
        BY <3>3 DEF ReturnsResult, Return, WTypeOK
      <4>2. \A i \in Parts(n) : Part(n, i) \in done
        <5>1. \A i \in Parts(n) : i <= part[n]
          BY <4>1, PartsOf
        <5> QED
          BY <5>1, PartsDone DEF Tree
      <4>3. Result(n)' = Result(n)
        BY <1>2, <4>1, <4>2, ResultSame
      <4> QED
        BY <3>1, <4>1, <4>3
    <3>4. CASE ReturnsInstance(n)
      <4>1. Exp[n].e = "Variable" /\ asked[n] = 0 /\ asked' = asked
        BY <3>4 DEF ReturnsInstance, InstantiatesBy, Return
      <4>2. Mentioned(n) = <<>>
        BY <4>1 DEF Mentioned
      <4> QED
        BY <3>1, <4>1, <4>2
    <3> QED
      BY <3>2, <3>3, <3>4
  <2> QED
    BY <2>1, <2>2
<1> QED
  BY <1>4, <1>5, <1>6 DEF AnswersOK

(* ... and after one of unify. *)
LEMMA AnswersKept ==
  ASSUME AnswersOK, done \subseteq Nodes, UNCHANGED wvars, solved' = solved
  PROVE  AnswersOK'
<1>1. /\ done' = done /\ asked' = asked /\ typ' = typ /\ var' = var
  BY DEF wvars
<1>2. ASSUME NEW n \in Nodes
      PROVE  Result(n)' = Result(n) /\ Asks(n)' = Asks(n)
  <2>1. Result(n)' = Result(n)
    BY <1>1 DEF Result, TypeOf
  <2>2. Asks(n)' = Asks(n)
    BY <1>1 DEF Asks, TypeOf
  <2> QED
    BY <2>1, <2>2
<1> HIDE DEF Asks, Result, Mentioned, Part
<1> QED
  BY <1>1, <1>2 DEF AnswersOK

-----------------------------------------------------------------------------
(* 6. All variables in the types have been allocated.                      *)

(* The variables of the types that W makes, under bindings that go into    *)
(* the arguments.                                                          *)
LEMMA FreeOfMade ==
  ASSUME NEW s, Spreads(s), NEW t \in Terms, ~IsVar(t), Apply(t, s) \in Terms
  PROVE  /\ \A i \in DOMAIN t.a : Apply(t.a[i], s) \in Terms
         /\ FreeVariables(Apply(t, s)) = UNION {FreeVariables(Apply(t.a[i], s)) : i \in DOMAIN t.a}
<1> DEFINE u == Apply(t, s)
<1>1. ~IsVar(u) /\ DOMAIN u.a = DOMAIN t.a /\ \A i \in DOMAIN t.a : u.a[i] = Apply(t.a[i], s)
  BY DEF Spreads
<1>2. \A i \in DOMAIN t.a : u.a[i] \in Terms
  BY <1>1, Subterms
<1>3. \A v : v \in FreeVariables(u) <=> \E i \in DOMAIN u.a : v \in FreeVariables(u.a[i])
  BY <1>1, FreeOfNode
<1> QED
  BY <1>1, <1>2, <1>3

(* The parts of a function type, ...                                       *)
LEMMA FnShape ==
  ASSUME NEW a, NEW b
  PROVE  /\ ~IsVar(Fn(a, b)) /\ DOMAIN Fn(a, b).a = {1, 2}
         /\ Fn(a, b).a[1] = a /\ Fn(a, b).a[2] = b
BY DEF Fn, IsVar

(* ... and of a list type, ...                                             *)
LEMMA ListShape ==
  ASSUME NEW a
  PROVE  ~IsVar(List(a)) /\ DOMAIN List(a).a = {1} /\ List(a).a[1] = a
BY DEF List, IsVar

(* ... and what the bindings leave of their variables.                     *)
LEMMA FreeOfFn ==
  ASSUME NEW s, Spreads(s), NEW a, NEW b, Fn(a, b) \in Terms, Apply(Fn(a, b), s) \in Terms
  PROVE  /\ a \in Terms /\ b \in Terms /\ Apply(a, s) \in Terms /\ Apply(b, s) \in Terms
         /\ FreeVariables(Apply(Fn(a, b), s)) = FreeVariables(Apply(a, s)) \cup FreeVariables(Apply(b, s))
<1> DEFINE t == Fn(a, b)
<1>1. ~IsVar(t) /\ DOMAIN t.a = {1, 2} /\ t.a[1] = a /\ t.a[2] = b /\ t \in Terms /\ Apply(t, s) \in Terms
  BY FnShape
<1> HIDE DEF t
<1>2. /\ \A i \in DOMAIN t.a : Apply(t.a[i], s) \in Terms
      /\ FreeVariables(Apply(t, s)) = UNION {FreeVariables(Apply(t.a[i], s)) : i \in DOMAIN t.a}
  BY <1>1, FreeOfMade
<1>3. a \in Terms /\ b \in Terms
  BY <1>1, Subterms
<1>4. FreeVariables(Apply(t, s)) = FreeVariables(Apply(a, s)) \cup FreeVariables(Apply(b, s))
  BY <1>1, <1>2
<1> QED
  BY <1>1, <1>2, <1>3, <1>4 DEF t

(* The same for a list type.                                               *)
LEMMA FreeOfList ==
  ASSUME NEW s, Spreads(s), NEW a, List(a) \in Terms, Apply(List(a), s) \in Terms
  PROVE  /\ a \in Terms /\ Apply(a, s) \in Terms
         /\ FreeVariables(Apply(List(a), s)) = FreeVariables(Apply(a, s))
<1> DEFINE t == List(a)
<1>1. ~IsVar(t) /\ DOMAIN t.a = {1} /\ t.a[1] = a /\ t \in Terms /\ Apply(t, s) \in Terms
  BY ListShape
<1> HIDE DEF t
<1>2. /\ \A i \in DOMAIN t.a : Apply(t.a[i], s) \in Terms
      /\ FreeVariables(Apply(t, s)) = UNION {FreeVariables(Apply(t.a[i], s)) : i \in DOMAIN t.a}
  BY <1>1, FreeOfMade
<1>3. a \in Terms
  BY <1>1, Subterms
<1>4. FreeVariables(Apply(t, s)) = FreeVariables(Apply(a, s))
  BY <1>1, <1>2
<1> QED
  BY <1>1, <1>2, <1>3, <1>4 DEF t

(* No bindings at all. *)
LEMMA NoneSpread ==
  /\ Spreads(<<>>)
  /\ \A t : Apply(t, <<>>) = t
BY ApplyEmpty DEF Spreads

(* The types of the parts of a node, and of the variable it has made *)
FreeAt(n, s) ==
  FreeVariables(Apply(var[n], s))
    \cup UNION {FreeVariables(Apply(TypeOf(n, i), s)) : i \in Parts(n)}

(* What a node returns has no variables but those of its parts and its own. *)
LEMMA ResultFree ==
  ASSUME NEW n \in Nodes, NEW s, Spreads(s), Result(n) \in Types, Apply(Result(n), s) \in Types,
         \A t : Closed(t) => FreeVariables(Apply(t, s)) = {}
  PROVE  /\ FreeVariables(Apply(Result(n), s)) \subseteq FreeAt(n, s)
         /\ IsLet(n) => FreeVariables(Apply(Result(n), s)) = FreeVariables(Apply(TypeOf(n, 2), s))
<1>1. Parts(n) = 1 .. Arity[Exp[n].e] /\ Exp[n].e \in DOMAIN Arity /\ Closed(Exp[n].t)
      /\ Result(n) \in Terms /\ Apply(Result(n), s) \in Terms
  BY PartsOf DEF Terms
<1>2. \A i \in Parts(n) : FreeVariables(Apply(TypeOf(n, i), s)) \subseteq FreeAt(n, s)
  BY DEF FreeAt
<1>3. FreeVariables(Apply(var[n], s)) \subseteq FreeAt(n, s)
  BY DEF FreeAt
<1>4. CASE Exp[n].e = "Literal"
  BY <1>1, <1>4 DEF Result, IsLet
<1>5. CASE Exp[n].e = "Abstraction"
  <2>1. 1 \in Parts(n) /\ Result(n) = Fn(var[n], TypeOf(n, 1)) /\ ~IsLet(n)
    BY <1>1, <1>5 DEF Result, IsLet, Arity
  <2>2. FreeVariables(Apply(Result(n), s))
          = FreeVariables(Apply(var[n], s)) \cup FreeVariables(Apply(TypeOf(n, 1), s))
    BY <1>1, <2>1, FreeOfFn
  <2> QED
    BY <1>2, <1>3, <2>1, <2>2
<1>6. CASE Exp[n].e = "Application"
  BY <1>3, <1>6 DEF Result, IsLet
<1>7. CASE Exp[n].e \in {"Let", "IfElse"}
  <2>1. 2 \in Parts(n) /\ Result(n) = TypeOf(n, 2)
    BY <1>1, <1>7 DEF Result, Arity
  <2> QED
    BY <1>2, <2>1
<1>8. CASE Exp[n].e = "Cons"
  <2>1. 1 \in Parts(n) /\ Result(n) = List(TypeOf(n, 1)) /\ ~IsLet(n)
    BY <1>1, <1>8 DEF Result, IsLet, Arity
  <2>2. FreeVariables(Apply(Result(n), s)) = FreeVariables(Apply(TypeOf(n, 1), s))
    BY <1>1, <2>1, FreeOfList
  <2> QED
    BY <1>2, <2>1, <2>2
<1>9. CASE Exp[n].e \in {"Arithmetic", "Negate"}
  <2>1. 1 \in Parts(n) /\ Result(n) = TypeOf(n, 1) /\ ~IsLet(n)
    BY <1>1, <1>9 DEF Result, IsLet, Arity
  <2> QED
    BY <1>2, <2>1
<1>10. CASE Exp[n].e \notin {"Literal", "Abstraction", "Application", "Let", "IfElse", "Cons",
                             "Arithmetic", "Negate"}
  <2>1. Result(n) = TBool /\ ~IsLet(n) /\ Closed(TBool)
    BY <1>10, TypesAssumption DEF Result, IsLet
  <2> QED
    BY <2>1
<1> QED
  BY <1>4, <1>5, <1>6, <1>7, <1>8, <1>9, <1>10

(* What has been allocated stays so.                                       *)
LEMMA RangesGrow ==
  ASSUME NEW i \in Nat, NEW j \in Nat, i <= j
  PROVE  0 .. (i - 1) \subseteq 0 .. (j - 1)
OBVIOUS

(* What the context has for a name that a node in progress has bound.      *)
LEMMA EntryTerm ==
  ASSUME IInv, CallsOK, WTypeOK, WithinW, NEW a \in Nodes, NEW i
  PROVE  /\ Entry(<<a, i>>).t \in Types /\ Entry(<<a, i>>).t \in Terms
         /\ Apply(Entry(<<a, i>>).t, sub) \in Types
         /\ \/ Entry(<<a, i>>) = scheme[a] /\ Polymorphic(<<a, i>>)
            \/ Entry(<<a, i>>) = Mono(var[a]) /\ ~Polymorphic(<<a, i>>)
<1>1. Entry(<<a, i>>) = IF Polymorphic(<<a, i>>) THEN scheme[a] ELSE Mono(var[a])
  BY NotNone DEF Entry, EntryIn
<1>2. Mono(var[a]).t = var[a]
  BY DEF Mono
<1>3. /\ Apply(typ[a], sub) \in Types /\ Apply(var[a], sub) \in Types
      /\ Apply(scheme[a].t, sub) \in Types
  BY TypesWithin
<1>4. var[a] \in Types /\ scheme[a].t \in Types
  BY DEF WTypeOK
<1> QED
  BY <1>1, <1>2, <1>3, <1>4 DEF Terms

(* A type that quantifies nothing.                                         *)
LEMMA MonoParts == \A t : Mono(t).t = t /\ DOMAIN Mono(t).gen = {} /\ Range(Mono(t).gen) = {}
BY DEF Mono, Nothing, Range

(* The variables of what a binder has put into the context have been       *)
(* allocated, ...                                                          *)
LEMMA EntryAllocated ==
  ASSUME IInv, CallsOK, WTypeOK, WithinW, NamesOK, NEW a \in Nodes, NEW i
  PROVE  /\ F(Entry(<<a, i>>).t) \subseteq Allocated \ Bound
         /\ DOMAIN Entry(<<a, i>>).gen \subseteq Allocated
         /\ Range(Entry(<<a, i>>).gen) \subseteq Allocated
BY EntryTerm, FreeAllocated, MonoParts DEF NamesOK

(* The polytype that the call of a variable finds.                         *)
LEMMA FoundEntry ==
  ASSUME Tree, ContextOK, NEW n \in Nodes, Runs(n), Exp[n].e = "Variable", ctx[Exp[n].x] # Unbound
  PROVE  /\ Scope[n][Exp[n].x] = None =>
              Exp[n].x \in DOMAIN RuntimeTypes /\ ctx[Exp[n].x] = Mono(RuntimeTypes[Exp[n].x])
         /\ Scope[n][Exp[n].x] # None =>
              /\ ctx[Exp[n].x] = Entry(Scope[n][Exp[n].x])
              /\ \E a \in Nodes, i \in {1, 2} : Scope[n][Exp[n].x] = <<a, i>>
<1> DEFINE x == Exp[n].x
           b == Scope[n][x]
<1>1. x \in Idents /\ n \in Open
  BY PartsOf DEF Runs
<1>2. Current(n) = Scope[n]
  BY DEF Current, InScope, Binds
<1>3. EntryOK(b, x, ctx[x], scheme, var)
  BY <1>1, <1>2 DEF ContextOK
<1>4. b \in {None} \cup Nodes \X {1, 2}
  BY <1>1, ScopeAssumption
<1>5. b = None => ~NameOfLet(x) \/ x \in DOMAIN RuntimeTypes
  BY LetsAssumption DEF NameOfLet, IsLet
<1> QED
  BY <1>3, <1>4, <1>5 DEF EntryOK, Entry

(* ... and so have those of what a variable finds there.                   *)
LEMMA FoundTerm ==
  ASSUME IInv, Tree, ContextOK, WTypeOK, WithinW, NamesOK,
         NEW n \in Nodes, Runs(n), Exp[n].e = "Variable", ctx[Exp[n].x] # Unbound
  PROVE  /\ ctx[Exp[n].x].t \in Types /\ ctx[Exp[n].x].t \in Terms
         /\ Apply(ctx[Exp[n].x].t, sub) \in Types /\ Apply(ctx[Exp[n].x].t, sub) \in Terms
         /\ F(ctx[Exp[n].x].t) \subseteq Allocated \ Bound
         /\ DOMAIN ctx[Exp[n].x].gen \subseteq Allocated
         /\ Range(ctx[Exp[n].x].gen) \subseteq Allocated
<1> DEFINE x == Exp[n].x
<1>1. CASE Scope[n][x] = None
  <2>1. x \in DOMAIN RuntimeTypes /\ ctx[x] = Mono(RuntimeTypes[x]) /\ Closed(RuntimeTypes[x])
    BY <1>1, FoundEntry, TypesAssumption
  <2> QED
    BY <2>1, MonoParts, ClosedStays DEF Terms
<1>2. CASE Scope[n][x] # None
  <2>1. PICK a \in Nodes, i \in {1, 2} : ctx[x] = Entry(<<a, i>>)
    BY <1>2, FoundEntry
  <2> QED
    BY <2>1, EntryTerm, EntryAllocated DEF Terms, Tree
<1> QED
  BY <1>1, <1>2

(* A renaming that is made of the next k variables                         *)
LEMMA FreshNames ==
  ASSUME NEW vs, NEW k, NEW m \in Fresh(vs, k)
  PROVE  DOMAIN m = vs /\ Range(m) = New(k) /\ \A v \in vs : m[v] \in New(k)
BY DEF Fresh, Range

(* A type in which variables are renamed has only those and the others.    *)
LEMMA RenamedFree ==
  ASSUME NEW t \in Terms, NEW m, Rename(t, m) \in Terms
  PROVE  FreeVariables(Rename(t, m)) \subseteq (FreeVariables(t) \ DOMAIN m) \cup Range(m)
<1>1. FreeVariables(Rename(t, m)) = {IF v \in DOMAIN m THEN m[v] ELSE v : v \in FreeVariables(t)}
  BY FreeOfRenamed
<1> QED
  BY <1>1 DEF Range

(* The variables there are, after a step of W ...                          *)
LEMMA NamesStep ==
  ASSUME IInv, Tree, ContextOK, WTypeOK, WithinW, NamesOK, NEW n \in Nodes, Runs(n), StepOf(n)
  PROVE  NamesOK'
<1>0. CallsOK
  BY DEF Tree
<1>1. allocated \in Nat /\ allocated' \in Nat /\ allocated <= allocated' /\ sub' = sub
  BY <1>0, Frame
<1>2. Allocated \subseteq Allocated'
  <2> DEFINE T == 0 .. (allocated - 1)
             V == 0 .. (allocated' - 1)
  <2>1. T \subseteq V
    BY <1>1, RangesGrow
  <2>2. Allocated = {NewTypeVar(i) : i \in T} /\ Allocated' = {NewTypeVar(i) : i \in V}
    BY DEF Allocated
  <2> HIDE DEF T, V
  <2> QED
    BY <2>1, <2>2
<1>3. FreeVariables(var'[n]) \subseteq Allocated'
  <2>1. CASE var'[n] = var[n]
    BY <1>2, <2>1 DEF NamesOK
  <2>2. CASE Allots(n)
    BY <2>2, NewVar DEF Allots
  <2> QED
    BY <1>0, <2>1, <2>2, Frame
<1>4. /\ FreeVariables(scheme'[n].t) \subseteq Allocated'
      /\ DOMAIN scheme'[n].gen \subseteq Allocated' /\ Range(scheme'[n].gen) \subseteq Allocated'
  <2>1. CASE scheme'[n] = scheme[n]
    BY <1>2, <2>1 DEF NamesOK
  <2>2. CASE GeneralisesLet(n)
    <3>1. PICK k, m : GeneralisesBy(n, k, m)
      BY <2>2 DEF GeneralisesLet
    <3> DEFINE u == Typ(Part(n, 1))
               t == Rename(u, m)
    <3>2. 1 \in Parts(n) /\ Part(n, 1) \in Nodes
      BY <2>2, PartsOf DEF GeneralisesLet
    <3>3. u \in Terms /\ FreeVariables(u) \subseteq Allocated
      BY <1>0, <3>2, FreeAllocated, TypesWithin DEF Typ, F, Terms
    <3>4. DOMAIN m \subseteq FreeVariables(u) /\ Range(m) = New(k) /\ k \in 0 .. (MaxVars - allocated)
          /\ allocated' = allocated + k
      BY <3>1, FreshNames DEF GeneralisesBy, Generalised
    <3>5. t \in Terms /\ scheme'[n].t = t /\ scheme'[n].gen = m
      BY <3>1 DEF GeneralisesBy, WTypeOK, Terms
    <3> HIDE DEF u
    <3>6. FreeVariables(t) \subseteq FreeVariables(u) \cup Range(m)
      BY <3>3, <3>5, RenamedFree
    <3>7. Allocated' = Allocated \cup New(k)
      BY <3>4, NewVars
    <3> QED
      BY <3>3, <3>4, <3>5, <3>6, <3>7
  <2> QED
    BY <1>0, <2>1, <2>2, Frame
<1>5. FreeVariables(typ'[n]) \subseteq Allocated' /\ Range(inst'[n]) \subseteq Allocated'
  <2>1. CASE ReturnsResult(n)
    <3>1. typ'[n] = Result(n) /\ Result(n) \in Types /\ inst' = inst
      BY <2>1 DEF ReturnsResult, Return, WTypeOK
    <3>2. FreeVariables(Result(n)) \subseteq FreeAt(n, <<>>)
      <4>1. \A t : Closed(t) => FreeVariables(Apply(t, <<>>)) = {}
        BY NoneSpread DEF Closed
      <4>2. Apply(Result(n), <<>>) = Result(n)
        BY NoneSpread
      <4> QED
        BY <3>1, <4>1, <4>2, NoneSpread, ResultFree
    <3>3. FreeAt(n, <<>>) \subseteq Allocated
      BY PartsOf, NoneSpread DEF FreeAt, NamesOK, TypeOf
    <3> QED
      BY <1>2, <3>1, <3>2, <3>3 DEF NamesOK
  <2>2. CASE ReturnsInstance(n)
    <3>1. PICK p, k, f : InstantiatesBy(n, p, k, f)
      BY <2>2 DEF ReturnsInstance
    <3> DEFINE u == Apply(p.t, sub)
               t == Rename(u, f)
               g == [v \in DOMAIN p.gen |-> f[p.gen[v]]]
    <3>2. p = ctx[Exp[n].x] /\ p # Unbound /\ k \in 0 .. (MaxVars - allocated)
          /\ f \in Fresh(Range(p.gen), k) /\ allocated' = allocated + k /\ t \in Types
      BY <3>1 DEF InstantiatesBy, Return
    <3>3. typ'[n] = t /\ inst'[n] = g
      <4>1. Return(n, t) /\ inst' = [inst EXCEPT ![n] = g]
        BY <3>1 DEF InstantiatesBy
      <4> HIDE DEF t, g
      <4> QED
        BY <4>1 DEF Return, WTypeOK
    <3>4. u \in Terms /\ FreeVariables(u) \subseteq Allocated
      BY <2>2, <3>2, FoundTerm DEF ReturnsInstance, F
    <3>5. Allocated' = Allocated \cup New(k)
      BY <3>2, NewVars
    <3>6. DOMAIN f = Range(p.gen) /\ Range(f) = New(k) /\ \A v \in Range(p.gen) : f[v] \in New(k)
      BY <3>2, FreshNames
    <3>7. t \in Terms
      BY <3>2 DEF Terms
    <3>8. Range(g) \subseteq New(k)
      BY <3>6 DEF Range
    <3> HIDE DEF u, g
    <3>9. FreeVariables(t) \subseteq FreeVariables(u) \cup Range(f)
      BY <3>4, <3>7, RenamedFree
    <3> QED
      BY <3>3, <3>4, <3>5, <3>6, <3>8, <3>9
  <2>3. CASE ~ReturnsResult(n) /\ ~ReturnsInstance(n)
    <3>1. typ' = typ /\ inst' = inst
      BY <2>3 DEF StepOf, PlainCall, JustCall, Call, OpensBinder, GeneralisesLet,
                 AsksFor, Ask, Refuse
    <3> QED
      BY <1>2, <3>1 DEF NamesOK
  <2> QED
    BY <2>1, <2>2, <2>3
<1>6. ASSUME NEW m \in Nodes, m # n
      PROVE  /\ FreeVariables(typ'[m]) \subseteq Allocated' /\ FreeVariables(var'[m]) \subseteq Allocated'
             /\ FreeVariables(scheme'[m].t) \subseteq Allocated'
             /\ DOMAIN scheme'[m].gen \subseteq Allocated' /\ Range(scheme'[m].gen) \subseteq Allocated'
             /\ Range(inst'[m]) \subseteq Allocated'
  BY <1>0, <1>2, <1>6, Frame DEF NamesOK
<1>7. BoundBy(sub)' \subseteq Allocated' /\ Mentions(sub)' \subseteq Allocated'
  BY <1>1, <1>2 DEF NamesOK, BoundBy, Mentions
<1> QED
  BY <1>3, <1>4, <1>5, <1>6, <1>7 DEF NamesOK

(* What a binding more makes of what the bindings bind and mention. *)
LEMMA BoundAfter ==
  ASSUME sub \in Seq(BindingSet), NEW b, sub' = Append(sub, b)
  PROVE  /\ Bound' = Bound \cup {b.v} /\ BoundBy(sub)' = BoundBy(sub) \cup {b.v}
         /\ Mentions(sub)' = Mentions(sub) \cup FreeVariables(b.t)
<1>1. DOMAIN sub' = DOMAIN sub \cup {Len(sub) + 1} /\ sub'[Len(sub) + 1] = b
      /\ \A i \in DOMAIN sub : sub'[i] = sub[i]
  OBVIOUS
<1> QED
  BY <1>1 DEF Bound, BoundBy, Mentions

(* ... and after one of unify.                                             *)
LEMMA NamesUnify ==
  ASSUME NamesOK, sub \in Seq(BindingSet), UNCHANGED wvars, TodoFree \subseteq Allocated,
         sub' = sub \/ \E b : BindsTodo(b)
  PROVE  NamesOK'
<1>1. /\ typ' = typ /\ var' = var /\ scheme' = scheme /\ inst' = inst /\ allocated' = allocated
  BY DEF wvars
<1>2. Allocated' = Allocated
  BY <1>1 DEF Allocated
<1>3. BoundBy(sub)' \subseteq Allocated /\ Mentions(sub)' \subseteq Allocated
  <2>1. CASE sub' = sub
    BY <2>1 DEF NamesOK, BoundBy, Mentions
  <2>2. CASE \E b : BindsTodo(b)
    BY <2>2, BoundAfter DEF NamesOK, BindsTodo
  <2> QED
    BY <2>1, <2>2
<1> QED
  BY <1>1, <1>2, <1>3 DEF NamesOK

-----------------------------------------------------------------------------
(* 7. What is live: calls in progress share variables only through what is *)
(* in scope, and quantified variables are not live.                        *)

(* What is in scope, node and part *)
LEMMA ScopeIs ==
  ASSUME NEW n \in Nodes, NEW y \in Idents, Scope[n][y] # None
  PROVE  \E a \in Nodes, i \in {1, 2} : Scope[n][y] = <<a, i>>
BY ScopeAssumption

(* What the types of a node, and of those in scope, have is allocated, and *)
(* not bound.                                                              *)
LEMMA LiveAllocated ==
  ASSUME IInv, CallsOK, WTypeOK, WithinW, NamesOK, NEW n \in Nodes
  PROVE  Live(n) \subseteq Allocated \ Bound /\ Env(n) \subseteq Allocated \ Bound
<1>1. \A i \in Parts(n) : F(TypeOf(n, i)) \subseteq Allocated \ Bound
  BY PartsOf, FreeAllocated DEF TypeOf
<1>2. F(var[n]) \subseteq Allocated \ Bound /\ F(scheme[n].t) \subseteq Allocated \ Bound
  BY FreeAllocated
<1>3. Generalises(n) => 2 \in Parts(n)
  BY PartsOf DEF Generalises, IsLet, Arity
<1>4. Live(n) \subseteq Allocated \ Bound
  BY <1>1, <1>2, <1>3 DEF Live, FreeIn, F
<1>5. ASSUME NEW y \in Idents, Scope[n][y] # None
      PROVE  FreeIn(Entry(Scope[n][y])) \subseteq Allocated \ Bound
  <2>1. PICK a \in Nodes, i \in {1, 2} : Scope[n][y] = <<a, i>>
    BY <1>5, ScopeIs
  <2>2. F(Entry(<<a, i>>).t) \subseteq Allocated \ Bound
    BY EntryAllocated
  <2> QED
    BY <2>1, <2>2 DEF FreeIn, F
<1> QED
  BY <1>4, <1>5 DEF Env

(* What a node in progress has put into the context is live in it.         *)
LEMMA EntryLive ==
  ASSUME IInv, CallsOK, WTypeOK, WithinW, NEW l \in Nodes
  PROVE  FreeIn(Entry(<<l, part[l]>>)) \subseteq Live(l)
<1>1. Polymorphic(<<l, part[l]>>) <=> Generalises(l)
  BY NotNone DEF Polymorphic, Generalises, IsLet
<1>2. CASE Generalises(l)
  BY <1>1, <1>2, EntryTerm DEF Live
<1>3. CASE ~Generalises(l)
  <2>1. Entry(<<l, part[l]>>) = Mono(var[l])
    BY <1>1, <1>3, EntryTerm
  <2> QED
    BY <1>3, <2>1, MonoParts DEF Live, FreeIn, F
<1> QED
  BY <1>2, <1>3

(* What an environment has is live at a node further out.                  *)
LEMMA EnvLive ==
  ASSUME IInv, Tree, WTypeOK, WithinW, NEW n \in Open, NEW u \in Env(n)
  PROVE  \E l \in Open : l < n /\ u \in Live(l)
<1>1. PICK y \in Idents : Scope[n][y] # None /\ u \in FreeIn(Entry(Scope[n][y]))
  BY DEF Env
<1>2. PICK l \in Open : l < n /\ Scope[n][y] = <<l, part[l]>>
  BY <1>1 DEF Tree, ScopesOK, BoundIn
<1>3. l \in Nodes
  BY DEF Open, Tree, CallsOK
<1> QED
  BY <1>1, <1>2, <1>3, EntryLive DEF Tree

(* Nothing is known of a node before its call.                             *)
LEMMA NothingLive ==
  ASSUME IInv, WTypeOK, NEW n \in Nodes, part[n] = 0, n \notin called,
         \A i \in Parts(n) : Part(n, i) \notin done
  PROVE  Live(n) = {}
<1>1. F(var[n]) = {}
  BY UnknownStays DEF WTypeOK
<1>2. \A i \in Parts(n) : F(TypeOf(n, i)) = {}
  BY UnknownStays, PartsOf DEF WTypeOK, TypeOf
<1> QED
  BY <1>1, <1>2 DEF Live, Generalises

(* What does not change *)
LEMMA LiveSame ==
  ASSUME sub' = sub, NEW m \in Nodes, var'[m] = var[m], scheme'[m] = scheme[m], part'[m] = part[m],
         \A i \in Parts(m) : typ'[Part(m, i)] = typ[Part(m, i)]
  PROVE  Live(m)' = Live(m)
<1>1. \A i \in Parts(m) : F(TypeOf(m, i))' = F(TypeOf(m, i))
  BY DEF F, TypeOf
<1>2. F(var[m])' = F(var[m]) /\ FreeIn(scheme[m])' = FreeIn(scheme[m])
        /\ (Generalises(m)' <=> Generalises(m))
  BY DEF F, FreeIn, Generalises
<1>3. Generalises(m) => 2 \in Parts(m)
  BY PartsOf DEF Generalises, IsLet, Arity
<1>4. CASE Generalises(m)
  BY <1>1, <1>2, <1>3, <1>4 DEF Live
<1>5. CASE ~Generalises(m)
  BY <1>1, <1>2, <1>5 DEF Live
<1> QED
  BY <1>4, <1>5

(* The environment of an open node stays as it is.                         *)
LEMMA EnvSame ==
  ASSUME Tree, WTypeOK, NEW n \in Nodes, Runs(n), StepOf(n), NEW m \in Open
  PROVE  Env(m)' = Env(m)
<1>1. sub' = sub
  BY Frame DEF Tree
<1>2. ASSUME NEW y \in Idents, Scope[m][y] # None
      PROVE  FreeIn(Entry(Scope[m][y]))' = FreeIn(Entry(Scope[m][y]))
  <2>1. EntryIn(Scope[m][y], scheme', var') = EntryIn(Scope[m][y], scheme, var)
    BY <1>2, EntryKept DEF Entry
  <2>2. Entry(Scope[m][y])' = Entry(Scope[m][y])
    BY <2>1 DEF Entry
  <2> QED
    BY <1>1, <2>2 DEF FreeIn
<1>3. Env(m)' = UNION {FreeIn(Entry(Scope[m][y]))' : y \in {z \in Idents : Scope[m][z] # None}}
  BY DEF Env
<1> QED
  BY <1>2, <1>3 DEF Env

(* A node whose name is not generalised has the types of its parts.        *)
LEMMA LivePlain ==
  ASSUME NEW n \in Nodes, ~Generalises(n), ~Generalises(n)', sub' = sub, typ' = typ
  PROVE  /\ Live(n)' \subseteq Live(n) \cup F(var'[n])
         /\ var'[n] = var[n] => Live(n)' = Live(n)
<1>1. \A i \in Parts(n) : F(TypeOf(n, i))' = F(TypeOf(n, i))
  BY DEF F, TypeOf
<1>2. F(var[n])' = F(var'[n])
  BY DEF F
<1>3. Live(n)' = F(var[n])' \cup UNION {F(TypeOf(n, i))' : i \in Parts(n)}
  BY DEF Live
<1>4. Live(n) = F(var[n]) \cup UNION {F(TypeOf(n, i)) : i \in Parts(n)}
  BY DEF Live
<1> QED
  BY <1>1, <1>2, <1>3, <1>4

(* A variable that has just been allocated is not bound.                   *)
LEMMA AllottedFree ==
  ASSUME IInv, WTypeOK, NamesOK, NEW n, Allots(n)
  PROVE  F(var'[n]) = {NewTypeVar(allocated)} /\ NewTypeVar(allocated) \notin Allocated
<1> DEFINE t == Var(NewTypeVar(allocated))
<1>1. /\ NewTypeVar(allocated) \notin Allocated /\ t \in Terms
      /\ FreeVariables(t) = {NewTypeVar(allocated)} /\ var'[n] = t
  BY NewVar DEF Allots
<1>2. FreeVariables(t) \cap Bound = {}
  BY <1>1 DEF NamesOK, Bound, BoundBy
<1> HIDE DEF t
<1> QED
  BY <1>1, <1>2, Untouched

(* What a let makes of the type of its first part                          *)
LEMMA GeneralisedFacts ==
  ASSUME IInv, CallsOK, WTypeOK, WithinW, NamesOK, NEW n \in Nodes, GeneralisesLet(n),
         NEW k, NEW m, GeneralisesBy(n, k, m)
  PROVE  /\ sub' = sub /\ part'[n] = 2 /\ Generalises(n)' /\ ~Generalises(n)
         /\ 1 \in Parts(n) /\ 2 \in Parts(n)
         /\ scheme'[n].gen = m /\ scheme'[n].t = Rename(Typ(Part(n, 1)), m)
         /\ scheme'[n].t \in Terms /\ Typ(Part(n, 1)) \in Terms
         /\ DOMAIN m = Generalised(n) /\ DOMAIN m \subseteq F(TypeOf(n, 1))
         /\ Range(m) = New(k) /\ New(k) \cap Allocated = {}
         /\ Allocated' = Allocated \cup New(k)
         /\ Apply(scheme'[n].t, sub) = scheme'[n].t
         /\ F(scheme'[n].t) \subseteq (F(TypeOf(n, 1)) \ DOMAIN m) \cup New(k)
         /\ F(TypeOf(n, 1)) \ DOMAIN m \subseteq F(scheme'[n].t)
         /\ F(TypeOf(n, 1)) \subseteq Live(n) /\ F(TypeOf(n, 1)) \subseteq Allocated \ Bound
         /\ typ' = typ
<1> DEFINE u == Typ(Part(n, 1))
           t == Rename(u, m)
<1>1. /\ part'[n] = 2 /\ part[n] = 1 /\ IsLet(n) /\ typ' = typ /\ sub' = sub
  BY DEF GeneralisesLet, Call, vars, WTypeOK
<1>2. Generalises(n)' /\ ~Generalises(n) /\ 1 \in Parts(n) /\ 2 \in Parts(n)
  BY <1>1, PartsOf DEF Generalises, IsLet, Arity
<1>3. Part(n, 1) \in Nodes /\ F(TypeOf(n, 1)) = FreeVariables(u) /\ u \in Terms
      /\ F(TypeOf(n, 1)) \subseteq Allocated \ Bound
  BY <1>2, PartsOf, TypesWithin, FreeAllocated DEF Typ, F, TypeOf, Terms
<1>4. DOMAIN m = Generalised(n) /\ Range(m) = New(k) /\ k \in 0 .. (MaxVars - allocated)
      /\ allocated' = allocated + k /\ t \in Terms
      /\ scheme'[n].gen = m /\ scheme'[n].t = t
  BY FreshNames DEF GeneralisesBy, WTypeOK, Terms
<1>5. DOMAIN m \subseteq F(TypeOf(n, 1))
  BY <1>3, <1>4 DEF Generalised
<1>6. New(k) \cap Allocated = {} /\ Allocated' = Allocated \cup New(k)
  BY <1>4, NewVars
<1>7. F(TypeOf(n, 1)) \subseteq Live(n)
  BY <1>2 DEF Live
<1> HIDE DEF u
<1>8. FreeVariables(t) = {IF v \in DOMAIN m THEN m[v] ELSE v : v \in FreeVariables(u)}
  BY <1>3, <1>4, FreeOfRenamed
<1>9. FreeVariables(t) \subseteq (FreeVariables(u) \ DOMAIN m) \cup New(k)
  BY <1>3, <1>4, RenamedFree
<1>10. FreeVariables(u) \ DOMAIN m \subseteq FreeVariables(t)
  BY <1>8
<1> HIDE DEF t
<1>11. FreeVariables(t) \cap Bound = {}
  BY <1>3, <1>6, <1>9 DEF NamesOK, Bound, BoundBy
<1>12. Apply(t, sub) = t /\ F(t) = FreeVariables(t)
  BY <1>4, <1>11, Untouched
<1> QED
  BY <1>1, <1>2, <1>3, <1>4, <1>5, <1>6, <1>7, <1>9, <1>10, <1>12 DEF u, t

(* After it, what is live at the let is no more than it has not            *)
(* generalised.                                                            *)
LEMMA GeneralisedLive ==
  ASSUME IInv, CallsOK, WTypeOK, WithinW, NamesOK, NEW n \in Nodes, Runs(n), GeneralisesLet(n),
         NEW k, NEW m, GeneralisesBy(n, k, m)
  PROVE  Live(n)' \subseteq F(TypeOf(n, 1)) \ DOMAIN m
<1>1. /\ Generalises(n)' /\ sub' = sub /\ typ' = typ /\ 2 \in Parts(n)
      /\ scheme'[n].gen = m /\ Range(m) = New(k)
      /\ F(scheme'[n].t) \subseteq (F(TypeOf(n, 1)) \ DOMAIN m) \cup New(k)
  BY GeneralisedFacts
<1>2. FreeIn(scheme[n])' \subseteq F(TypeOf(n, 1)) \ DOMAIN m
  BY <1>1 DEF FreeIn, F
<1>3. F(TypeOf(n, 2))' = {}
  <2>1. Part(n, 2) \in Nodes /\ Part(n, 2) \notin done
    BY <1>1, NextPart DEF GeneralisesLet, CallsOK
  <2>2. typ'[Part(n, 2)] = Unknown
    BY <1>1, <2>1 DEF WTypeOK
  <2> QED
    BY <1>1, <2>2, UnknownStays DEF F, TypeOf
<1>4. Live(n)' = FreeIn(scheme[n])' \cup F(TypeOf(n, 2))'
  BY <1>1 DEF Live
<1> QED
  BY <1>2, <1>3, <1>4

(* What a step does to the variables that are live: a node that is called  *)
(* has none, the node that runs has none more that were there before, ...  *)
Grows(n) ==
  \A m \in Open' :
    \/ m \notin Open /\ Live(m)' = {} /\ \A l \in Open : l < m
    \/ m \in Open /\ m # n /\ Live(m)' = Live(m)
    \/ m = n /\ (Live(n)' \ Live(n)) \cap Allocated = {}
(* ... and a node that returns gives what it has to the one that called it. *)
Returns(n) ==
  /\ Open' = Open \ {n}
  /\ \A m \in Open' :
       \/ Live(m)' = Live(m)
       \/ Runs(m)' /\ Live(m)' \cap Allocated \subseteq Live(m) \cup Live(n) \cup Env(n)

(* A part that is called has nothing live.                                 *)
LEMMA CalledLive ==
  ASSUME IInv, Tree, WTypeOK, NEW n \in Nodes, Runs(n), StepOf(n), NEW i, TreeCalls(n, i)
  PROVE  /\ Open' = Open \cup {Part(n, i)} /\ Part(n, i) \notin Open
         /\ Live(Part(n, i))' = {} /\ \A l \in Open : l < Part(n, i)
<1> DEFINE c == Part(n, i)
<1>1. /\ c \in Nodes /\ c \notin called /\ part[c] = 0 /\ c # n /\ \A m \in Open : m < c
      /\ \A j \in Parts(c) : Part(c, j) \notin called
  BY NextPart DEF TreeCalls, Tree
<1>2. called' = called \cup {c} /\ done' = done /\ c \notin done
  BY <1>1 DEF TreeCalls, Tree, CallsOK
<1>3. \A j \in Parts(c) : Part(c, j) \notin done
  BY <1>1 DEF Tree, CallsOK
<1> HIDE DEF c
<1>4. Live(c) = {}
  BY <1>1, <1>3, NothingLive
<1>5. typ'[c] = typ[c] /\ var'[c] = var[c] /\ scheme'[c] = scheme[c] /\ part'[c] = part[c] /\ sub' = sub
  BY <1>1, Frame DEF Tree
<1>6. \A j \in Parts(c) : typ'[Part(c, j)] = typ[Part(c, j)]
  <2>1. n \in called
    BY DEF Runs, Open
  <2> QED
    BY <1>1, <2>1, PartsOf, Frame DEF Tree
<1>7. Live(c)' = {}
  BY <1>1, <1>4, <1>5, <1>6, LiveSame
<1> QED
  BY <1>1, <1>2, <1>7 DEF c, Open

(* The node that runs, unless it returns *)
LEMMA RunningLive ==
  ASSUME IInv, Tree, WTypeOK, WithinW, NamesOK, NEW n \in Nodes, Runs(n), StepOf(n), ~TreeReturns(n)
  PROVE  typ' = typ /\ (Live(n)' \ Live(n)) \cap Allocated = {}
<1>0. CallsOK
  BY DEF Tree
<1>1. sub' = sub
  BY <1>0, Frame
<1>2. CASE GeneralisesLet(n)
  <2>1. PICK k, m : GeneralisesBy(n, k, m)
    BY <1>2 DEF GeneralisesLet
  <2>2. F(TypeOf(n, 1)) \subseteq Live(n) /\ typ' = typ
    BY <1>0, <1>2, <2>1, GeneralisedFacts
  <2>3. Live(n)' \subseteq F(TypeOf(n, 1)) \ DOMAIN m
    BY <1>0, <1>2, <2>1, GeneralisedLive
  <2> QED
    BY <2>2, <2>3
<1>3. CASE ~GeneralisesLet(n) /\ ~ReturnsResult(n) /\ ~ReturnsInstance(n)
  <2>1. typ' = typ
    BY <1>3 DEF StepOf, PlainCall, JustCall, Call, OpensBinder, AsksFor, Ask, Refuse
  <2>2. CASE Refuse \/ (AsksFor(n) /\ var' = var)
    <3>1. part' = part /\ var' = var /\ scheme' = scheme
      BY <2>2 DEF Refuse, AsksFor, Ask
    <3> QED
      BY <1>1, <2>1, <3>1, LiveSame
  <2>3. CASE (\E i : PlainCall(n, i)) \/ OpensBinder(n) \/ (AsksFor(n) /\ var' # var)
    <3>1. ~Generalises(n) /\ ~Generalises(n)'
      <4>1. CASE \E i : PlainCall(n, i)
        BY <4>1 DEF PlainCall, Generalises, IsLet, Binds
      <4>2. CASE OpensBinder(n)
        BY <4>2 DEF OpensBinder, Call, Generalises, WTypeOK
      <4>3. CASE AsksFor(n) /\ var' # var
        BY <4>3 DEF AsksFor, Generalises, IsLet
      <4> QED
        BY <2>3, <4>1, <4>2, <4>3
    <3>2. /\ Live(n)' \subseteq Live(n) \cup F(var'[n])
          /\ var'[n] = var[n] => Live(n)' = Live(n)
      BY <1>1, <2>1, <3>1, LivePlain
    <3>3. CASE var'[n] = var[n]
      BY <2>1, <3>2, <3>3
    <3>4. CASE Allots(n)
      <4>1. F(var'[n]) = {NewTypeVar(allocated)} /\ NewTypeVar(allocated) \notin Allocated
        BY <3>4, AllottedFree
      <4> QED
        BY <2>1, <3>2, <4>1
    <3> QED
      BY <1>0, <3>3, <3>4, Frame
  <2>4. Refuse \/ AsksFor(n) \/ OpensBinder(n) \/ \E i : PlainCall(n, i)
    BY <1>3 DEF StepOf
  <2> QED
    BY <2>2, <2>3, <2>4
<1>4. CASE ReturnsResult(n) \/ ReturnsInstance(n)
  <2>1. Open' # Open
    BY <1>4 DEF ReturnsResult, ReturnsInstance, InstantiatesBy, Return, Open, Runs
  <2>2. ~TreeStays
    BY <2>1 DEF TreeStays, Open
  <2>3. ~\E i : TreeCalls(n, i)
    <3>1. n \in done' /\ n \notin done
      BY <1>4 DEF ReturnsResult, ReturnsInstance, InstantiatesBy, Return, Open, Runs
    <3> QED
      BY <3>1 DEF TreeCalls
  <2> QED
    BY <2>2, <2>3, TreeSteps
<1> QED
  BY <1>2, <1>3, <1>4

(* A step that does not return makes nothing live but what it allocates.   *)
LEMMA StepGrows ==
  ASSUME IInv, Tree, WTypeOK, WithinW, NamesOK, NEW n \in Nodes, Runs(n), StepOf(n), ~TreeReturns(n)
  PROVE  Grows(n)
<1>0. CallsOK
  BY DEF Tree
<1>1. ASSUME NEW m \in Open, m # n
      PROVE  Live(m)' = Live(m)
  <2>1. m \in Nodes
    BY DEF Open, Tree, CallsOK
  <2>2. /\ sub' = sub /\ var'[m] = var[m] /\ scheme'[m] = scheme[m] /\ part'[m] = part[m]
    BY <1>0, <1>1, <2>1, Frame
  <2>3. typ' = typ
    BY RunningLive
  <2> QED
    BY <2>1, <2>2, <2>3, LiveSame
<1>2. (Live(n)' \ Live(n)) \cap Allocated = {}
  BY RunningLive
<1>3. CASE TreeStays
  BY <1>1, <1>2, <1>3 DEF Grows, TreeStays, Open
<1>4. CASE \E i : TreeCalls(n, i)
  BY <1>1, <1>2, <1>4, CalledLive DEF Grows
<1> QED
  BY <1>3, <1>4, TreeSteps

(* What has been returned has the variables of the node and of the context. *)
LEMMA ReturnedFree ==
  ASSUME IInv, Tree, ContextOK, WTypeOK, WithinW, NamesOK, WithinW',
         NEW n \in Nodes, Runs(n), ReturnsResult(n) \/ ReturnsInstance(n)
  PROVE  F(typ'[n]) \cap Allocated \subseteq Live(n) \cup Env(n)
<1>0. CallsOK /\ n \in called
  BY DEF Tree, Runs, Open
<1>1. CASE ReturnsResult(n)
  <2>1. Result(n) \in Types /\ typ'[n] = Result(n) /\ sub' = sub /\ called' = called
        /\ part[n] = Len(Exp[n].parts)
    BY <1>1 DEF ReturnsResult, Return, WTypeOK, vars
  <2>2. Apply(Result(n), sub) \in Types
    BY <1>0, <2>1 DEF WithinW
  <2>3. Spreads(sub) /\ \A t : Closed(t) => FreeVariables(Apply(t, sub)) = {}
    BY ClosedStays DEF WTypeOK, F
  <2>4. /\ F(Result(n)) \subseteq FreeAt(n, sub)
        /\ IsLet(n) => F(Result(n)) = F(TypeOf(n, 2))
    BY <2>1, <2>2, <2>3, ResultFree DEF F
  <2>5. CASE IsLet(n)
    <3>1. Generalises(n)
      <4>1. Len(Exp[n].parts) = Arity[Exp[n].e]
        BY PartsOf
      <4>2. Len(Exp[n].parts) = 2
        BY <2>5, <4>1 DEF IsLet, Arity
      <4> QED
        BY <2>1, <2>5, <4>2 DEF Generalises
    <3> QED
      BY <2>1, <2>4, <2>5, <3>1 DEF Live
  <2>6. CASE ~IsLet(n)
    <3>1. Live(n) = FreeAt(n, sub)
      BY <2>6 DEF Live, FreeAt, Generalises, F
    <3> QED
      BY <2>1, <2>4, <3>1
  <2> QED
    BY <2>5, <2>6
<1>2. CASE ReturnsInstance(n)
  <2>1. PICK p, k, f : InstantiatesBy(n, p, k, f)
    BY <1>2 DEF ReturnsInstance
  <2> DEFINE u == Apply(p.t, sub)
             t == Rename(u, f)
             x == Exp[n].x
  <2>2. p = ctx[x] /\ p # Unbound /\ k \in 0 .. (MaxVars - allocated)
        /\ f \in Fresh(Range(p.gen), k) /\ allocated' = allocated + k /\ t \in Types
    BY <2>1 DEF InstantiatesBy, Return
  <2>3. typ'[n] = t
    <3>1. Return(n, t)
      BY <2>1 DEF InstantiatesBy
    <3> HIDE DEF t
    <3> QED
      BY <3>1 DEF Return, WTypeOK
  <2>4. u \in Terms /\ F(p.t) = FreeVariables(u) /\ FreeVariables(u) \subseteq Allocated \ Bound
    BY <1>2, <2>2, FoundTerm DEF ReturnsInstance, F
  <2>5. DOMAIN f = Range(p.gen) /\ Range(f) = New(k)
    BY <2>2, FreshNames
  <2>6. t \in Terms /\ New(k) \cap Allocated = {}
    BY <2>2, NewVars DEF Terms
  <2> HIDE DEF u
  <2>7. FreeVariables(t) \subseteq FreeIn(p) \cup New(k)
    <3>1. FreeVariables(t) \subseteq (FreeVariables(u) \ Range(p.gen)) \cup New(k)
      BY <2>4, <2>5, <2>6, RenamedFree
    <3> QED
      BY <3>1 DEF FreeIn, u
  <2> HIDE DEF t
  <2>8. F(t) = FreeVariables(t)
    <3>1. FreeVariables(t) \cap Bound = {}
      BY <2>4, <2>6, <2>7 DEF NamesOK, Bound, BoundBy, FreeIn, u
    <3> QED
      BY <2>6, <3>1, Untouched
  <2>9. FreeIn(p) \subseteq Env(n)
    <3>1. x \in Idents /\ Exp[n].e = "Variable"
      BY <1>2, PartsOf DEF ReturnsInstance
    <3>2. CASE Scope[n][x] = None
      <4>1. p = Mono(RuntimeTypes[x]) /\ Closed(RuntimeTypes[x])
        BY <2>2, <3>1, <3>2, FoundEntry, TypesAssumption
      <4> QED
        BY <4>1, MonoParts, ClosedStays DEF FreeIn, F
    <3>3. CASE Scope[n][x] # None
      <4>1. p = Entry(Scope[n][x])
        BY <2>2, <3>1, <3>3, FoundEntry
      <4> QED
        BY <3>1, <3>3, <4>1 DEF Env
    <3> QED
      BY <3>2, <3>3
  <2> QED
    BY <2>3, <2>6, <2>7, <2>8, <2>9
<1> QED
  BY <1>1, <1>2

(* A step that returns hands on what was live, or in its environment.      *)
LEMMA StepReturns ==
  ASSUME IInv, Tree, ContextOK, WTypeOK, WithinW, NamesOK, WithinW',
         NEW n \in Nodes, Runs(n), StepOf(n), TreeReturns(n)
  PROVE  Returns(n) /\ (ReturnsResult(n) \/ ReturnsInstance(n))
<1>0. CallsOK /\ n \in called /\ n \notin done
  BY DEF Tree, Runs, Open
<1>1. ReturnsResult(n) \/ ReturnsInstance(n)
  BY <1>0 DEF TreeReturns, StepOf, PlainCall, JustCall, Call, OpensBinder, GeneralisesLet,
                 AsksFor, Ask, Refuse
<1>2. F(typ'[n]) \cap Allocated \subseteq Live(n) \cup Env(n)
  BY <1>1, ReturnedFree
<1>3. Open' = Open \ {n}
  BY DEF Open, TreeReturns
<1>4. ASSUME NEW m \in Open', NEW i \in Parts(m), Part(m, i) = n
      PROVE  Runs(m)' /\ Live(m)' \cap Allocated \subseteq Live(m) \cup Live(n) \cup Env(n)
  <2>1. m \in Open /\ m \in Nodes /\ m # n /\ n \in Open
    BY <1>0, <1>3 DEF Open, CallsOK
  <2>2. i = part[m]
    BY <1>0, <1>4, <2>1, OpenParts
  <2>3. Runs(m)'
    <3>1. ASSUME NEW l \in Open', ~(l <= m)
          PROVE  FALSE
      <4>1. l \in Open /\ l \in Nat /\ m \in Nat /\ n \in Nat /\ l # n /\ l <= n
        BY <1>0, <1>3, <2>1, NodesAssumption DEF Open, CallsOK, Runs
      <4>2. n <= l
        BY <1>4, <2>1, <2>2, <3>1, <4>1 DEF Tree, Chain
      <4> QED
        BY <4>1, <4>2
    <3> QED
      BY <3>1 DEF Runs
  <2>4. /\ sub' = sub /\ var'[m] = var[m] /\ scheme'[m] = scheme[m] /\ part'[m] = part[m]
        /\ \A j \in Parts(m) : j # i => typ'[Part(m, j)] = typ[Part(m, j)]
    <3>1. \A j \in Parts(m) : j # i => Part(m, j) # n /\ Part(m, j) \in Nodes
      BY <1>4, <2>1, OneParent, PartsOf
    <3> QED
      BY <1>0, <2>1, <3>1, Frame
  <2>5. F(var[m])' = F(var[m]) /\ FreeIn(scheme[m])' = FreeIn(scheme[m])
        /\ (Generalises(m)' <=> Generalises(m))
    BY <2>4 DEF F, FreeIn, Generalises
  <2>6. F(TypeOf(m, i))' = F(typ'[n])
    BY <1>4, <2>4 DEF F, TypeOf
  <2>7. \A j \in Parts(m) : j # i => F(TypeOf(m, j))' = F(TypeOf(m, j))
    BY <2>4 DEF F, TypeOf
  <2>8. Live(m)' \subseteq Live(m) \cup F(typ'[n])
    <3>1. CASE Generalises(m)
      <4>1. i = 2
        BY <2>2, <3>1 DEF Generalises
      <4>2. Live(m)' = FreeIn(scheme[m])' \cup F(TypeOf(m, 2))'
        BY <2>5, <3>1 DEF Live
      <4>3. FreeIn(scheme[m]) \subseteq Live(m)
        BY <3>1 DEF Live
      <4> QED
        BY <2>5, <2>6, <4>1, <4>2, <4>3
    <3>2. CASE ~Generalises(m)
      <4>1. Live(m)' = F(var[m])' \cup UNION {F(TypeOf(m, j))' : j \in Parts(m)}
        BY <2>5, <3>2 DEF Live
      <4>2. Live(m) = F(var[m]) \cup UNION {F(TypeOf(m, j)) : j \in Parts(m)}
        BY <3>2 DEF Live
      <4> QED
        BY <2>5, <2>6, <2>7, <4>1, <4>2
    <3> QED
      BY <3>1, <3>2
  <2> QED
    BY <1>2, <2>3, <2>8
<1>5. ASSUME NEW m \in Open', \A i \in Parts(m) : Part(m, i) # n
      PROVE  Live(m)' = Live(m)
  <2>1. m \in Nodes /\ m # n
    BY <1>0, <1>3 DEF Open, CallsOK
  <2> QED
    BY <1>0, <1>5, <2>1, Frame, LiveSame, PartsOf
<1> QED
  BY <1>1, <1>3, <1>4, <1>5 DEF Returns

(* The environment of an inner node is that of an outer one and what is    *)
(* live in between.                                                        *)
LEMMA EnvSplit ==
  ASSUME IInv, Tree, WTypeOK, WithinW, NEW m \in Open, NEW n \in Open, m <= n, NEW u \in Env(n)
  PROVE  u \in Env(m) \/ \E l \in Open : m <= l /\ u \in Live(l)
<1>1. PICK y \in Idents : Scope[n][y] # None /\ u \in FreeIn(Entry(Scope[n][y]))
  BY DEF Env
<1>2. CASE Scope[n][y] = Scope[m][y]
  BY <1>1, <1>2 DEF Env
<1>3. CASE BoundIn(n, m, Scope[n][y])
  <2>1. PICK l \in Open : m <= l /\ Scope[n][y] = <<l, part[l]>>
    BY <1>3 DEF BoundIn
  <2>2. l \in Nodes
    BY DEF Open, Tree, CallsOK
  <2> QED
    BY <1>1, <2>1, <2>2, EntryLive DEF Tree
<1> QED
  BY <1>2, <1>3 DEF Tree, ScopesOK

(* Open calls are nodes, and so numbers.                                   *)
LEMMA OpenAreNodes ==
  ASSUME CallsOK
  PROVE  Open \subseteq Nodes /\ Open \subseteq Nat
BY NodesAssumption DEF CallsOK, Open

(* Nodes in progress share variables only through the context, after a     *)
(* step of W.                                                              *)
LEMMA SeparateStep ==
  ASSUME IInv, Tree, ContextOK, WTypeOK, WithinW, NamesOK, WithinW', Separate,
         NEW n \in Nodes, Runs(n), StepOf(n)
  PROVE  Separate'
<1>0. CallsOK /\ Open \subseteq Nodes /\ Open \subseteq Nat /\ n \in Open /\ \A m \in Open : m <= n
  BY OpenAreNodes DEF Tree, Runs
<1> SUFFICES ASSUME NEW k \in Open', NEW m \in Open', NEW l \in Open', k < m, m <= l,
                    NEW u \in Live(k)', u \in Live(l)'
             PROVE  u \in Env(m)'
  BY DEF Separate
<1>1. CASE ~TreeReturns(n)
  <2>1. Grows(n)
    BY <1>1, StepGrows
  <2>2. k \in Open /\ l \in Open
    BY <1>0, <2>1 DEF Grows
  <2>3. m \in Open
    <3>1. m \notin Open => l < m
      BY <1>0, <2>1, <2>2 DEF Grows
    <3>2. m \notin Open => m \in Nat
      <4>1. CallsOK'
        BY TreeStep DEF WTypeOK, Tree
      <4> QED
        BY <4>1, NodesAssumption DEF CallsOK, Open
    <3> QED
      BY <1>0, <2>2, <3>1, <3>2
  <2>4. k # n
    BY <1>0, <2>2, <2>3
  <2>5. u \in Live(k) /\ u \in Allocated
    BY <1>0, <2>1, <2>2, <2>4, LiveAllocated DEF Grows
  <2>6. u \in Live(l)
    BY <2>1, <2>2, <2>5 DEF Grows
  <2>7. u \in Env(m)
    BY <2>2, <2>3, <2>5, <2>6 DEF Separate
  <2> QED
    BY <2>3, <2>7, EnvSame
<1>2. CASE TreeReturns(n)
  <2>1. Returns(n)
    BY <1>2, StepReturns
  <2>2. k \in Open /\ l \in Open /\ m \in Open /\ m <= n /\ k < l
    BY <1>0, <2>1 DEF Returns
  <2>3. ~Runs(k)'
    BY <1>0, <2>2 DEF Runs
  <2>4. u \in Live(k) /\ u \in Allocated
    BY <1>0, <2>1, <2>2, <2>3, LiveAllocated DEF Returns
  <2>5. u \in Live(l) \/ u \in Live(n) \/ u \in Env(n)
    BY <2>1, <2>4 DEF Returns
  <2>6. ASSUME u \in Live(l) PROVE u \in Env(m)
    BY <2>2, <2>4, <2>6 DEF Separate
  <2>7. ASSUME u \in Live(n) PROVE u \in Env(m)
    BY <1>0, <2>2, <2>4, <2>7 DEF Separate
  <2>8. ASSUME u \in Env(n) PROVE u \in Env(m)
    <3>1. u \in Env(m) \/ \E j \in Open : m <= j /\ u \in Live(j)
      BY <1>0, <2>2, <2>8, EnvSplit
    <3> QED
      BY <2>2, <2>4, <3>1 DEF Separate
  <2>9. Env(m)' = Env(m)
    BY <2>2, EnvSame
  <2>10. u \in Env(m)
    BY <2>5, <2>6, <2>7, <2>8
  <2> QED
    BY <2>9, <2>10
<1> QED
  BY <1>1, <1>2

(* The environment of a let is what it does not generalise.                *)
LEMMA EnvNotGeneralised ==
  ASSUME Tree, WTypeOK, ContextOK, NEW n \in Nodes, Runs(n), GeneralisesLet(n)
  PROVE  Env(n) \subseteq ContextFree(n)
<1>1. n \in Open /\ n \in called /\ IsLet(n) /\ part[n] = 1 /\ Exp[n].x \in Idents
  BY PartsOf DEF GeneralisesLet, Runs, Open
<1>2. Exp[n].x \notin DOMAIN RuntimeTypes
  BY <1>1 DEF ContextOK
<1>3. Scope[n][Exp[n].x] = None
  BY <1>1, <1>2, LetsAssumption DEF IsLet
<1>4. ASSUME NEW y \in Idents, Scope[n][y] # None
      PROVE  y # Exp[n].x /\ ctx[y] = Entry(Scope[n][y])
  <2>1. y # Exp[n].x
    BY <1>3, <1>4
  <2>2. Current(n)[y] = Scope[n][y]
    BY <2>1, InScopeIs DEF Current
  <2>3. EntryOK(Current(n)[y], y, ctx[y], scheme, var)
    BY <1>1 DEF ContextOK
  <2> QED
    BY <1>4, <2>1, <2>2, <2>3 DEF EntryOK, Entry
<1> QED
  BY <1>4 DEF Env, ContextFree

(* What is live after a step and was there before it was live before it.   *)
LEMMA LiveFrom ==
  ASSUME IInv, Tree, ContextOK, WTypeOK, WithinW, NamesOK, WithinW',
         NEW n \in Nodes, Runs(n), StepOf(n), NEW m \in Open', NEW u \in Live(m)', u \in Allocated
  PROVE  \E l \in Open : u \in Live(l)
<1>0. n \in Open
  BY DEF Runs
<1>1. CASE ~TreeReturns(n)
  <2>1. Grows(n)
    BY <1>1, StepGrows
  <2> QED
    BY <1>0, <2>1 DEF Grows
<1>2. CASE TreeReturns(n)
  <2>1. Returns(n)
    BY <1>2, StepReturns
  <2>2. m \in Open /\ (u \in Live(m) \/ u \in Live(n) \/ u \in Env(n))
    BY <2>1 DEF Returns
  <2> QED
    BY <1>0, <2>2, EnvLive
<1> QED
  BY <1>1, <1>2

(* A let that has generalised                                              *)
LEMMA GeneralisesStill ==
  ASSUME Tree, WTypeOK, NEW n \in Nodes, Runs(n), StepOf(n), NEW b \in Nodes, Generalises(b)',
         ~(b = n /\ GeneralisesLet(n))
  PROVE  Generalises(b) /\ scheme'[b] = scheme[b] /\ 1 \in Parts(b) /\ Part(b, 1) \in done
         /\ TypeOf(b, 1)' = TypeOf(b, 1)
<1>0. CallsOK /\ n \notin done
  BY DEF Tree, Runs, Open
<1>1. scheme'[b] = scheme[b]
  BY <1>0, Frame
<1>2. Generalises(b)
  <2>1. CASE b # n
    BY <1>0, <2>1, Frame DEF Generalises
  <2>2. CASE b = n
    <3>1. ~(\E i : PlainCall(n, i)) /\ ~OpensBinder(n)
      <4>1. IsLet(n) /\ part'[n] = 2
        BY <2>2 DEF Generalises
      <4> QED
        BY <4>1 DEF PlainCall, OpensBinder, Call, IsLet, Binds, WTypeOK
    <3>2. part'[n] = part[n]
      BY <2>2, <3>1 DEF StepOf, AsksFor, Ask, ReturnsResult, ReturnsInstance, InstantiatesBy, Return, Refuse
    <3> QED
      BY <2>2, <3>2 DEF Generalises
  <2> QED
    BY <2>1, <2>2
<1>3. 1 \in Parts(b) /\ 1 < part[b]
  BY <1>2, PartsOf DEF Generalises, IsLet, Arity
<1>4. Part(b, 1) \in done /\ Part(b, 1) \in Nodes
  BY <1>0, <1>3, PartsOf DEF CallsOK
<1>5. typ'[Part(b, 1)] = typ[Part(b, 1)]
  BY <1>0, <1>4, Frame
<1> QED
  BY <1>1, <1>2, <1>3, <1>4, <1>5 DEF TypeOf

(* Quantified variables occur nowhere else, after a step of W.             *)
LEMMA SpentStep ==
  ASSUME IInv, Tree, ContextOK, WTypeOK, WithinW, NamesOK, WithinW', Separate, Spent,
         NEW n \in Nodes, Runs(n), StepOf(n)
  PROVE  Spent'
<1>0. CallsOK /\ n \in Open /\ Open \subseteq Nodes /\ sub' = sub /\ \A m \in Open : m <= n
  BY OpenAreNodes, Frame DEF Tree, Runs
<1>1. Bound' = Bound
  BY <1>0 DEF Bound
<1>2. ASSUME NEW b \in Nodes, ~(b = n /\ GeneralisesLet(n))
      PROVE  SpentAt(b)'
  <2>0. SpentAt(b)
    BY DEF Spent
  <2>1. scheme'[b] = scheme[b] /\ Quantifies(b)' = Quantifies(b) /\ Quantifies(b) \subseteq Allocated
    <3>1. scheme'[b] = scheme[b]
      BY <1>0, <1>2, Frame
    <3> QED
      BY <3>1 DEF Quantifies, NamesOK
  <2>2. Quantifies(b)' \cap Bound' = {}
    BY <1>1, <2>0, <2>1 DEF SpentAt
  <2>3. ASSUME NEW m \in Open'
        PROVE  Quantifies(b)' \cap Live(m)' = {}
    BY <2>0, <2>1, LiveFrom DEF SpentAt
  <2>4. ASSUME Generalises(b)'
        PROVE  /\ Range(scheme'[b].gen) \cap F(TypeOf(b, 1))' = {}
               /\ F(TypeOf(b, 1))' \ DOMAIN scheme'[b].gen \subseteq F(scheme[b].t)'
    <3>1. Generalises(b) /\ TypeOf(b, 1)' = TypeOf(b, 1)
      BY <1>2, <2>4, GeneralisesStill
    <3>2. F(TypeOf(b, 1))' = F(TypeOf(b, 1)) /\ F(scheme[b].t)' = F(scheme[b].t)
      BY <1>0, <2>1, <3>1 DEF F
    <3> QED
      BY <2>0, <2>1, <3>1, <3>2 DEF SpentAt
  <2> QED
    BY <2>2, <2>3, <2>4 DEF SpentAt
<1>3. ASSUME GeneralisesLet(n)
      PROVE  SpentAt(n)'
  <2>1. PICK k, m : GeneralisesBy(n, k, m)
    BY <1>3 DEF GeneralisesLet
  <2>2. /\ scheme'[n].gen = m /\ DOMAIN m = Generalised(n) /\ DOMAIN m \subseteq F(TypeOf(n, 1))
        /\ Range(m) = New(k) /\ New(k) \cap Allocated = {}
        /\ F(TypeOf(n, 1)) \ DOMAIN m \subseteq F(scheme'[n].t)
        /\ F(TypeOf(n, 1)) \subseteq Live(n) /\ F(TypeOf(n, 1)) \subseteq Allocated \ Bound
        /\ typ' = typ
    BY <1>0, <1>3, <2>1, GeneralisedFacts
  <2>3. Live(n)' \subseteq F(TypeOf(n, 1)) \ DOMAIN m
    BY <1>0, <1>3, <2>1, GeneralisedLive
  <2>4. Quantifies(n)' = DOMAIN m \cup New(k)
    BY <2>2 DEF Quantifies
  <2>5. Bound' \subseteq Allocated
    BY <1>1 DEF NamesOK, BoundBy, Bound
  <2>6. ~TreeReturns(n)
    <3>1. n \notin done'
      BY <1>0, <1>3 DEF GeneralisesLet, Call, Open
    <3> QED
      BY <3>1 DEF TreeReturns
  <2>7. ASSUME NEW l \in Open'
        PROVE  Quantifies(n)' \cap Live(l)' = {}
    <3>1. CASE l = n
      BY <2>2, <2>3, <2>4, <3>1
    <3>2. CASE l # n /\ l \in Open
      <4>1. Live(l)' = Live(l) /\ l \in Nodes /\ Live(l) \subseteq Allocated
        BY <1>0, <2>6, <3>2, StepGrows, LiveAllocated DEF Grows
      <4>2. l < n
        BY <1>0, <3>2, NodesAssumption
      <4>3. Live(l) \cap Live(n) \subseteq Env(n)
        BY <1>0, <3>2, <4>2, NodesAssumption DEF Separate
      <4>4. Env(n) \subseteq ContextFree(n)
        BY <1>3, EnvNotGeneralised
      <4>5. Generalised(n) \cap ContextFree(n) = {}
        BY DEF Generalised
      <4> QED
        BY <2>2, <2>4, <4>1, <4>3, <4>4, <4>5
    <3>3. CASE l \notin Open
      BY <1>0, <2>6, <3>3, StepGrows DEF Grows
    <3> QED
      BY <3>1, <3>2, <3>3
  <2>8. F(TypeOf(n, 1))' = F(TypeOf(n, 1)) /\ F(scheme[n].t)' = F(scheme'[n].t)
    BY <1>0, <2>2 DEF F, TypeOf
  <2>9. Quantifies(n)' \cap Bound' = {}
    BY <1>1, <2>2, <2>4, <2>5
  <2>10. /\ Range(scheme'[n].gen) \cap F(TypeOf(n, 1))' = {}
         /\ F(TypeOf(n, 1))' \ DOMAIN scheme'[n].gen \subseteq F(scheme[n].t)'
    BY <2>2, <2>8
  <2> QED
    BY <2>7, <2>9, <2>10 DEF SpentAt
<1> QED
  BY <1>2, <1>3 DEF Spent

(* What a node asks for is about its own variable and its parts.           *)
LEMMA AskedFree ==
  ASSUME IInv, WTypeOK, NEW n \in Nodes, typ' = typ, NEW j \in DOMAIN Mentioned(n),
         NEW l \in Terms, NEW r \in Terms, Apply(l, sub) \in Terms, Apply(r, sub) \in Terms,
         Asks(n)'[j] = <<l, r>>
  PROVE  F(l) \cup F(r) \subseteq F(var'[n]) \cup UNION {F(TypeOf(n, i)) : i \in Parts(n)}
<1> DEFINE All == F(var'[n]) \cup UNION {F(TypeOf(n, i)) : i \in Parts(n)}
<1>0. Mentioned(n)[j] \subseteq Parts(n)
  BY MentionedParts
<1>1. \A i \in Parts(n) : F(TypeOf(n, i)) \subseteq All
  OBVIOUS
<1>2. F(var'[n]) \subseteq All /\ F(TBool) = {} /\ Spreads(sub)
  BY ClosedStays, TypesAssumption DEF WTypeOK
<1>3. \A i : (TypeOf(n, i))' = TypeOf(n, i)
  BY DEF TypeOf
<1> HIDE DEF All
<1>4. CASE Exp[n].e = "Application"
  <2>1. Mentioned(n) = << {1, 2} >> /\ j = 1
    BY <1>4 DEF Mentioned
  <2>2. 1 \in Parts(n) /\ 2 \in Parts(n)
    BY <1>0, <2>1
  <2>3. l = TypeOf(n, 1) /\ r = Fn(TypeOf(n, 2), var'[n])
    BY <1>3, <1>4, <2>1 DEF Asks
  <2>4. F(r) = F(TypeOf(n, 2)) \cup F(var'[n])
    BY <1>2, <2>3, FreeOfFn DEF F
  <2> QED
    BY <1>1, <1>2, <2>2, <2>3, <2>4 DEF All
<1>5. CASE Exp[n].e = "Let"
  <2>1. Mentioned(n) = << {1} >> /\ j = 1
    BY <1>5 DEF Mentioned
  <2>2. 1 \in Parts(n)
    BY <1>0, <2>1
  <2>3. l = TypeOf(n, 1) /\ r = var'[n]
    BY <1>3, <1>5, <2>1 DEF Asks
  <2> QED
    BY <1>1, <1>2, <2>2, <2>3 DEF All
<1>6. CASE Exp[n].e = "Not"
  <2>1. Mentioned(n) = << {1} >> /\ j = 1
    BY <1>6 DEF Mentioned
  <2>2. 1 \in Parts(n)
    BY <1>0, <2>1
  <2>3. l = TypeOf(n, 1) /\ r = TBool
    BY <1>3, <1>6, <2>1 DEF Asks
  <2> QED
    BY <1>1, <1>2, <2>2, <2>3 DEF All
<1>7. CASE Exp[n].e = "Cons"
  <2>1. Mentioned(n) = << {1, 2} >> /\ j = 1
    BY <1>7 DEF Mentioned
  <2>2. 1 \in Parts(n) /\ 2 \in Parts(n)
    BY <1>0, <2>1
  <2>3. l = TypeOf(n, 2) /\ r = List(TypeOf(n, 1))
    BY <1>3, <1>7, <2>1 DEF Asks
  <2>4. F(r) = F(TypeOf(n, 1))
    BY <1>2, <2>3, FreeOfList DEF F
  <2> QED
    BY <1>1, <2>2, <2>3, <2>4 DEF All
<1>8. CASE Exp[n].e \in {"Arithmetic", "Comparison"}
  <2>1. Mentioned(n) = << {1, 2} >> /\ j = 1
    BY <1>8 DEF Mentioned
  <2>2. 1 \in Parts(n) /\ 2 \in Parts(n)
    BY <1>0, <2>1
  <2>3. l = TypeOf(n, 1) /\ r = TypeOf(n, 2)
    BY <1>3, <1>8, <2>1 DEF Asks
  <2> QED
    BY <1>1, <2>2, <2>3 DEF All
<1>9. CASE Exp[n].e = "IfElse"
  <2>1. Mentioned(n) = << {1}, {2, 3} >> /\ j \in {1, 2}
    BY <1>9 DEF Mentioned
  <2>2. Asks(n)' = << <<TypeOf(n, 1), TBool>>, <<TypeOf(n, 2), TypeOf(n, 3)>> >>
    BY <1>3, <1>9 DEF Asks
  <2>3. CASE j = 1
    BY <1>0, <1>1, <1>2, <2>1, <2>2, <2>3 DEF All
  <2>4. CASE j = 2
    BY <1>0, <1>1, <1>2, <2>1, <2>2, <2>4 DEF All
  <2> QED
    BY <2>1, <2>3, <2>4
<1>10. CASE Exp[n].e = "Logical"
  <2>1. Mentioned(n) = << {1, 2}, {1} >> /\ j \in {1, 2}
    BY <1>10 DEF Mentioned
  <2>2. Asks(n)' = << <<TypeOf(n, 1), TypeOf(n, 2)>>, <<TypeOf(n, 1), TBool>> >>
    BY <1>3, <1>10 DEF Asks
  <2>3. CASE j = 1
    BY <1>0, <1>1, <1>2, <2>1, <2>2, <2>3 DEF All
  <2>4. CASE j = 2
    BY <1>0, <1>1, <1>2, <2>1, <2>2, <2>4 DEF All
  <2> QED
    BY <2>1, <2>3, <2>4
<1>11. CASE Exp[n].e \notin {"Let", "Not", "IfElse", "Logical", "Application", "Cons",
                          "Arithmetic", "Comparison"}
  <2>1. Mentioned(n) = <<>>
    BY <1>11 DEF Mentioned
  <2> QED
    BY <2>1
<1> QED
  BY <1>4, <1>5, <1>6, <1>7, <1>8, <1>9, <1>10, <1>11

(* What unify works on is live in the node that has asked for it, after a  *)
(* step of W.                                                              *)
LEMMA RunningStep ==
  ASSUME IInv, Idle, Tree, WTypeOK, Within', NEW n \in Nodes, Runs(n), StepOf(n)
  PROVE  Running'
<1>1. CASE AsksFor(n)
  <2> DEFINE j == asked[n] + 1
  <2>1. PICK l, r : Ask(n, l, r) /\ Asks(n)'[j] = <<l, r>>
    BY <1>1 DEF AsksFor
  <2>2. /\ <<l, r>> \in TypePairs /\ todo' = <<Pair(FALSE, l, r)>> /\ sub' = sub /\ typ' = typ
        /\ part' = part /\ called' = called /\ done' = done
    BY <2>1 DEF Ask, Equate
  <2>3. l \in Terms /\ r \in Terms
    BY <2>2 DEF TypePairs, Terms
  <2>4. /\ DOMAIN todo' = {1} /\ todo'[1].l = l /\ todo'[1].r = r
    BY <2>2 DEF Pair
  <2>5. Apply(l, sub) \in Terms /\ Apply(r, sub) \in Terms
    BY <2>2, <2>4 DEF Within
  <2>6. j \in DOMAIN Mentioned(n) /\ ~Generalises(n)
    BY <1>1 DEF AsksFor
  <2>7. F(l) \cup F(r) \subseteq F(var'[n]) \cup UNION {F(TypeOf(n, i)) : i \in Parts(n)}
    <3> HIDE DEF j
    <3> QED
      BY <2>1, <2>2, <2>3, <2>5, <2>6, AskedFree
  <2>8. TodoFree' = F(l) \cup F(r)
    <3>1. TodoFree' = UNION {FreeVariables(Apply(todo'[i].l, sub'))
                               \cup FreeVariables(Apply(todo'[i].r, sub'))
                               : i \in DOMAIN todo'}
      BY DEF TodoFree, F
    <3> QED
      BY <2>2, <2>4, <3>1 DEF F
  <2>9. Live(n)' = F(var'[n]) \cup UNION {F(TypeOf(n, i)) : i \in Parts(n)}
    <3>1. ~Generalises(n)'
      BY <2>2, <2>6 DEF Generalises
    <3>2. F(var[n])' = F(var'[n]) /\ \A i \in Parts(n) : F(TypeOf(n, i))' = F(TypeOf(n, i))
      BY <2>2 DEF F, TypeOf
    <3>3. Live(n)' = F(var[n])' \cup UNION {F(TypeOf(n, i))' : i \in Parts(n)}
      BY <3>1 DEF Live
    <3> QED
      BY <3>2, <3>3
  <2>10. n \in Open' /\ Runs(n)'
    BY <2>2 DEF Runs, Open
  <2> QED
    BY <2>7, <2>8, <2>9, <2>10 DEF Running
<1>2. CASE ~AsksFor(n)
  <2>1. todo' = todo
    BY <1>2 DEF StepOf, PlainCall, JustCall, Call, OpensBinder, GeneralisesLet, ReturnsResult,
                ReturnsInstance, InstantiatesBy, Return, Refuse, vars
  <2> QED
    BY <2>1 DEF Running, Idle
<1> QED
  BY <1>1, <1>2

(* What a binding does to a set of variables, one at a time *)
LEMMA MovedIn ==
  ASSUME NEW b, b.v \notin FreeVariables(b.t), NEW S, NEW u
  PROVE  u \in Moved(S, b) <=> (u \in S /\ u # b.v) \/ (b.v \in S /\ u \in FreeVariables(b.t))
BY DEF Moved

(* A step of unify that binds a variable, for the node n that runs *)
Binding(n, b) ==
  /\ UNCHANGED wvars /\ BindsTodo(b)
  /\ n \in Open /\ Runs(n) /\ TodoFree \subseteq Live(n)
BasicFacts == IInv /\ CallsOK /\ WTypeOK /\ WithinW /\ WithinW' /\ NamesOK

(* What a binding binds and brings in is live where the call runs.         *)
LEMMA BindingFacts ==
  ASSUME Spent, CallsOK, NEW n, NEW b, Binding(n, b)
  PROVE  /\ b.v \notin FreeVariables(b.t) /\ n \in Nodes
         /\ b.v \in Live(n) /\ FreeVariables(b.t) \subseteq Live(n)
         /\ \A a \in Nodes : b.v \notin Quantifies(a) /\ FreeVariables(b.t) \cap Quantifies(a) = {}
         /\ typ' = typ /\ var' = var /\ scheme' = scheme /\ inst' = inst
         /\ part' = part /\ Open' = Open /\ called' = called /\ done' = done
         /\ Runs(n)'
BY OpenAreNodes DEF Binding, BindsTodo, Spent, SpentAt, wvars, Open, Runs

(* The free variables of polytypes move as those of types.                 *)
LEMMA SchemeMoves ==
  ASSUME BasicFacts, Spent, NEW n, NEW b, Binding(n, b), NEW a \in Nodes
  PROVE  FreeIn(scheme[a])' = Moved(FreeIn(scheme[a]), b)
<1>1. FreeVariables(Apply(scheme[a].t, sub')) = Moved(F(scheme[a].t), b)
  BY TypesMove DEF BasicFacts, Binding
<1>2. b.v \notin Range(scheme[a].gen) /\ FreeVariables(b.t) \cap Range(scheme[a].gen) = {}
      /\ scheme' = scheme /\ b.v \notin FreeVariables(b.t)
  BY BindingFacts DEF Quantifies, BasicFacts
<1>3. FreeIn(scheme[a])' = FreeVariables(Apply(scheme[a].t, sub')) \ Range(scheme[a].gen)
      /\ FreeIn(scheme[a]) = F(scheme[a].t) \ Range(scheme[a].gen)
  BY <1>2 DEF FreeIn, F
<1>4. \A u : u \in FreeIn(scheme[a])' <=> u \in Moved(FreeIn(scheme[a]), b)
  BY <1>1, <1>2, <1>3, MovedIn
<1> QED
  BY <1>4

(* The same for the types of nodes and their variables, ...                *)
LEMMA TypMoves ==
  ASSUME BasicFacts, Spent, NEW n, NEW b, Binding(n, b), NEW a \in Nodes
  PROVE  F(typ[a])' = Moved(F(typ[a]), b) /\ F(var[a])' = Moved(F(var[a]), b)
BY TypesMove, BindingFacts DEF BasicFacts, Binding, F

(* ... for what is live, ...                                               *)
LEMMA LiveMoves ==
  ASSUME BasicFacts, Spent, NEW n, NEW b, Binding(n, b), NEW a \in Nodes
  PROVE  Live(a)' = Moved(Live(a), b)
<1>1. \A i \in Parts(a) : F(TypeOf(a, i))' = Moved(F(TypeOf(a, i)), b)
  BY TypMoves, PartsOf DEF TypeOf
<1>2. F(var[a])' = Moved(F(var[a]), b) /\ FreeIn(scheme[a])' = Moved(FreeIn(scheme[a]), b)
  BY TypMoves, SchemeMoves
<1>3. b.v \notin FreeVariables(b.t) /\ (Generalises(a)' <=> Generalises(a))
  BY BindingFacts DEF Generalises, BasicFacts
<1>4. CASE Generalises(a)
  <2>1. 2 \in Parts(a)
    BY <1>4, PartsOf DEF Generalises, IsLet, Arity
  <2>2. /\ Live(a)' = FreeIn(scheme[a])' \cup F(TypeOf(a, 2))'
        /\ Live(a) = FreeIn(scheme[a]) \cup F(TypeOf(a, 2))
    BY <1>3, <1>4 DEF Live
  <2>3. \A u : u \in Live(a)' <=> u \in Moved(Live(a), b)
    BY <1>1, <1>2, <1>3, <2>1, <2>2, MovedIn
  <2> QED
    BY <2>3
<1>5. CASE ~Generalises(a)
  <2>1. Live(a)' = F(var[a])' \cup UNION {F(TypeOf(a, i))' : i \in Parts(a)}
    BY <1>3, <1>5 DEF Live
  <2>2. Live(a) = F(var[a]) \cup UNION {F(TypeOf(a, i)) : i \in Parts(a)}
    BY <1>5 DEF Live
  <2>3. \A u : u \in Live(a)' <=> u \in Moved(Live(a), b)
    BY <1>1, <1>2, <1>3, <2>1, <2>2, MovedIn
  <2> QED
    BY <2>3
<1> QED
  BY <1>4, <1>5

(* ... and for an environment.                                             *)
LEMMA EnvMoves ==
  ASSUME BasicFacts, Spent, NEW n, NEW b, Binding(n, b), NEW a \in Nodes
  PROVE  Env(a)' = Moved(Env(a), b)
<1>0. b.v \notin FreeVariables(b.t) /\ var' = var /\ scheme' = scheme
  BY BindingFacts DEF BasicFacts
<1>1. ASSUME NEW y \in Idents, Scope[a][y] # None
      PROVE  FreeIn(Entry(Scope[a][y]))' = Moved(FreeIn(Entry(Scope[a][y])), b)
  <2>1. PICK d \in Nodes, i \in {1, 2} : Scope[a][y] = <<d, i>>
    BY <1>1, ScopeIs
  <2>2. CASE Entry(<<d, i>>) = scheme[d]
    <3>1. Entry(<<d, i>>)' = scheme[d]'
      BY <1>0, <2>2 DEF Entry
    <3>2. FreeIn(Entry(<<d, i>>))' = FreeIn(scheme[d])'
      BY <3>1 DEF FreeIn
    <3> QED
      BY <2>1, <2>2, <3>2, SchemeMoves
  <2>3. CASE Entry(<<d, i>>) = Mono(var[d])
    <3>1. Entry(<<d, i>>)' = Mono(var[d])
      BY <1>0, <2>3 DEF Entry
    <3>2. FreeIn(Entry(<<d, i>>))' = F(var[d])'
      BY <1>0, <3>1, MonoParts DEF FreeIn, F
    <3>3. FreeIn(Entry(<<d, i>>)) = F(var[d])
      BY <2>3, MonoParts DEF FreeIn, F
    <3> QED
      BY <2>1, <3>2, <3>3, TypMoves
  <2> QED
    BY <2>1, <2>2, <2>3, EntryTerm DEF BasicFacts
<1>2. Env(a)' = UNION {FreeIn(Entry(Scope[a][y]))' : y \in {z \in Idents : Scope[a][z] # None}}
  BY DEF Env
<1>3. \A u : u \in Env(a)' <=> u \in Moved(Env(a), b)
  BY <1>0, <1>1, <1>2, MovedIn DEF Env
<1> QED
  BY <1>3

(* Nodes in progress share variables only through the context, after a     *)
(* variable has been bound.                                                *)
LEMMA SeparateBinding ==
  ASSUME BasicFacts, Spent, Separate, NEW n, NEW b, Binding(n, b)
  PROVE  Separate'
<1>0. /\ b.v \notin FreeVariables(b.t) /\ b.v \in Live(n) /\ FreeVariables(b.t) \subseteq Live(n)
      /\ Open' = Open /\ n \in Open /\ \A m \in Open : m <= n
  BY BindingFacts DEF BasicFacts, Binding, Runs
<1> SUFFICES ASSUME NEW k \in Open, NEW m \in Open, NEW l \in Open, k < m, m <= l,
                    NEW u \in Live(k)', u \in Live(l)'
             PROVE  u \in Env(m)'
  BY <1>0 DEF Separate
<1>1. k \in Nodes /\ m \in Nodes /\ l \in Nodes /\ m <= n
  BY <1>0, OpenAreNodes DEF BasicFacts
<1>2. \A v : v \in Live(k) /\ (v \in Live(l) \/ v \in Live(n)) => v \in Env(m)
  BY <1>0, <1>1 DEF Separate
<1>3. u \in Moved(Live(k), b) /\ u \in Moved(Live(l), b)
  BY <1>1, LiveMoves
<1>4. u \in Moved(Env(m), b)
  BY <1>0, <1>2, <1>3, MovedIn
<1> QED
  BY <1>1, <1>4, EnvMoves

(* Quantified variables occur nowhere else, after a variable has been bound. *)
LEMMA SpentBinding ==
  ASSUME BasicFacts, Spent, NEW n, NEW b, Binding(n, b)
  PROVE  Spent'
<1> SUFFICES ASSUME NEW a \in Nodes
             PROVE  SpentAt(a)'
  BY DEF Spent
<1>0. /\ b.v \notin FreeVariables(b.t) /\ b.v \in Live(n) /\ FreeVariables(b.t) \subseteq Live(n)
      /\ Open' = Open /\ n \in Open /\ scheme' = scheme /\ typ' = typ /\ part' = part
      /\ b.v \notin Quantifies(a) /\ FreeVariables(b.t) \cap Quantifies(a) = {}
  BY BindingFacts DEF BasicFacts, Binding
<1>1. SpentAt(a) /\ Quantifies(a)' = Quantifies(a)
  BY <1>0 DEF Spent, Quantifies
<1>2. Quantifies(a)' \cap Bound' = {}
  <2>1. Bound' = Bound \cup {b.v}
    BY BoundAfter DEF Binding, BindsTodo, BasicFacts, IInv, TypeOK
  <2> QED
    BY <1>0, <1>1, <2>1 DEF SpentAt
<1>3. ASSUME NEW m \in Open'
      PROVE  Quantifies(a)' \cap Live(m)' = {}
  <2>1. m \in Open /\ m \in Nodes /\ Live(m)' = Moved(Live(m), b)
    BY <1>0, OpenAreNodes, LiveMoves DEF BasicFacts
  <2> QED
    BY <1>0, <1>1, <2>1, MovedIn DEF SpentAt
<1>4. ASSUME Generalises(a)'
      PROVE  /\ Range(scheme'[a].gen) \cap F(TypeOf(a, 1))' = {}
             /\ F(TypeOf(a, 1))' \ DOMAIN scheme'[a].gen \subseteq F(scheme[a].t)'
  <2>1. Generalises(a) /\ 1 \in Parts(a)
    BY <1>0, <1>4, PartsOf DEF Generalises, IsLet, Arity
  <2>2. F(TypeOf(a, 1))' = Moved(F(TypeOf(a, 1)), b)
    BY <2>1, TypMoves, PartsOf DEF TypeOf
  <2>3. F(scheme[a].t)' = Moved(F(scheme[a].t), b)
    BY <1>0, TypesMove DEF BasicFacts, Binding, F
  <2>4. /\ Range(scheme[a].gen) \cap F(TypeOf(a, 1)) = {}
        /\ F(TypeOf(a, 1)) \ DOMAIN scheme[a].gen \subseteq F(scheme[a].t)
    BY <1>1, <2>1 DEF SpentAt
  <2>5. \A u : u \in F(TypeOf(a, 1))' => u \notin Range(scheme[a].gen)
    BY <1>0, <2>2, <2>4, MovedIn DEF Quantifies
  <2>6. \A u : u \in F(TypeOf(a, 1))' /\ u \notin DOMAIN scheme[a].gen => u \in F(scheme[a].t)'
    BY <1>0, <2>2, <2>3, <2>4, MovedIn DEF Quantifies
  <2> QED
    BY <1>0, <2>5, <2>6
<1> QED
  BY <1>2, <1>3, <1>4 DEF SpentAt

(* What unify works on stays live.                                         *)
LEMMA RunningBinding ==
  ASSUME BasicFacts, Spent, Within', NEW n, NEW b, Binding(n, b)
  PROVE  Running'
<1>0. /\ b.v \notin FreeVariables(b.t) /\ n \in Nodes /\ n \in Open' /\ Runs(n)'
  BY BindingFacts DEF BasicFacts, Runs
<1>1. ASSUME NEW i \in DOMAIN todo'
      PROVE  F(todo[i].l)' \cup F(todo[i].r)' \subseteq Live(n)'
  <2>1. PICK j \in DOMAIN todo : todo'[i] = todo[j]
    BY DEF Binding, BindsTodo
  <2>2. /\ Apply(todo'[i].l, sub') \in Terms /\ Apply(todo'[i].r, sub') \in Terms
        /\ Apply(todo[j].l, sub) \in Terms /\ Apply(todo[j].r, sub) \in Terms
    BY DEF Within, BasicFacts, IInv
  <2>3. F(todo[i].l)' = Moved(F(todo[j].l), b) /\ F(todo[i].r)' = Moved(F(todo[j].r), b)
    BY <2>1, <2>2, FreeAfter DEF F, Binding, BindsTodo, BasicFacts, IInv, TypeOK
  <2>4. F(todo[j].l) \subseteq Live(n) /\ F(todo[j].r) \subseteq Live(n)
    BY DEF Binding, TodoFree
  <2>5. Live(n)' = Moved(Live(n), b)
    BY <1>0, LiveMoves
  <2>6. \A u : u \in F(todo[i].l)' \/ u \in F(todo[i].r)' => u \in Live(n)'
    BY <1>0, <2>3, <2>4, <2>5, MovedIn
  <2> QED
    BY <2>6
<1>2. TodoFree' = UNION {F(todo[i].l)' \cup F(todo[i].r)' : i \in DOMAIN todo'}
  BY DEF TodoFree
<1>3. TodoFree' \subseteq Live(n)'
  BY <1>1, <1>2
<1> QED
  BY <1>0, <1>3 DEF Running

(* A step of unify that binds nothing changes none of this.                *)
LEMMA NothingBound ==
  ASSUME UNCHANGED wvars, sub' = sub, TodoFree' \subseteq TodoFree,
         todo' # <<>> => todo # <<>>, Separate, Spent, Running
  PROVE  Separate' /\ Spent' /\ Running'
<1>1. /\ called' = called /\ done' = done /\ part' = part /\ typ' = typ /\ var' = var /\ scheme' = scheme
  BY DEF wvars
<1>2. Open' = Open /\ Bound' = Bound
  BY <1>1 DEF Open, Bound
<1>3. \A t : F(t)' = F(t)
  BY DEF F
<1>4. ASSUME NEW n
      PROVE  (Generalises(n)' <=> Generalises(n)) /\ FreeIn(scheme[n])' = FreeIn(scheme[n])
  BY <1>1 DEF Generalises, FreeIn
<1>5. ASSUME NEW n
      PROVE  Live(n)' = Live(n)
  BY <1>1, <1>3, <1>4 DEF Live, TypeOf, F
<1>6. ASSUME NEW n
      PROVE  Env(n)' = Env(n)
  <2>1. \A b : Entry(b)' = Entry(b)
    BY <1>1 DEF Entry
  <2>2. \A p : FreeIn(p)' = FreeIn(p)
    BY DEF FreeIn
  <2> QED
    BY <2>1, <2>2 DEF Env, FreeIn
<1>7. ASSUME NEW n
      PROVE  Runs(n)' <=> Runs(n)
  BY <1>2 DEF Runs
<1>8. Separate'
  BY <1>2, <1>5, <1>6 DEF Separate
<1>9. Running'
  BY <1>2, <1>5, <1>7 DEF Running
<1>10. ASSUME NEW b \in Nodes
       PROVE  SpentAt(b)'
  <2>1. F(TypeOf(b, 1))' = F(TypeOf(b, 1)) /\ F(scheme[b].t)' = F(scheme[b].t)
        /\ Quantifies(b)' = Quantifies(b)
    BY <1>1 DEF F, TypeOf, Quantifies
  <2>2. SpentAt(b)
    BY DEF Spent
  <2> QED
    BY <1>1, <1>2, <1>4, <1>5, <2>1, <2>2 DEF SpentAt
<1> QED
  BY <1>8, <1>9, <1>10 DEF Spent

-----------------------------------------------------------------------------
(* 8. What the environment has for a name, polytypes and their instances.  *)

(* What is in scope where a call has been made has been bound, and stays.  *)
LEMMA SourceBound ==
  ASSUME Tree, NEW m \in called, NEW y \in Idents, Scope[m][y] # None
  PROVE  \E a \in Nodes, i \in {1, 2} :
           /\ Scope[m][y] = <<a, i>> /\ i \in Binds(a) /\ i <= part[a]
           /\ Polymorphic(<<a, i>>) => Generalises(a) /\ 1 \in Parts(a) /\ Part(a, 1) \in done
<1>1. PICK a \in called, i \in {1, 2} : Scope[m][y] = <<a, i>> /\ i \in Binds(a) /\ i <= part[a]
  BY DEF Tree, ScopesOK
<1>2. a \in Nodes
  BY DEF Tree, CallsOK
<1>3. ASSUME Polymorphic(<<a, i>>)
      PROVE  Generalises(a) /\ 1 \in Parts(a) /\ Part(a, 1) \in done
  <2>1. IsLet(a) /\ i = 2
    BY <1>3, NotNone DEF Polymorphic, IsLet
  <2>2. Len(Exp[a].parts) = Arity[Exp[a].e] /\ Parts(a) = 1 .. Len(Exp[a].parts)
    BY <1>2, PartsOf
  <2>3. Len(Exp[a].parts) = 2
    BY <2>1, <2>2 DEF IsLet, Arity
  <2>4. part[a] \in 0 .. 2
    BY <1>2, <2>3 DEF Tree, CallsOK
  <2>5. part[a] = 2
    BY <1>1, <2>1, <2>4
  <2>6. 1 \in Parts(a)
    BY <2>2, <2>3
  <2> QED
    BY <1>2, <2>1, <2>5, <2>6 DEF Tree, CallsOK, Generalises
<1> QED
  BY <1>1, <1>2, <1>3

(* What the environment has for a name that is bound, ...                  *)
LEMMA SourceIs ==
  ASSUME NEW m, NEW y, NEW a, NEW i, Scope[m][y] = <<a, i>>
  PROVE  /\ Polymorphic(<<a, i>>) => Source(m, y) = TypeOf(a, 1) /\ Quantified(m, y) = DOMAIN scheme[a].gen
         /\ ~Polymorphic(<<a, i>>) => Source(m, y) = var[a] /\ Quantified(m, y) = {}
BY NotNone DEF Source, Quantified, TypeOf

(* ... for the name of a runtime function, ...                             *)
LEMMA SourceOfBuiltin ==
  ASSUME NEW m, NEW y, Scope[m][y] = None
  PROVE  Source(m, y) = RuntimeTypes[y] /\ Quantified(m, y) = {} /\ Source(m, y)' = RuntimeTypes[y]
         /\ Quantified(m, y)' = {}
BY DEF Source, Quantified, Polymorphic

(* ... and that it stays, once the node has been called.                   *)
LEMMA SourceStays ==
  ASSUME Tree, WTypeOK, NEW n \in Nodes, Runs(n), StepOf(n), NEW m \in called, NEW y \in Idents
  PROVE  Source(m, y)' = Source(m, y) /\ Quantified(m, y)' = Quantified(m, y)
<1>0. CallsOK /\ n \notin done
  BY DEF Tree, Runs, Open
<1>1. CASE Scope[m][y] = None
  BY <1>1, SourceOfBuiltin
<1>2. CASE Scope[m][y] # None
  <2>1. PICK a \in Nodes, i \in {1, 2} :
           /\ Scope[m][y] = <<a, i>> /\ i \in Binds(a) /\ i <= part[a]
           /\ Polymorphic(<<a, i>>) => Generalises(a) /\ 1 \in Parts(a) /\ Part(a, 1) \in done
    BY <1>2, SourceBound
  <2>2. var'[a] = var[a]
    <3>1. a = n => ~Allots(n)
      <4>1. a = n => part[n] # 0 /\ Exp[n].e # "Application"
        BY <2>1 DEF Binds
      <4> QED
        BY <4>1 DEF Allots
    <3> QED
      BY <1>0, <3>1, Frame
  <2>3. CASE Polymorphic(<<a, i>>)
    <3>1. Part(a, 1) # n /\ Part(a, 1) \in Nodes
      BY <1>0, <2>1, <2>3, PartsOf
    <3>2. TypeOf(a, 1)' = TypeOf(a, 1)
      BY <1>0, <3>1, Frame DEF TypeOf
    <3>3. scheme'[a] = scheme[a]
      <4>1. a = n => ~GeneralisesLet(n)
        BY <2>1, <2>3 DEF GeneralisesLet, Generalises
      <4> QED
        BY <1>0, <4>1, Frame
    <3>4. Source(m, y) = TypeOf(a, 1) /\ Quantified(m, y) = DOMAIN scheme[a].gen
      BY <2>1, <2>3, SourceIs
    <3>5. Source(m, y)' = TypeOf(a, 1)' /\ Quantified(m, y)' = DOMAIN scheme'[a].gen
      BY <2>1, <2>3, NotNone DEF Source, Quantified, TypeOf
    <3> QED
      BY <3>2, <3>3, <3>4, <3>5
  <2>4. CASE ~Polymorphic(<<a, i>>)
    <3>1. Source(m, y) = var[a] /\ Quantified(m, y) = {}
      BY <2>1, <2>4, SourceIs
    <3>2. Source(m, y)' = var'[a] /\ Quantified(m, y)' = {}
      BY <2>1, <2>4, NotNone DEF Source, Quantified
    <3> QED
      BY <2>2, <3>1, <3>2
  <2> QED
    BY <2>3, <2>4
<1> QED
  BY <1>1, <1>2

(* The variables that have been allocated are variables, and stand for     *)
(* themselves until they are bound.                                        *)
LEMMA AllocatedVars ==
  ASSUME WTypeOK, NEW v \in Allocated
  PROVE  v \in AllVars /\ Var(v) \in Terms /\ Var(v) \in Types /\ FreeVariables(Var(v)) = {v}
<1>1. allocated \in Nat /\ MaxVars \in Nat /\ allocated <= MaxVars
  BY CounterAssumption DEF WTypeOK
<1>2. PICK i \in 0 .. (allocated - 1) : v = NewTypeVar(i)
  BY DEF Allocated
<1>3. i \in 0 .. (MaxVars - 1)
  BY <1>1
<1>4. v \in TypeVars /\ Var(v) \in Types
  BY <1>2, <1>3, CounterAssumption
<1> QED
  BY <1>4, FreeOfVariable, VarShape DEF AllVars, Terms

(* The meaning of a variable that is not bound.                            *)
LEMMA MeaningOfVar ==
  ASSUME IInv, NEW v, Var(v) \in Terms, FreeVariables(Var(v)) = {v}, v \notin Bound, NEW g
  PROVE  Apply(Var(v), sub) = Var(v) /\ Meaning(g, Apply(Var(v), sub)) = g[v]
<1>1. Apply(Var(v), sub) = Var(v)
  BY Untouched
<1>2. Meaning(g, Var(v)) = g[v]
  BY MeaningOfVariable, VarShape
<1> QED
  BY <1>1, <1>2

(* A polytype means what the type means that it has been made of, after a  *)
(* step of W.                                                              *)
LEMMA SchemesStep ==
  ASSUME IInv, Tree, WTypeOK, WithinW, NamesOK, SchemesOK, NEW n \in Nodes, Runs(n), StepOf(n)
  PROVE  SchemesOK'
<1>0. CallsOK /\ sub' = sub
  BY Frame DEF Tree
<1>1. ASSUME NEW b \in Nodes, Generalises(b)', ~(b = n /\ GeneralisesLet(n))
      PROVE  SameUnder(sub', scheme'[b].t, scheme'[b].gen, TypeOf(b, 1)')
  <2>1. Generalises(b) /\ scheme'[b] = scheme[b] /\ TypeOf(b, 1)' = TypeOf(b, 1)
    BY <1>1, GeneralisesStill
  <2> QED
    BY <1>0, <2>1 DEF SchemesOK, Same
<1>2. ASSUME GeneralisesLet(n)
      PROVE  SameUnder(sub', scheme'[n].t, scheme'[n].gen, TypeOf(n, 1)')
  <2>1. PICK k, m : GeneralisesBy(n, k, m)
    BY <1>2 DEF GeneralisesLet
  <2> DEFINE u == Typ(Part(n, 1))
             t == Rename(u, m)
  <2>2. /\ scheme'[n].gen = m /\ scheme'[n].t = t /\ t \in Terms /\ u \in Terms
        /\ DOMAIN m \subseteq F(TypeOf(n, 1)) /\ F(TypeOf(n, 1)) \subseteq Allocated \ Bound
        /\ Range(m) = New(k) /\ New(k) \cap Allocated = {} /\ Apply(t, sub) = t /\ typ' = typ
    BY <1>0, <1>2, <2>1, GeneralisedFacts
  <2>3. F(TypeOf(n, 1)) = FreeVariables(u) /\ Apply(TypeOf(n, 1), sub) = u
    BY DEF F, TypeOf, Typ
  <2>4. \A v \in New(k) : Var(v) \in Terms /\ FreeVariables(Var(v)) = {v}
    BY <2>1, NewVars DEF GeneralisesBy
  <2>5. Bound \subseteq Allocated
    BY DEF NamesOK, BoundBy, Bound
  <2> HIDE DEF u
  <2>6. ASSUME NEW g, AllVars \subseteq DOMAIN g
        PROVE  Meaning(g, t) = Meaning(With(g, m, sub), u)
    <3> DEFINE h == With(g, m, sub)
    <3>1. ASSUME NEW v \in FreeVariables(u)
          PROVE  h[v] = IF v \in DOMAIN m THEN g[m[v]] ELSE g[v]
      <4>1. v \in AllVars /\ v \in DOMAIN g
        BY <2>2, <2>3, <2>6, AllocatedVars
      <4>2. CASE v \in DOMAIN m
        <5>1. m[v] \in New(k)
          BY <2>2, <4>2 DEF Range
        <5>2. m[v] \notin Bound
          BY <2>2, <2>5, <5>1
        <5> QED
          BY <2>4, <4>1, <4>2, <5>1, <5>2, MeaningOfVar DEF With
      <4>3. CASE v \notin DOMAIN m
        BY <4>1, <4>3 DEF With
      <4> QED
        BY <4>2, <4>3
    <3> HIDE DEF h
    <3>2. Meaning(g, Rename(u, m)) = Meaning(h, u)
      BY <2>2, <3>1, MeaningOfRenamed
    <3> QED
      BY <3>2 DEF h
  <2>7. TypeOf(n, 1)' = TypeOf(n, 1)
    BY <2>2 DEF TypeOf
  <2> QED
    BY <1>0, <2>2, <2>3, <2>6, <2>7 DEF SameUnder
<1> QED
  BY <1>1, <1>2 DEF SchemesOK, Same

(* ... and after a variable has been bound.                                *)
LEMMA SchemesBinding ==
  ASSUME BasicFacts, Spent, SchemesOK, NEW n, NEW b, Binding(n, b)
  PROVE  SchemesOK'
<1>0. /\ sub' = Append(sub, b) /\ sub \in Seq(BindingSet) /\ b \in BindingSet /\ b.t \in Terms
      /\ scheme' = scheme /\ typ' = typ /\ part' = part
  BY BindingFacts DEF Binding, BindsTodo, BasicFacts, IInv, TypeOK
<1> SUFFICES ASSUME NEW a \in Nodes, Generalises(a)'
             PROVE  SameUnder(Append(sub, b), scheme[a].t, scheme[a].gen, TypeOf(a, 1))
  BY <1>0 DEF SchemesOK, Same, TypeOf
<1>1. Generalises(a) /\ 1 \in Parts(a) /\ Part(a, 1) \in Nodes
  BY <1>0, PartsOf DEF Generalises, IsLet, Arity
<1>2. SameUnder(sub, scheme[a].t, scheme[a].gen, TypeOf(a, 1))
  BY <1>1 DEF SchemesOK, Same
<1>3. /\ Apply(scheme[a].t, sub) \in Terms /\ Apply(scheme[a].t, Append(sub, b)) \in Terms
      /\ Apply(TypeOf(a, 1), sub) \in Terms /\ Apply(TypeOf(a, 1), Append(sub, b)) \in Terms
  BY <1>0, <1>1, TypesWithin, TypesMove DEF BasicFacts, Binding, TypeOf, Terms
<1>4. b.v \notin DOMAIN scheme[a].gen /\ FreeVariables(b.t) \cap DOMAIN scheme[a].gen = {}
  BY BindingFacts DEF Quantifies, BasicFacts
<1>5. ASSUME NEW v \in DOMAIN scheme[a].gen
      PROVE  /\ Apply(Var(scheme[a].gen[v]), sub) \in Terms
             /\ Apply(Var(scheme[a].gen[v]), Append(sub, b)) \in Terms
  <2> DEFINE w == scheme[a].gen[v]
  <2>1. w \in Quantifies(a) /\ w \in Allocated
    BY DEF Quantifies, Range, BasicFacts, NamesOK
  <2>2. Var(w) \in Terms /\ FreeVariables(Var(w)) = {w}
    BY <2>1, AllocatedVars DEF BasicFacts
  <2>3. w \notin Bound /\ w # b.v
    BY <2>1, BindingFacts DEF Spent, SpentAt, BasicFacts
  <2> HIDE DEF w
  <2>4. Apply(Var(w), sub) = Var(w)
    BY <2>2, <2>3, Untouched DEF BasicFacts
  <2>5. Apply(Var(w), Append(sub, b)) = Replace(Var(w), b)
    BY <1>0, <2>4, ApplyAppend
  <2>6. Replace(Var(w), b) = Var(w)
    BY <2>2, <2>3, NothingToReplace DEF Replace, R
  <2> QED
    BY <2>2, <2>4, <2>5, <2>6 DEF w
<1> QED
  BY <1>0, <1>2, <1>3, <1>4, <1>5, SameAfter

(* What a variable's call does with the polytype that it finds             *)
LEMMA InstantiatedFacts ==
  ASSUME IInv, Tree, ContextOK, WTypeOK, WithinW, NamesOK,
         NEW n \in Nodes, Runs(n), Exp[n].e = "Variable",
         NEW p, NEW k, NEW f, InstantiatesBy(n, p, k, f)
  PROVE  /\ typ'[n] = Rename(Apply(p.t, sub), f) /\ typ'[n] \in Terms
         /\ inst'[n] = [v \in DOMAIN p.gen |-> f[p.gen[v]]]
         /\ DOMAIN f = Range(p.gen) /\ \A v \in Range(p.gen) : f[v] \in New(k)
         /\ New(k) \cap Bound = {}
         /\ \A v \in New(k) : Var(v) \in Terms /\ FreeVariables(Var(v)) = {v}
         /\ p = ctx[Exp[n].x] /\ p # Unbound
         /\ Apply(p.t, sub) \in Terms /\ F(p.t) \subseteq Allocated \ Bound
         /\ Apply(typ'[n], sub) = typ'[n] /\ sub' = sub
<1> DEFINE u == Apply(p.t, sub)
           t == Rename(u, f)
           g == [v \in DOMAIN p.gen |-> f[p.gen[v]]]
<1>1. p = ctx[Exp[n].x] /\ p # Unbound /\ k \in 0 .. (MaxVars - allocated)
      /\ f \in Fresh(Range(p.gen), k) /\ t \in Types
  BY DEF InstantiatesBy, Return
<1>2. typ'[n] = t /\ inst'[n] = g /\ sub' = sub
  <2>1. Return(n, t) /\ inst' = [inst EXCEPT ![n] = g]
    BY DEF InstantiatesBy
  <2> HIDE DEF t, g
  <2> QED
    BY <2>1 DEF Return, WTypeOK, vars
<1>3. u \in Terms /\ F(p.t) = FreeVariables(u) /\ FreeVariables(u) \subseteq Allocated \ Bound
  BY <1>1, FoundTerm DEF F
<1>4. DOMAIN f = Range(p.gen) /\ Range(f) = New(k) /\ \A v \in Range(p.gen) : f[v] \in New(k)
  BY <1>1, FreshNames
<1>5. New(k) \cap Allocated = {} /\ \A v \in New(k) : Var(v) \in Terms /\ FreeVariables(Var(v)) = {v}
  BY <1>1, NewVars
<1>6. New(k) \cap Bound = {}
  BY <1>5 DEF NamesOK, BoundBy, Bound
<1>7. t \in Terms
  BY <1>1 DEF Terms
<1> HIDE DEF u
<1>8. FreeVariables(t) \subseteq (FreeVariables(u) \ DOMAIN f) \cup Range(f)
  BY <1>3, <1>7, RenamedFree
<1> HIDE DEF t
<1>9. Apply(t, sub) = t
  <2>1. FreeVariables(t) \cap Bound = {}
    BY <1>3, <1>4, <1>6, <1>8
  <2> QED
    BY <1>7, <2>1, Untouched
<1> QED
  BY <1>1, <1>2, <1>3, <1>4, <1>5, <1>6, <1>7, <1>9 DEF t, u

(* If no variables are quantified it is the type itself.                   *)
LEMMA InstanceOfMono ==
  ASSUME IInv, Tree, ContextOK, WTypeOK, WithinW, NamesOK,
         NEW n \in Nodes, Runs(n), Exp[n].e = "Variable",
         NEW p, NEW k, NEW f, InstantiatesBy(n, p, k, f), NEW t, p = Mono(t)
  PROVE  /\ DOMAIN inst'[n] = {}
         /\ SameUnder(sub, typ'[n], inst'[n], t)
<1>1. /\ typ'[n] = Rename(Apply(t, sub), f) /\ typ'[n] \in Terms /\ DOMAIN f = {}
      /\ inst'[n] = [v \in DOMAIN p.gen |-> f[p.gen[v]]] /\ DOMAIN p.gen = {}
      /\ Apply(t, sub) \in Terms /\ F(t) \subseteq Allocated
      /\ Apply(typ'[n], sub) = typ'[n]
  <2>1. p.t = t /\ DOMAIN p.gen = {} /\ Range(p.gen) = {}
    BY MonoParts
  <2>2. /\ typ'[n] = Rename(Apply(p.t, sub), f) /\ typ'[n] \in Terms /\ DOMAIN f = Range(p.gen)
        /\ inst'[n] = [v \in DOMAIN p.gen |-> f[p.gen[v]]]
        /\ Apply(p.t, sub) \in Terms /\ F(p.t) \subseteq Allocated
        /\ Apply(typ'[n], sub) = typ'[n]
    BY InstantiatedFacts
  <2> QED
    BY <2>1, <2>2
<1>2. DOMAIN inst'[n] = {}
  BY <1>1
<1> DEFINE u == Apply(t, sub)
           i == inst'[n]
<1> HIDE DEF u, i
<1>3. ASSUME NEW g, AllVars \subseteq DOMAIN g
      PROVE  Meaning(g, Rename(u, f)) = Meaning(With(g, i, sub), u)
  <2>1. \A v \in FreeVariables(u) : v \in DOMAIN g
    BY <1>1, <1>3, AllocatedVars DEF u, F
  <2>2. \A v \in FreeVariables(u) : With(g, i, sub)[v] = IF v \in DOMAIN f THEN g[f[v]] ELSE g[v]
    BY <1>1, <1>2, <2>1 DEF With, i
  <2> DEFINE h == With(g, i, sub)
  <2> HIDE DEF h
  <2> QED
    BY <1>1, <2>2, MeaningOfRenamed DEF u, h
<1> QED
  BY <1>1, <1>2, <1>3 DEF SameUnder, u, i

(* If they are, it is the type from which it has been generalised.         *)
LEMMA InstanceOfScheme ==
  ASSUME IInv, Tree, ContextOK, WTypeOK, WithinW, NamesOK, Spent, SchemesOK,
         NEW n \in Nodes, Runs(n), Exp[n].e = "Variable",
         NEW p, NEW k, NEW f, InstantiatesBy(n, p, k, f),
         NEW a \in Nodes, Generalises(a), p = scheme[a]
  PROVE  /\ DOMAIN inst'[n] = DOMAIN scheme[a].gen
         /\ SameUnder(sub, typ'[n], inst'[n], TypeOf(a, 1))
<1> DEFINE u == Apply(p.t, sub)
           s == Apply(TypeOf(a, 1), sub)
           q == p.gen
           i == inst'[n]
<1>1. /\ typ'[n] = Rename(u, f) /\ typ'[n] \in Terms /\ DOMAIN f = Range(q)
      /\ i = [v \in DOMAIN q |-> f[q[v]]]
      /\ \A v \in Range(q) : f[v] \in New(k)
      /\ New(k) \cap Bound = {}
      /\ \A v \in New(k) : Var(v) \in Terms /\ FreeVariables(Var(v)) = {v}
      /\ u \in Terms /\ FreeVariables(u) \subseteq Allocated
      /\ Apply(typ'[n], sub) = typ'[n]
  BY InstantiatedFacts DEF F
<1>2. /\ Range(q) \cap Bound = {} /\ Range(q) \cap FreeVariables(s) = {} /\ Range(q) \subseteq Allocated
  BY DEF Spent, SpentAt, Quantifies, F, NamesOK
<1>3. 1 \in Parts(a) /\ s \in Terms /\ FreeVariables(s) \subseteq Allocated
  <2>1. 1 \in Parts(a)
    BY PartsOf DEF Generalises, IsLet, Arity
  <2> QED
    BY <2>1, PartsOf, TypesWithin, FreeAllocated DEF F, TypeOf, Terms, Tree
<1>4. \A g : AllVars \subseteq DOMAIN g => Meaning(g, u) = Meaning(With(g, q, sub), s)
  BY DEF SchemesOK, Same, SameUnder
<1>5. DOMAIN i = DOMAIN q
  BY <1>1
<1> HIDE DEF u, s, i, q
<1>6. ASSUME NEW g, AllVars \subseteq DOMAIN g
      PROVE  Meaning(g, Rename(u, f)) = Meaning(With(g, i, sub), s)
  <2> DEFINE h == [v \in DOMAIN g |-> IF v \in DOMAIN f THEN g[f[v]] ELSE g[v]]
             hs == With(h, q, sub)
             gs == With(g, i, sub)
  <2>1. AllVars \subseteq DOMAIN h
    BY <1>6
  <2>2. \A v \in FreeVariables(u) : h[v] = IF v \in DOMAIN f THEN g[f[v]] ELSE g[v]
    BY <1>1, <1>6, AllocatedVars
  <2>3. ASSUME NEW v \in FreeVariables(s)
        PROVE  hs[v] = gs[v]
    <3>1. v \in DOMAIN g /\ v \notin DOMAIN f
      BY <1>1, <1>2, <1>3, <1>6, AllocatedVars
    <3>2. CASE v \in DOMAIN q
      <4>1. q[v] \in Range(q) /\ f[q[v]] \in New(k) /\ i[v] = f[q[v]] /\ v \in DOMAIN i
        BY <1>1, <1>5, <3>2 DEF Range
      <4>2. hs[v] = Meaning(h, Apply(Var(q[v]), sub)) /\ gs[v] = Meaning(g, Apply(Var(f[q[v]]), sub))
        BY <1>5, <3>2, <4>1 DEF With
      <4> DEFINE w == q[v]
      <4>3. w \in Allocated /\ w \notin Bound
        BY <1>2, <4>1
      <4>4. Var(w) \in Terms /\ FreeVariables(Var(w)) = {w} /\ w \in DOMAIN g /\ w \in DOMAIN f
        BY <1>1, <1>6, <4>1, <4>3, AllocatedVars
      <4>5. h[w] = g[f[w]]
        BY <4>4
      <4> DEFINE x == f[w]
      <4>6. Var(x) \in Terms /\ FreeVariables(Var(x)) = {x} /\ x \notin Bound
        BY <1>1, <4>1
      <4> HIDE DEF w, h, x
      <4>7. Meaning(h, Apply(Var(w), sub)) = h[w]
        BY <4>3, <4>4, MeaningOfVar
      <4>8. Meaning(g, Apply(Var(x), sub)) = g[x]
        BY <4>6, MeaningOfVar
      <4> QED
        BY <4>2, <4>5, <4>7, <4>8 DEF w, x
    <3>3. CASE v \notin DOMAIN q
      BY <1>5, <3>1, <3>3 DEF With
    <3> QED
      BY <3>2, <3>3
  <2> HIDE DEF h
  <2>4. Meaning(g, Rename(u, f)) = Meaning(h, u)
    BY <1>1, <2>2, MeaningOfRenamed
  <2>5. Meaning(h, u) = Meaning(hs, s)
    BY <1>4, <2>1
  <2> HIDE DEF hs, gs
  <2>6. Meaning(hs, s) = Meaning(gs, s)
    BY <1>3, <2>3, MeaningsAgree
  <2> QED
    BY <2>4, <2>5, <2>6 DEF gs
<1> QED
  BY <1>1, <1>5, <1>6 DEF SameUnder, s, i, q

(* Variables have instances, after a step of W ...                         *)
LEMMA InstancesStep ==
  ASSUME IInv, Tree, ContextOK, WTypeOK, WithinW, NamesOK, Spent, SchemesOK, InstancesOK,
         NEW n \in Nodes, Runs(n), StepOf(n)
  PROVE  InstancesOK'
<1>0. CallsOK /\ sub' = sub /\ n \in called /\ n \notin done
  BY Frame DEF Tree, Runs, Open
<1> SUFFICES ASSUME NEW m \in done', Exp[m].e = "Variable"
             PROVE  InstanceOK(m)'
  BY DEF InstancesOK
<1> DEFINE x == Exp[m].x
<1>1. CASE m \in done
  <2>1. m \in Nodes /\ m \in called /\ m # n /\ x \in Idents
    BY <1>0, <1>1, PartsOf DEF CallsOK
  <2>2. typ'[m] = typ[m] /\ inst'[m] = inst[m]
    BY <1>0, <2>1, Frame
  <2>3. Source(m, x)' = Source(m, x) /\ Quantified(m, x)' = Quantified(m, x)
    BY <2>1, SourceStays
  <2>4. InstanceOK(m)
    BY <1>1 DEF InstancesOK
  <2> HIDE DEF x
  <2> QED
    BY <1>0, <2>2, <2>3, <2>4 DEF InstanceOK, Same, x
<1>2. CASE m \notin done
  <2>1. m = n
    BY <1>2, TreeSteps DEF TreeCalls, TreeReturns, TreeStays
  <2>2. ReturnsInstance(n)
    BY <1>0, <2>1 DEF StepOf, PlainCall, JustCall, Call, OpensBinder, GeneralisesLet, AsksFor, Ask,
                      ReturnsResult, Refuse
  <2>3. PICK p, k, f : InstantiatesBy(n, p, k, f)
    BY <2>2 DEF ReturnsInstance
  <2>4. p = ctx[x] /\ p # Unbound /\ x \in Idents /\ Exp[n].e = "Variable"
    BY <2>1, <2>3, PartsOf DEF InstantiatesBy
  <2>5. Source(n, x)' = Source(n, x) /\ Quantified(n, x)' = Quantified(n, x)
    BY <1>0, <2>4, SourceStays
  <2>6. DOMAIN inst'[n] = Quantified(n, x) /\ SameUnder(sub, typ'[n], inst'[n], Source(n, x))
        /\ (Scope[n][x] = None => x \in DOMAIN RuntimeTypes)
    <3>1. CASE Scope[n][x] = None
      <4>1. p = Mono(RuntimeTypes[x]) /\ x \in DOMAIN RuntimeTypes
        BY <2>1, <2>4, <3>1, FoundEntry
      <4>2. Source(n, x) = RuntimeTypes[x] /\ Quantified(n, x) = {}
        BY <3>1, SourceOfBuiltin
      <4>3. DOMAIN inst'[n] = {} /\ SameUnder(sub, typ'[n], inst'[n], RuntimeTypes[x])
        BY <2>3, <2>4, <4>1, InstanceOfMono
      <4> QED
        BY <4>1, <4>2, <4>3
    <3>2. CASE Scope[n][x] # None
      <4>1. p = Entry(Scope[n][x])
        BY <2>1, <2>4, <3>2, FoundEntry
      <4>2. PICK a \in Nodes, i \in {1, 2} :
               /\ Scope[n][x] = <<a, i>>
               /\ Polymorphic(<<a, i>>) => Generalises(a)
        BY <1>0, <2>4, <3>2, SourceBound
      <4>3. CASE Polymorphic(<<a, i>>)
        <5>1. p = scheme[a]
          BY <4>1, <4>2, <4>3, EntryTerm DEF Tree
        <5>2. Source(n, x) = TypeOf(a, 1) /\ Quantified(n, x) = DOMAIN scheme[a].gen
          BY <4>2, <4>3, SourceIs
        <5>3. DOMAIN inst'[n] = DOMAIN scheme[a].gen /\ SameUnder(sub, typ'[n], inst'[n], TypeOf(a, 1))
          BY <2>3, <2>4, <4>2, <4>3, <5>1, InstanceOfScheme
        <5> QED
          BY <3>2, <5>2, <5>3
      <4>4. CASE ~Polymorphic(<<a, i>>)
        <5>1. p = Mono(var[a])
          BY <4>1, <4>2, <4>4, EntryTerm DEF Tree
        <5>2. Source(n, x) = var[a] /\ Quantified(n, x) = {}
          BY <4>2, <4>4, SourceIs
        <5>3. DOMAIN inst'[n] = {} /\ SameUnder(sub, typ'[n], inst'[n], var[a])
          BY <2>3, <2>4, <5>1, InstanceOfMono
        <5> QED
          BY <3>2, <5>2, <5>3
      <4> QED
        BY <4>3, <4>4
    <3> QED
      BY <3>1, <3>2
  <2> HIDE DEF x
  <2> QED
    BY <1>0, <2>1, <2>5, <2>6 DEF InstanceOK, Same, x
<1> QED
  BY <1>1, <1>2

(* The types in the environment of a node, and what a binding does to them *)
LEMMA SourceTerm ==
  ASSUME BasicFacts, Tree, Spent, NEW n, NEW b, Binding(n, b), NEW m \in called, NEW y \in Idents,
         Scope[m][y] = None => y \in DOMAIN RuntimeTypes
  PROVE  /\ Apply(Source(m, y), sub) \in Terms /\ Apply(Source(m, y), sub') \in Terms
         /\ F(Source(m, y))' = Moved(F(Source(m, y)), b)
         /\ Source(m, y)' = Source(m, y) /\ Quantified(m, y)' = Quantified(m, y)
         /\ b.v \notin Quantified(m, y) /\ FreeVariables(b.t) \cap Quantified(m, y) = {}
<1>0. /\ sub' = Append(sub, b) /\ sub \in Seq(BindingSet) /\ b \in BindingSet /\ b.t \in Terms
      /\ scheme' = scheme /\ typ' = typ /\ var' = var
  BY BindingFacts DEF Binding, BindsTodo, BasicFacts, IInv, TypeOK
<1>1. CASE Scope[m][y] = None
  <2>1. Source(m, y) = RuntimeTypes[y] /\ Quantified(m, y) = {} /\ Source(m, y)' = RuntimeTypes[y]
         /\ Quantified(m, y)' = {} /\ Closed(RuntimeTypes[y])
    BY <1>1, SourceOfBuiltin, TypesAssumption
  <2> DEFINE t == RuntimeTypes[y]
  <2>2. t \in Terms /\ FreeVariables(t) = {} /\ Apply(t, sub) = t /\ F(t) = {}
    BY <2>1, ClosedStays DEF BasicFacts, Closed
  <2> HIDE DEF t
  <2>3. Apply(t, sub') = Replace(t, b)
    BY <1>0, <2>2, ApplyAppend
  <2>4. Apply(t, sub') = t
    BY <2>2, <2>3, NothingToReplace DEF Replace, R
  <2>5. F(t)' = {} /\ Moved(F(t), b) = {}
    BY <2>2, <2>4 DEF F, Moved
  <2>6. F(Source(m, y))' = F(t)'
    BY <2>1 DEF F, t
  <2> QED
    BY <2>1, <2>2, <2>4, <2>5, <2>6 DEF t
<1>2. CASE Scope[m][y] # None
  <2>1. PICK a \in Nodes, i \in {1, 2} :
           /\ Scope[m][y] = <<a, i>>
           /\ Polymorphic(<<a, i>>) => Generalises(a) /\ 1 \in Parts(a)
    BY <1>2, SourceBound
  <2>2. CASE Polymorphic(<<a, i>>)
    <3>1. Source(m, y) = TypeOf(a, 1) /\ Quantified(m, y) = DOMAIN scheme[a].gen
      BY <2>1, <2>2, SourceIs
    <3>2. Source(m, y)' = TypeOf(a, 1)' /\ Quantified(m, y)' = DOMAIN scheme'[a].gen
      BY <2>1, <2>2, NotNone DEF Source, Quantified, TypeOf
    <3>3. TypeOf(a, 1)' = TypeOf(a, 1) /\ Part(a, 1) \in Nodes
      BY <1>0, <2>1, <2>2, PartsOf DEF TypeOf
    <3>4. /\ Apply(TypeOf(a, 1), sub) \in Terms /\ Apply(TypeOf(a, 1), sub') \in Terms
      BY <3>3, TypesWithin, TypesMove DEF TypeOf, Terms, BasicFacts, Binding
    <3>5. F(TypeOf(a, 1))' = Moved(F(TypeOf(a, 1)), b)
      BY <3>3, TypMoves DEF TypeOf
    <3>6. F(Source(m, y))' = F(TypeOf(a, 1))'
      BY <3>2 DEF F
    <3>7. b.v \notin DOMAIN scheme[a].gen /\ FreeVariables(b.t) \cap DOMAIN scheme[a].gen = {}
      BY BindingFacts DEF Quantifies, BasicFacts
    <3> QED
      BY <1>0, <3>1, <3>2, <3>3, <3>4, <3>5, <3>6, <3>7
  <2>3. CASE ~Polymorphic(<<a, i>>)
    <3>1. Source(m, y) = var[a] /\ Quantified(m, y) = {}
      BY <2>1, <2>3, SourceIs
    <3>2. Source(m, y)' = var'[a] /\ Quantified(m, y)' = {}
      BY <2>1, <2>3, NotNone DEF Source, Quantified
    <3>3. /\ Apply(var[a], sub) \in Terms /\ Apply(var[a], sub') \in Terms
      BY TypesWithin, TypesMove DEF Terms, BasicFacts, Binding
    <3>4. F(var[a])' = Moved(F(var[a]), b)
      BY TypMoves
    <3>5. F(Source(m, y))' = F(var[a])'
      BY <3>2 DEF F
    <3> QED
      BY <1>0, <3>1, <3>2, <3>3, <3>4, <3>5
  <2> QED
    BY <2>2, <2>3
<1> QED
  BY <1>1, <1>2

(* ... and after a variable has been bound.                                *)
LEMMA InstancesBinding ==
  ASSUME BasicFacts, Tree, Spent, InstancesOK, NEW n, NEW b, Binding(n, b)
  PROVE  InstancesOK'
<1>0. /\ sub' = Append(sub, b) /\ sub \in Seq(BindingSet) /\ b \in BindingSet /\ b.t \in Terms
      /\ inst' = inst /\ typ' = typ /\ done' = done
  BY BindingFacts DEF Binding, BindsTodo, BasicFacts, IInv, TypeOK
<1> SUFFICES ASSUME NEW m \in done, Exp[m].e = "Variable"
             PROVE  InstanceOK(m)'
  BY <1>0 DEF InstancesOK
<1> DEFINE x == Exp[m].x
<1>1. m \in Nodes /\ m \in called /\ x \in Idents
  BY PartsOf DEF BasicFacts, CallsOK
<1>2. /\ Scope[m][x] = None => x \in DOMAIN RuntimeTypes
      /\ DOMAIN inst[m] = Quantified(m, x)
      /\ SameUnder(sub, typ[m], inst[m], Source(m, x))
  BY DEF InstancesOK, InstanceOK, Same
<1> HIDE DEF x
<1>3. /\ Apply(Source(m, x), sub) \in Terms /\ Apply(Source(m, x), sub') \in Terms
      /\ Source(m, x)' = Source(m, x) /\ Quantified(m, x)' = Quantified(m, x)
      /\ b.v \notin Quantified(m, x) /\ FreeVariables(b.t) \cap Quantified(m, x) = {}
  BY <1>1, <1>2, SourceTerm
<1>4. /\ Apply(typ[m], sub) \in Terms /\ Apply(typ[m], sub') \in Terms
      /\ \A v \in DOMAIN inst[m] : /\ Apply(Var(inst[m][v]), sub) \in Terms
                                   /\ Apply(Var(inst[m][v]), sub') \in Terms
  BY <1>1, TypesWithin, TypesMove DEF Terms, BasicFacts, Binding
<1>5. SameUnder(Append(sub, b), typ[m], inst[m], Source(m, x))
  BY <1>0, <1>2, <1>3, <1>4, SameAfter
<1> QED
  BY <1>0, <1>2, <1>3, <1>5 DEF InstanceOK, Same, x

(* A let that generalises leaves out what its environment has.             *)
LEMMA NowGeneral ==
  ASSUME IInv, Tree, ContextOK, WTypeOK, WithinW, NamesOK, Spent,
         NEW n \in Nodes, Runs(n), GeneralisesLet(n), NEW y \in Idents, Scope[n][y] # None
  PROVE  (F(Source(n, y)) \ Quantified(n, y)) \cap Generalised(n) = {}
<1>1. n \in called
  BY DEF Runs, Open
<1>2. PICK a \in Nodes, i \in {1, 2} :
         /\ Scope[n][y] = <<a, i>>
         /\ Polymorphic(<<a, i>>) => Generalises(a)
  BY <1>1, SourceBound
<1>3. FreeIn(Entry(<<a, i>>)) \subseteq Env(n)
  BY <1>2 DEF Env
<1>4. F(Source(n, y)) \ Quantified(n, y) \subseteq FreeIn(Entry(<<a, i>>))
  <2>1. CASE Polymorphic(<<a, i>>)
    <3>1. Entry(<<a, i>>) = scheme[a]
      BY <2>1, EntryTerm DEF Tree
    <3>2. Source(n, y) = TypeOf(a, 1) /\ Quantified(n, y) = DOMAIN scheme[a].gen
      BY <1>2, <2>1, SourceIs
    <3>3. /\ Range(scheme[a].gen) \cap F(TypeOf(a, 1)) = {}
          /\ F(TypeOf(a, 1)) \ DOMAIN scheme[a].gen \subseteq F(scheme[a].t)
      BY <1>2, <2>1 DEF Spent, SpentAt
    <3> QED
      BY <3>1, <3>2, <3>3 DEF FreeIn, F
  <2>2. CASE ~Polymorphic(<<a, i>>)
    <3>1. Entry(<<a, i>>) = Mono(var[a])
      BY <2>2, EntryTerm DEF Tree
    <3>2. Source(n, y) = var[a]
      BY <1>2, <2>2, SourceIs
    <3> QED
      BY <3>1, <3>2, MonoParts DEF FreeIn, F
  <2> QED
    BY <2>1, <2>2
<1>5. Env(n) \subseteq ContextFree(n) /\ Generalised(n) \cap ContextFree(n) = {}
  BY EnvNotGeneralised DEF Generalised
<1> QED
  BY <1>3, <1>4, <1>5

(* Lets have generalised nothing of their environment, after a step of W ... *)
LEMMA GeneralStep ==
  ASSUME IInv, Tree, ContextOK, WTypeOK, WithinW, NamesOK, Spent, GeneralOK,
         NEW n \in Nodes, Runs(n), StepOf(n)
  PROVE  GeneralOK'
<1>0. CallsOK /\ sub' = sub /\ n \in called /\ n \notin done
  BY Frame DEF Tree, Runs, Open
<1> SUFFICES ASSUME NEW m \in called', Generalises(m)', NEW y \in Idents, Scope[m][y] # None
             PROVE  (F(Source(m, y))' \ Quantified(m, y)') \cap DOMAIN scheme'[m].gen = {}
  BY DEF GeneralOK, IsGeneral, F
<1>1. m \in Nodes
  <2>1. CallsOK'
    BY TreeStep DEF WTypeOK, Tree
  <2> QED
    BY <2>1 DEF CallsOK
<1>2. ASSUME m \in called
      PROVE  F(Source(m, y))' = F(Source(m, y)) /\ Quantified(m, y)' = Quantified(m, y)
  BY <1>0, <1>2, SourceStays DEF F
<1>3. CASE ~(m = n /\ GeneralisesLet(n))
  <2>1. Generalises(m) /\ scheme'[m] = scheme[m]
    BY <1>1, <1>3, GeneralisesStill
  <2>2. m \in called
    BY <1>0, <1>1, <2>1 DEF CallsOK, Generalises
  <2>3. IsGeneral(m)
    BY <2>1, <2>2 DEF GeneralOK
  <2> QED
    BY <1>2, <2>1, <2>2, <2>3 DEF IsGeneral, F
<1>4. CASE m = n /\ GeneralisesLet(n)
  <2>1. PICK k, g : GeneralisesBy(n, k, g)
    BY <1>4 DEF GeneralisesLet
  <2>2. scheme'[n].gen = g /\ DOMAIN g = Generalised(n)
    BY <1>0, <1>4, <2>1, GeneralisedFacts
  <2>3. (F(Source(n, y)) \ Quantified(n, y)) \cap Generalised(n) = {}
    BY <1>4, NowGeneral
  <2> QED
    BY <1>0, <1>2, <1>4, <2>2, <2>3
<1> QED
  BY <1>3, <1>4

(* ... and after a variable has been bound.                                *)
LEMMA GeneralBinding ==
  ASSUME BasicFacts, Tree, Spent, GeneralOK, NEW n, NEW b, Binding(n, b)
  PROVE  GeneralOK'
<1>0. /\ b.v \notin FreeVariables(b.t) /\ scheme' = scheme /\ part' = part /\ called' = called
  BY BindingFacts DEF BasicFacts
<1> SUFFICES ASSUME NEW m \in called, Generalises(m), NEW y \in Idents, Scope[m][y] # None
             PROVE  (F(Source(m, y))' \ Quantified(m, y)') \cap DOMAIN scheme[m].gen = {}
  BY <1>0 DEF GeneralOK, IsGeneral, F, Generalises
<1>1. /\ F(Source(m, y))' = Moved(F(Source(m, y)), b) /\ Quantified(m, y)' = Quantified(m, y)
      /\ b.v \notin Quantified(m, y)
  BY SourceTerm
<1>2. (F(Source(m, y)) \ Quantified(m, y)) \cap DOMAIN scheme[m].gen = {}
  BY DEF GeneralOK, IsGeneral, F
<1>3. m \in Nodes
  BY DEF BasicFacts, CallsOK
<1>4. FreeVariables(b.t) \cap DOMAIN scheme[m].gen = {}
  BY <1>3, BindingFacts DEF Quantifies, BasicFacts
<1>5. \A u : u \in F(Source(m, y))' => u \in F(Source(m, y)) \/ u \in FreeVariables(b.t)
  BY <1>0, <1>1, MovedIn
<1> QED
  BY <1>1, <1>2, <1>4, <1>5

(* A step of unify that binds nothing changes none of this either.         *)
LEMMA NothingRead ==
  ASSUME UNCHANGED wvars, sub' = sub, SchemesOK, InstancesOK, GeneralOK
  PROVE  SchemesOK' /\ InstancesOK' /\ GeneralOK'
<1>1. /\ called' = called /\ done' = done /\ part' = part /\ typ' = typ /\ var' = var /\ scheme' = scheme
      /\ inst' = inst
  BY DEF wvars
<1>2. \A b : (Generalises(b)' <=> Generalises(b)) /\ TypeOf(b, 1)' = TypeOf(b, 1)
  BY <1>1 DEF Generalises, TypeOf
<1>3. ASSUME NEW m, NEW y
      PROVE  Source(m, y)' = Source(m, y) /\ Quantified(m, y)' = Quantified(m, y)
  BY <1>1 DEF Source, Quantified
<1>4. SchemesOK'
  BY <1>1, <1>2 DEF SchemesOK, Same
<1>5. InstancesOK'
  BY <1>1, <1>3 DEF InstancesOK, InstanceOK, Same
<1>6. ASSUME NEW m
      PROVE  IsGeneral(m)' <=> IsGeneral(m)
  BY <1>1, <1>3 DEF IsGeneral
<1>7. GeneralOK'
  BY <1>1, <1>2, <1>6 DEF GeneralOK
<1> QED
  BY <1>4, <1>5, <1>7

-----------------------------------------------------------------------------
(* 9. The invariant.                                                       *)

(* The invariant holds at first, when a program has just been called, ...  *)
LEMMA InitTree ==
  ASSUME WInit
  PROVE  Tree /\ ContextOK
<1>1. PICK n \in Programs : called = {n}
  BY DEF WInit
<1>2. /\ done = {} /\ n \in Nodes /\ n \in Nat /\ Open = {n}
      /\ part = [m \in Nodes |-> 0] /\ DOMAIN old = Nodes
      /\ ctx = [y \in Idents |-> IF y \in DOMAIN RuntimeTypes THEN Mono(RuntimeTypes[y]) ELSE Unbound]
  BY <1>1, NodesAssumption DEF WInit, Open
<1>3. CallsOK
  <2>1. \A m \in Nodes : \A i \in Parts(m) : Part(m, i) # n
    BY <1>1, NodesAssumption DEF Part, Parts
  <2>2. \A m \in Nodes : Len(Exp[m].parts) \in Nat
    BY PartsOf
  <2>3. \A m \in Nodes : \A i \in Parts(m) : i \in Nat /\ i > 0
    BY PartsOf
  <2>4. ASSUME NEW m \in Nodes
        PROVE  /\ part[m] \in 0 .. Len(Exp[m].parts)
               /\ \A i \in Parts(m) : /\ Part(m, i) \in called <=> i <= part[m]
                                      /\ i < part[m] => Part(m, i) \in done
    BY <1>1, <1>2, <2>1, <2>2, <2>3
  <2> QED
    BY <1>1, <1>2, <2>4 DEF CallsOK
<1>4. Chain
  BY <1>2 DEF Chain
<1>5. \A y \in Idents : Scope[n][y] = None
  BY <1>1, ScopeAssumption
<1>6. ScopesOK
  BY <1>1, <1>2, <1>5 DEF ScopesOK
<1>7. 0 \notin Binds(n) /\ part[n] = 0
  BY <1>2 DEF Binds
<1>8. \A y \in Idents : Current(n)[y] = None
  BY <1>2, <1>5, <1>7, InScopeIs DEF Current
<1>9. \A y \in Idents : EntryOK(None, y, ctx[y], scheme, var)
  BY <1>2 DEF EntryOK
<1>10. DOMAIN ctx = Idents
  BY <1>2
<1>11. ContextOK
  BY <1>1, <1>2, <1>7, <1>8, <1>9, <1>10 DEF ContextOK
<1> QED
  BY <1>3, <1>4, <1>6, <1>11 DEF Tree

(* So has every part of the invariant: nothing has been allocated or asked *)
(* for.                                                                    *)
LEMMA InitWInv == WInit => WInv
<1> SUFFICES ASSUME WInit
             PROVE  WInv
  OBVIOUS
<1>1. PICK n \in Programs : called = {n}
  BY DEF WInit
<1>2. /\ done = {} /\ n \in Nodes /\ n \in Nat /\ Open = {n}
      /\ part = [m \in Nodes |-> 0] /\ asked = [m \in Nodes |-> 0]
      /\ typ = [m \in Nodes |-> Unknown] /\ var = [m \in Nodes |-> Unknown]
      /\ scheme = [m \in Nodes |-> Unbound] /\ inst = [m \in Nodes |-> Nothing]
      /\ allocated = 0 /\ sub = <<>> /\ todo = <<>>
  BY <1>1, NodesAssumption DEF WInit, Init, Open
<1>3. IInv
  BY InitIInv DEF WInit
<1>4. Tree /\ ContextOK
  BY InitTree
<1>5. \A m \in Nodes : ~Generalises(m) /\ scheme[m].gen = Nothing /\ scheme[m].t = Unknown
  BY <1>2, UnknownStays, <1>3 DEF Generalises
<1>6. AnswersOK
  <2>1. \A m \in Nodes : asked[m] = 0
    BY <1>2
  <2>2. 1 .. 0 = {}
    OBVIOUS
  <2> QED
    BY <1>2, <2>1, <2>2 DEF AnswersOK
<1>7. WTypeOK
  <2>1. Spreads(sub)
    BY <1>2, NoneSpread
  <2>2. Unknown \in Types /\ Unbound.t \in Types /\ allocated \in 0 .. MaxVars
    BY <1>2, <1>3, UnknownStays, CounterAssumption
  <2> QED
    BY <1>2, <1>5, <2>1, <2>2 DEF WTypeOK
<1>8. WithinW
  BY <1>1, <1>2, <1>3, UnknownStays DEF WithinW
<1>9. NamesOK
  <2>1. BoundBy(sub) = {} /\ Mentions(sub) = {}
    BY <1>2 DEF BoundBy, Mentions
  <2> QED
    BY <1>2, <1>3, <1>5, <2>1, UnknownStays DEF NamesOK
<1>10. Separate
  BY <1>2 DEF Separate
<1>11. Running
  BY <1>2 DEF Running
<1>12. Spent
  BY <1>5, <1>3, UnknownStays DEF Spent, SpentAt, Quantifies
<1>13. SchemesOK /\ InstancesOK /\ GeneralOK
  BY <1>1, <1>2, <1>5 DEF SchemesOK, InstancesOK, GeneralOK
<1> QED
  BY <1>3, <1>4, <1>6, <1>7, <1>8, <1>9, <1>10, <1>11, <1>12, <1>13 DEF WInv, Tree

(* ... is kept by the functions of algorithm W, ...                        *)
LEMMA WorkWInv ==
  ASSUME WInv, Idle, NEW n \in Open, Work(n), Within', WithinW'
  PROVE  WInv'
<1>1. Runs(n)
  BY WorkRuns
<1>2. n \in Nodes
  BY DEF WInv, CallsOK, Open
<1>3. StepOf(n)
  BY <1>2, StepCases
<1>4. Tree /\ part \in [Nodes -> Nat]
  BY DEF WInv, Tree, WTypeOK
<1>5. Tree'
  BY <1>1, <1>2, <1>3, <1>4, TreeStep
<1>6. IInv'
  <2>1. CASE AsksFor(n)
    <3>1. PICK l, r : Ask(n, l, r)
      BY <2>1 DEF AsksFor
    <3>2. <<l, r>> \in TypePairs /\ Equate(<<l, r>>)
      BY <3>1 DEF Ask
    <3> QED
      BY <3>2, EquateStep DEF WInv
  <2>2. CASE UNCHANGED vars
    BY <2>2, NextIInv DEF WInv
  <2>3. CASE ~AsksFor(n)
    <3>1. UNCHANGED vars
      BY <1>3, <2>3 DEF StepOf, PlainCall, JustCall, Call, OpensBinder, GeneralisesLet, ReturnsResult,
                        Return, ReturnsInstance, InstantiatesBy, Refuse
    <3> QED
      BY <2>2, <3>1
  <2> QED
    BY <2>1, <2>3
<1>7. WTypeOK'
  BY <1>1, <1>2, <1>3, <1>5, WTypeOKStep DEF WInv, Tree
<1>8. ContextOK' /\ AnswersOK' /\ NamesOK'
  BY <1>1, <1>2, <1>3, <1>4, ContextStep, AnswersStep, NamesStep DEF WInv
<1>9. Separate' /\ Spent' /\ Running'
  BY <1>1, <1>2, <1>3, <1>4, SeparateStep, SpentStep, RunningStep DEF WInv
<1>10. SchemesOK' /\ InstancesOK' /\ GeneralOK'
  BY <1>1, <1>2, <1>3, <1>4, SchemesStep, InstancesStep, GeneralStep DEF WInv
<1> QED
  BY <1>5, <1>6, <1>7, <1>8, <1>9, <1>10 DEF WInv, Tree

(* ... by what keeps every binding, ...                                    *)
LEMMA QuietWInv ==
  ASSUME WInv, IInv', UNCHANGED wvars, WithinW', sub' = sub, solved' = solved,
         TodoFree' \subseteq TodoFree, todo' # <<>> => todo # <<>>
  PROVE  WInv'
<1>1. Tree'
  BY TreeKept DEF WInv, Tree
<1>2. ContextOK'
  BY ContextKept DEF WInv
<1>3. AnswersOK'
  BY AnswersKept DEF WInv, CallsOK
<1>4. WTypeOK'
  BY WTypeOKUnify DEF WInv, IInv, TypeOK
<1>5. NamesOK'
  BY DEF WInv, NamesOK, Allocated, wvars
<1>6. Separate' /\ Spent' /\ Running'
  BY NothingBound DEF WInv
<1>7. SchemesOK' /\ InstancesOK' /\ GeneralOK'
  BY NothingRead DEF WInv
<1> QED
  BY <1>1, <1>2, <1>3, <1>4, <1>5, <1>6, <1>7 DEF WInv, Tree

(* ... and by a step of unify.                                             *)
LEMMA UnifyWInv ==
  ASSUME WInv, Unify, UNCHANGED wvars, Within', WithinW'
  PROVE  WInv'
<1>1. IInv'
  BY NextIInv DEF WInv, Next
<1>2. solved' = solved
  BY DEF Unify, Identical, Variable, Bind, Reject, Clash, Arguments, Records, EmptyRows, SameLabel,
         OtherLabel
<1>3. todo # <<>>
  BY DEF Unify
<1>4. CASE sub' = sub /\ TodoFree' \subseteq TodoFree
  BY <1>1, <1>2, <1>3, <1>4, QuietWInv
<1>5. CASE \E b : BindsTodo(b)
  <2>1. PICK b : BindsTodo(b)
    BY <1>5
  <2>2. PICK n \in Open : Runs(n) /\ TodoFree \subseteq Live(n)
    BY <1>3 DEF WInv, Running
  <2>3. n \in Nodes
    BY DEF WInv, CallsOK, Open
  <2>4. TodoFree \subseteq Allocated
    BY <2>2, <2>3, LiveAllocated DEF WInv
  <2>5. sub \in Seq(BindingSet)
    BY DEF WInv, IInv, TypeOK
  <2>6. Binding(n, b)
    BY <2>1, <2>2 DEF Binding
  <2>7. BasicFacts /\ Tree
    BY DEF WInv, BasicFacts, Tree
  <2>8. Tree' /\ ContextOK' /\ AnswersOK'
    BY <1>2, <2>7, TreeKept, ContextKept, AnswersKept DEF WInv, CallsOK
  <2>9. WTypeOK' /\ NamesOK'
    BY <2>1, <2>4, <2>5, WTypeOKUnify, NamesUnify DEF WInv
  <2>10. Separate' /\ Spent' /\ Running'
    BY <2>6, <2>7, SeparateBinding, SpentBinding, RunningBinding DEF WInv
  <2>11. SchemesOK' /\ InstancesOK' /\ GeneralOK'
    BY <2>6, <2>7, SchemesBinding, InstancesBinding, GeneralBinding DEF WInv
  <2> QED
    BY <1>1, <2>8, <2>9, <2>10, <2>11 DEF WInv, Tree
<1> QED
  BY <1>4, <1>5, UnifyCases DEF WInv

(* The invariant is inductive, ...                                         *)
LEMMA NextWInv == WInv /\ [WNext]_<<vars, wvars>> => WInv'
<1> SUFFICES ASSUME WInv, [WNext]_<<vars, wvars>>
             PROVE  WInv'
  OBVIOUS
<1>1. CASE WNext
  BY <1>1, WorkWInv, UnifyWInv DEF WNext
<1>2. CASE UNCHANGED <<vars, wvars>>
  <2>1. UNCHANGED wvars /\ UNCHANGED vars
    BY <1>2
  <2>2. sub' = sub /\ solved' = solved /\ todo' = todo
    BY <2>1 DEF vars
  <2>3. IInv'
    BY <2>1, NextIInv DEF WInv
  <2>4. WithinW'
    BY <2>1, <2>2 DEF WInv, WithinW, wvars
  <2>5. TodoFree' = TodoFree
    BY <2>2 DEF TodoFree, F
  <2> QED
    BY <2>1, <2>2, <2>3, <2>4, <2>5, QuietWInv
<1> QED
  BY <1>1, <1>2

(* ... so it holds throughout inference.                                   *)
THEOREM WInvariance == WSpec => []WInv
<1> QED
  BY InitWInv, NextWInv, PTL DEF WSpec

-----------------------------------------------------------------------------
(* 10. What the invariant says about what has been inferred.               *)

(* What the inference has asked to be equal means the same.                *)
LEMMA SolvedMeans ==
  ASSUME IInv, Idle, NEW g \in Valuations, NEW i \in DOMAIN solved
  PROVE  Meaning(g, Apply(solved[i][1], sub)) = Meaning(g, Apply(solved[i][2], sub))
<1> DEFINE h == [v \in {} |-> v]
           u == Under(g, h)
<1>1. FreshVars = {}
  <2>1. ctr = 0
    BY RecordsAssumption DEF IInv, TypeOK
  <2> QED
    BY <2>1 DEF FreshVars
<1>2. h \in [FreshVars \ Bound -> GroundRows]
  BY <1>1
<1>3. Meaning(u, Apply(solved[i][1], sub)) = Meaning(u, Apply(solved[i][2], sub))
  BY <1>2, IInvSound DEF Sound
<1>4. \A v \in EquationVars : u[v] = g[v]
  BY ValuationsAreProper DEF Under
<1>5. solved[i] \in TypePairs
  BY DEF IInv, TypeOK
<1>6. ASSUME NEW j \in {1, 2}
      PROVE  Meaning(u, Apply(solved[i][j], sub)) = Meaning(g, Apply(solved[i][j], sub))
  <2>1. solved[i][j] \in Terms /\ FreeVariables(solved[i][j]) \subseteq EquationVars
    BY <1>5, FreeOfEquation
  <2>2. Apply(solved[i][j], sub) \in Terms
    BY DEF IInv, Within
  <2>3. Mentions(sub) \subseteq EquationVars
    BY <1>1 DEF IInv, OnlyKnown, Known
  <2>4. FreeVariables(Apply(solved[i][j], sub)) \subseteq EquationVars
    BY <2>1, <2>2, <2>3, FreeLeft DEF F
  <2> HIDE DEF u
  <2> QED
    BY <1>4, <2>2, <2>4, MeaningsAgree
<1> QED
  BY <1>3, <1>6

(* So the rules hold at a node that is done.                               *)
LEMMA RulesHold ==
  ASSUME WInv, Idle, NEW n \in done, NEW g \in Valuations, NEW e \in Rules(n)
  PROVE  Meaning(g, Apply(e[1], sub)) = Meaning(g, Apply(e[2], sub))
<1> DEFINE M(t) == Meaning(g, Apply(t, sub))
<1>1. n \in Nodes /\ asked[n] = Len(Mentioned(n)) /\ (Exp[n].e # "Variable" => typ[n] = Result(n))
  BY DEF WInv, AnswersOK, CallsOK
<1>2. \A j \in 1 .. asked[n] : M(Asks(n)[j][1]) = M(Asks(n)[j][2])
  <2> SUFFICES ASSUME NEW j \in 1 .. asked[n]
               PROVE  M(Asks(n)[j][1]) = M(Asks(n)[j][2])
    OBVIOUS
  <2>1. PICK i \in DOMAIN solved : Asks(n)[j] = solved[i]
    BY <1>1 DEF WInv, AnswersOK, Range
  <2> QED
    BY <2>1, SolvedMeans DEF WInv
<1> HIDE DEF M
<1>3. Exp[n].e \in DOMAIN Arity
  BY <1>1, PartsOf
<1>4. \A j \in 1 .. Len(Mentioned(n)) : M(Asks(n)[j][1]) = M(Asks(n)[j][2])
  BY <1>1, <1>2
<1>5. M(e[1]) = M(e[2])
  <2>1. CASE Exp[n].e = "Literal"
    BY <1>1, <2>1 DEF Rules, Result
  <2>2. CASE Exp[n].e = "Variable"
    BY <2>2 DEF Rules
  <2>3. CASE Exp[n].e = "Abstraction"
    BY <1>1, <2>3 DEF Rules, Result, TypeOf
  <2>4. CASE Exp[n].e = "Application"
    <3>1. Len(Mentioned(n)) = 1 /\ Asks(n)[1] = <<TypeOf(n, 1), Fn(TypeOf(n, 2), var[n])>>
      BY <2>4 DEF Mentioned, Asks
    <3> QED
      BY <1>1, <1>4, <2>4, <3>1 DEF Rules, Result, TypeOf
  <2>5. CASE Exp[n].e = "Let"
    <3>1. Len(Mentioned(n)) = 1 /\ Asks(n)[1] = <<TypeOf(n, 1), var[n]>>
      BY <2>5 DEF Mentioned, Asks
    <3> QED
      BY <1>1, <1>4, <2>5, <3>1 DEF Rules, Result, TypeOf
  <2>6. CASE Exp[n].e = "IfElse"
    <3>1. Len(Mentioned(n)) = 2 /\ Asks(n)[1] = <<TypeOf(n, 1), TBool>>
          /\ Asks(n)[2] = <<TypeOf(n, 2), TypeOf(n, 3)>>
      BY <2>6 DEF Mentioned, Asks
    <3> QED
      BY <1>1, <1>4, <2>6, <3>1 DEF Rules, Result, TypeOf
  <2>7. CASE Exp[n].e = "Cons"
    <3>1. Len(Mentioned(n)) = 1 /\ Asks(n)[1] = <<TypeOf(n, 2), List(TypeOf(n, 1))>>
      BY <2>7 DEF Mentioned, Asks
    <3> QED
      BY <1>1, <1>4, <2>7, <3>1 DEF Rules, Result, TypeOf
  <2>8. CASE Exp[n].e \in {"Arithmetic", "Comparison"}
    <3>1. Len(Mentioned(n)) = 1 /\ Asks(n)[1] = <<TypeOf(n, 1), TypeOf(n, 2)>>
      BY <2>8 DEF Mentioned, Asks
    <3> QED
      BY <1>1, <1>4, <2>8, <3>1 DEF Rules, Result, TypeOf
  <2>9. CASE Exp[n].e = "Logical"
    <3>1. Len(Mentioned(n)) = 2 /\ Asks(n)[1] = <<TypeOf(n, 1), TypeOf(n, 2)>>
          /\ Asks(n)[2] = <<TypeOf(n, 1), TBool>>
      BY <2>9 DEF Mentioned, Asks
    <3> QED
      BY <1>1, <1>4, <2>9, <3>1 DEF Rules, Result, TypeOf
  <2>10. CASE Exp[n].e = "Not"
    <3>1. Len(Mentioned(n)) = 1 /\ Asks(n)[1] = <<TypeOf(n, 1), TBool>>
      BY <2>10 DEF Mentioned, Asks
    <3> QED
      BY <1>1, <1>4, <2>10, <3>1 DEF Rules, Result, TypeOf
  <2>11. CASE Exp[n].e = "Negate"
    BY <1>1, <2>11 DEF Rules, Result, TypeOf
  <2> QED
    BY <1>3, <2>1, <2>2, <2>3, <2>4, <2>5, <2>6, <2>7, <2>8, <2>9, <2>10, <2>11 DEF Arity
<1> QED
  BY <1>5 DEF M

(* What the environment has for the name of a variable that is done: a     *)
(* type with variables that have been allocated.                           *)
LEMMA SourceAllocated ==
  ASSUME WInv, NEW n \in done, Exp[n].e = "Variable"
  PROVE  /\ Apply(Source(n, Exp[n].x), sub) \in Terms
         /\ F(Source(n, Exp[n].x)) \subseteq Allocated
<1> DEFINE y == Exp[n].x
<1>1. n \in called /\ n \in Nodes /\ y \in Idents /\ InstanceOK(n) /\ Tree
  BY PartsOf DEF WInv, CallsOK, InstancesOK, Tree
<1>2. \A m \in Nodes : /\ Apply(typ[m], sub) \in Types /\ Apply(var[m], sub) \in Types
                       /\ F(typ[m]) \subseteq Allocated /\ F(var[m]) \subseteq Allocated
  BY TypesWithin, FreeAllocated DEF WInv
<1>3. CASE Scope[n][y] = None
  <2>1. Closed(RuntimeTypes[y]) /\ Source(n, y) = RuntimeTypes[y]
    BY <1>1, <1>3, SourceOfBuiltin, TypesAssumption DEF InstanceOK
  <2> QED
    BY <2>1, ClosedStays DEF WInv
<1>4. CASE Scope[n][y] # None
  <2>1. PICK a \in Nodes, i \in {1, 2} :
          /\ Scope[n][y] = <<a, i>>
          /\ Polymorphic(<<a, i>>) => 1 \in Parts(a)
    BY <1>1, <1>4, SourceBound
  <2>2. CASE Polymorphic(<<a, i>>)
    <3>1. Source(n, y) = typ[Part(a, 1)] /\ Part(a, 1) \in Nodes
      BY <2>1, <2>2, SourceIs, PartsOf DEF TypeOf
    <3> QED
      BY <1>2, <3>1 DEF Terms
  <2>3. CASE ~Polymorphic(<<a, i>>)
    <3>1. Source(n, y) = var[a]
      BY <2>1, <2>3, SourceIs
    <3> QED
      BY <1>2, <3>1 DEF Terms
  <2> QED
    BY <2>2, <2>3
<1> QED
  BY <1>3, <1>4

(* A variable has an instance: what InstanceOK says of the valuations of   *)
(* all variables, of those of the variables that are in the types.         *)
LEMMA VariableInstance ==
  ASSUME WInv, NEW n \in done, Exp[n].e = "Variable"
  PROVE  IsInstance(n)
<1> DEFINE y == Exp[n].x
           m == inst[n]
           u == Source(n, y)
<1>1. n \in Nodes /\ InstanceOK(n)
  BY DEF WInv, CallsOK, InstancesOK
<1>2. DOMAIN m = Quantified(n, y) /\ SameUnder(sub, typ[n], m, u)
  BY <1>1 DEF InstanceOK, Same
<1>3. Allocated \subseteq EquationVars
  BY CounterAssumption DEF WInv, WTypeOK, Allocated
<1>4. Apply(u, sub) \in Terms /\ FreeVariables(Apply(u, sub)) \subseteq EquationVars
  BY <1>3, SourceAllocated DEF F
<1>5. Typ(n) \in Terms /\ FreeVariables(Typ(n)) \subseteq EquationVars
  <2>1. Apply(typ[n], sub) \in Types /\ F(typ[n]) \subseteq Allocated
    BY <1>1, TypesWithin, FreeAllocated DEF WInv
  <2> QED
    BY <1>3, <2>1 DEF Terms, F, Typ
<1>6. ASSUME NEW v \in DOMAIN m
      PROVE  /\ Apply(Var(m[v]), sub) \in Terms
             /\ FreeVariables(Apply(Var(m[v]), sub)) \subseteq EquationVars
  <2>1. m[v] \in Allocated
    <3>1. m[v] \in Range(m)
      BY DEF Range
    <3> HIDE DEF m
    <3> QED
      BY <1>1, <3>1 DEF WInv, NamesOK, m
  <2>2. Var(m[v]) \in Terms /\ FreeVariables(Var(m[v])) = {m[v]}
    BY <2>1, AllocatedVars DEF WInv
  <2>3. Apply(Var(m[v]), sub) \in Terms
    BY <1>1, TypesWithin DEF WInv, Terms
  <2>4. F(Var(m[v])) \subseteq Allocated
    BY <2>1, <2>2, <2>3, FreeLeft DEF WInv, NamesOK
  <2> QED
    BY <1>3, <2>3, <2>4 DEF F
<1>7. ASSUME NEW g \in Valuations
      PROVE  Meaning(g, Typ(n)) = MeaningWith(g, m, Apply(u, sub))
  <2> DEFINE h == [v \in AllVars \cup DOMAIN g |-> IF v \in DOMAIN g THEN g[v] ELSE NoFields]
             gm == With(g, m, sub)
             hm == With(h, m, sub)
  <2>1. DOMAIN g = EquationVars
    BY ValuationsAreProper
  <2>2. AllVars \subseteq DOMAIN h /\ \A v \in EquationVars : h[v] = g[v]
    BY <2>1
  <2>3. EquationVars \subseteq DOMAIN h
    BY <2>1
  <2> HIDE DEF h
  <2>4. Meaning(h, Typ(n)) = Meaning(hm, Apply(u, sub))
    BY <1>2, <2>2 DEF SameUnder, Typ
  <2>5. Meaning(h, Typ(n)) = Meaning(g, Typ(n))
    BY <1>5, <2>2, MeaningsAgree
  <2>6. \A v \in FreeVariables(Apply(u, sub)) : hm[v] = gm[v]
    <3> SUFFICES ASSUME NEW v \in EquationVars
                 PROVE  hm[v] = gm[v]
      BY <1>4
    <3>1. CASE v \in DOMAIN m
      <4>1. Meaning(h, Apply(Var(m[v]), sub)) = Meaning(g, Apply(Var(m[v]), sub))
        BY <1>6, <2>2, <3>1, MeaningsAgree
      <4> HIDE DEF m
      <4> QED
        BY <3>1, <4>1 DEF With
    <3>2. CASE v \notin DOMAIN m
      <4> HIDE DEF m
      <4> QED
        BY <2>1, <2>2, <2>3, <3>2 DEF With
    <3> QED
      BY <3>1, <3>2
  <2>7. Meaning(hm, Apply(u, sub)) = Meaning(gm, Apply(u, sub))
    <3> HIDE DEF hm, gm
    <3> QED
      BY <1>4, <2>6, MeaningsAgree
  <2>8. MeaningWith(g, m, Apply(u, sub)) = Meaning(gm, Apply(u, sub))
    BY DEF MeaningWith, With
  <2> QED
    BY <2>4, <2>5, <2>7, <2>8
<1> QED
  BY <1>2, <1>7 DEF IsInstance

(* So the typing rules hold.                                               *)
LEMMA WInvWellTyped ==
  ASSUME WInv
  PROVE  WellTyped
<1> SUFFICES ASSUME Idle, NEW n \in done
             PROVE  /\ \A g \in Valuations : \A e \in Rules(n) :
                         Meaning(g, Apply(e[1], sub)) = Meaning(g, Apply(e[2], sub))
                    /\ Exp[n].e = "Variable" => IsInstance(n)
                    /\ Exp[n].e = "Let" => IsGeneral(n)
  BY DEF WellTyped
<1>1. Exp[n].e = "Let" => IsGeneral(n)
  <2> SUFFICES ASSUME Exp[n].e = "Let"
               PROVE  IsGeneral(n)
    OBVIOUS
  <2>1. n \in called /\ n \in Nodes /\ part[n] = Len(Exp[n].parts)
    BY DEF WInv, CallsOK
  <2>2. Len(Exp[n].parts) = 2
    <3>1. Len(Exp[n].parts) = Arity["Let"]
      BY <2>1, PartsOf
    <3> QED
      BY <3>1 DEF Arity
  <2> QED
    BY <2>1, <2>2 DEF WInv, GeneralOK, Generalises, IsLet
<1> QED
  BY <1>1, RulesHold, VariableInstance

(* What is found is a derivation by the typing rules: at every node that   *)
(* algo_w has returned for, the types are as the rule of its kind wants,   *)
(* a variable has an instance of what its environment has for its name,    *)
(* and a let has generalised nothing that its environment has.             *)
THEOREM Derivation == WSpec => []WellTyped
<1> QED
  BY WInvariance, WInvWellTyped, PTL

(* generalise and instantiate take new names, so that no substitution ever *)
(* touches a variable that is quantified (types.rs 384-389).               *)
THEOREM QuantifiersUntouched == WSpec => []QuantifiedStay
<1>1. WInv => QuantifiedStay
  BY DEF WInv, Spent, SpentAt, Quantifies, CallsOK, QuantifiedStay
<1> QED
  BY <1>1, WInvariance, PTL

(* Inference does nothing but unify: its steps are those of unification,   *)
(* which gets its equations from the expression, and steps that change     *)
(* nothing of it.                                                          *)
Unifications == Init /\ [][((\E e \in TypePairs : Equate(e)) \/ Unify) /\ Within']_vars

(* That is Unification's specification, with all pairs of types for its    *)
(* equations.                                                              *)
THEOREM InferenceUnifies == WSpec => Unifications
<1>1. WInit => Init
  BY DEF WInit
<1>2. ASSUME WInv, [WNext]_<<vars, wvars>>
      PROVE  [((\E e \in TypePairs : Equate(e)) \/ Unify) /\ Within']_vars
  <2>1. CASE UNCHANGED <<vars, wvars>>
    BY <2>1
  <2>2. CASE Unify /\ Within'
    BY <2>2
  <2>3. ASSUME NEW n \in Open, Work(n), Within'
        PROVE  [((\E e \in TypePairs : Equate(e)) \/ Unify) /\ Within']_vars
    <3>1. StepOf(n)
      BY <1>2, <2>3, StepCases DEF WInv, CallsOK, Open
    <3>2. CASE AsksFor(n)
      <4>1. PICK l, r : Ask(n, l, r)
        BY <3>2 DEF AsksFor
      <4> QED
        BY <2>3, <4>1 DEF Ask
    <3>3. CASE ~AsksFor(n)
      BY <3>1, <3>3 DEF StepOf, PlainCall, JustCall, Call, OpensBinder, GeneralisesLet, ReturnsResult,
                        Return, ReturnsInstance, InstantiatesBy, Refuse
    <3> QED
      BY <3>2, <3>3
  <2> QED
    BY <1>2, <2>1, <2>2, <2>3 DEF WNext
<1> QED
  BY <1>1, <1>2, WInvariance, PTL DEF WSpec, Unifications

(* So what it decides is what its equations ask for, and nothing more.     *)
THEOREM InferenceSound == WSpec => [](Sound /\ MostGeneral /\ RejectsUnsolvable)
<1>1. WInv => Sound /\ MostGeneral /\ RejectsUnsolvable
  BY IInvSound, IInvMostGeneral DEF WInv, IInv
<1> QED
  BY <1>1, WInvariance, PTL
=============================================================================
