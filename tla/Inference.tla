----------------------------- MODULE Inference -----------------------------
(***************************************************************************)
(* Algorithm W (types.rs: algo_w and the infer_* functions) on the core of *)
(* the language: functions, recursive lets, branches, operators and cons.  *)
(* It works on top of Unification: a function infer_* that calls unify     *)
(* waits until no pair is left.                                            *)
(*                                                                         *)
(* W is recursive.  Here an expression is a tree of nodes and the calls of *)
(* algo_w in progress are the open nodes: parts have larger numbers than   *)
(* the node they belong to, so that the innermost call is the largest open *)
(* node, the one that Runs.  Substitutions are not returned and combined,  *)
(* as in the program, but are those of Unification, and types, also those  *)
(* of the context, are kept as they were made and read under the bindings  *)
(* made so far: every infer_* function applies what it has learnt to the   *)
(* context before it goes on.  MCInference checks that the result is that  *)
(* of the recursive functions (Infer).                                     *)
(***************************************************************************)
EXTENDS Unification, Functions

CONSTANTS
  Nodes,    \* the nodes of all programs
  Exp,      \* Exp[n]: the kind e, the name x, the parts, the type t of a
            \* literal and the ground types accepted by an operator
  Programs, \* the nodes at which programs start
  Idents,   \* the names in them
  RuntimeTypes,  \* the types of the runtime functions
  Scope,    \* Scope[n][x]: the node and the part that binds x at n, or None
  MaxVars   \* bound: how many type variables are allocated

None == <<>>

(* The parts in which a node binds its name: the body of a function, and   *)
(* both parts of a let, which is recursive in the first.                   *)
Binds(n) ==
  CASE Exp[n].e = "Abstraction" -> {1}
    [] Exp[n].e = "Let" -> {1, 2}
    [] OTHER -> {}
InScope(n, i) ==
  IF i \in Binds(n) THEN [Scope[n] EXCEPT ![Exp[n].x] = <<n, i>>] ELSE Scope[n]

Arity ==
  [Variable |-> 0, Literal |-> 0, Abstraction |-> 1, Application |-> 2, Let |-> 2,
   IfElse |-> 3, Cons |-> 2, Arithmetic |-> 2, Comparison |-> 2, Logical |-> 2,
   Not |-> 1, Negate |-> 1]

(* A type that is not known, Monotype::infer                               *)
Unknown == Con("Infer")
Closed(t) == t \in Types /\ FreeVariables(t) = {}

ASSUME NodesAssumption ==
  /\ Nodes \subseteq Nat /\ Programs \subseteq Nodes
  /\ \A n \in Nodes :
       /\ Exp[n].e \in DOMAIN Arity /\ Exp[n].x \in Idents
       /\ Exp[n].parts \in Seq(Nodes) /\ Len(Exp[n].parts) = Arity[Exp[n].e]
       /\ \A i \in DOMAIN Exp[n].parts : Exp[n].parts[i] > n /\ Exp[n].parts[i] \notin Programs
       /\ Closed(Exp[n].t)
(* A tree: every node is a part of one other. *)
ASSUME TreeAssumption ==
  \A m, n \in Nodes : \A i \in DOMAIN Exp[m].parts, j \in DOMAIN Exp[n].parts :
     Exp[m].parts[i] = Exp[n].parts[j] => m = n /\ i = j
ASSUME ScopeAssumption ==
  /\ \A n \in Nodes : Scope[n] \in [Idents -> {None} \cup Nodes \X {1, 2}]
  /\ \A n \in Programs : \A x \in Idents : Scope[n][x] = None
  /\ \A n \in Nodes : \A i \in DOMAIN Exp[n].parts : Scope[Exp[n].parts[i]] = InScope(n, i)
(* The name of a let stays in the context after it.  In the programs here  *)
(* that makes no difference: a let redefines no name in scope, and a name  *)
(* that is not in scope is not that of a let.                              *)
ASSUME LetsAssumption ==
  \A n \in Nodes : Exp[n].e = "Let" /\ Exp[n].x \notin DOMAIN RuntimeTypes =>
    /\ Scope[n][Exp[n].x] = None
    /\ \A m \in Nodes :
         Exp[m].e = "Variable" /\ Exp[m].x = Exp[n].x => Scope[m][Exp[m].x] # None
ASSUME TypesAssumption ==
  /\ DOMAIN RuntimeTypes \subseteq Idents /\ \A x \in DOMAIN RuntimeTypes : Closed(RuntimeTypes[x])
  /\ Closed(Unknown) /\ Closed(TBool)
(* There are no records here, so unify_row is not called.  The variables   *)
(* of W come from the same counter.                                        *)
ASSUME RecordsAssumption == MaxFresh = 0
ASSUME CounterAssumption ==
  /\ MaxVars \in Nat
  /\ \A i \in 0 .. (MaxVars - 1) :
       /\ NewTypeVar(i) \in TypeVars \cap EquationVars /\ Var(NewTypeVar(i)) \in Types
       /\ \A j \in 0 .. (MaxVars - 1) : NewTypeVar(i) = NewTypeVar(j) => i = j

VARIABLES
  called,    \* the nodes that algo_w has been called for
  done,      \* ... and those for which it has returned
  part,      \* of every node: how many of its parts have been called
  asked,     \* ... how many unifications it has asked for
  typ,       \* Expr::typ
  var,       \* the variable that the call has allocated, if it has
  scheme,    \* auxiliary: what a let has put into the context for its body
  inst,      \* auxiliary: what a variable's call has put for the variables
             \* that were generalised
  ctx,       \* TypeContext::variables
  old,       \* old_binding
  allocated, \* TypeContext::type_var_ctr: the variables of W
  rejected   \* an error other than of unify

wvars == <<called, done, part, asked, typ, var, scheme, inst, ctx, old, allocated, rejected>>

(* A polytype: a type, and for its quantified variables the names that     *)
(* they had before they were quantified: gen[v] is the new name of v.      *)
Nothing == [v \in {} |-> v]
Mono(t) == [gen |-> Nothing, t |-> t]
Unbound == Mono(Unknown)

WInit ==
  /\ Init
  /\ \E n \in Programs : called = {n}
  /\ done = {}
  /\ part = [n \in Nodes |-> 0]
  /\ asked = [n \in Nodes |-> 0]
  /\ typ = [n \in Nodes |-> Unknown]
  /\ var = [n \in Nodes |-> Unknown]
  /\ scheme = [n \in Nodes |-> Unbound]
  /\ inst = [n \in Nodes |-> Nothing]
  /\ ctx = [x \in Idents |-> IF x \in DOMAIN RuntimeTypes THEN Mono(RuntimeTypes[x]) ELSE Unbound]
  /\ old = [n \in Nodes |-> Unbound]
  /\ allocated = 0
  /\ rejected = FALSE

-----------------------------------------------------------------------------
(* The innermost call is that of n, which has called p of its parts, all   *)
(* of them done, and has asked for a unifications.                         *)
Open == called \ done
Runs(n) == n \in Open /\ \A m \in Open : m <= n
At(n, p, a) == Runs(n) /\ part[n] = p /\ asked[n] = a

Part(n, i) == Exp[n].parts[i]
Typ(n) == Apply(typ[n], sub)

(* algo_w of the next part *)
Call(n, i) ==
  /\ called' = called \cup {Part(n, i)}
  /\ part' = [part EXCEPT ![n] = i]
  /\ UNCHANGED <<vars, done, asked, typ, inst, rejected>>
JustCall(n, i) == Call(n, i) /\ UNCHANGED <<var, scheme, ctx, old, allocated>>

(* unify, with the error passed on *)
Ask(n, l, r) ==
  /\ <<l, r>> \in TypePairs
  /\ Equate(<<l, r>>)
  /\ asked' = [asked EXCEPT ![n] = @ + 1]
  /\ UNCHANGED <<called, done, part, typ, scheme, inst, ctx, old, rejected>>
JustAsk(n, l, r) == Ask(n, l, r) /\ UNCHANGED <<var, allocated>>

Return(n, t) ==
  /\ t \in Types
  /\ typ' = [typ EXCEPT ![n] = t]
  /\ done' = done \cup {n}
  /\ UNCHANGED <<vars, called, part, asked, var, scheme, old, rejected>>
JustReturn(n, t) == Return(n, t) /\ UNCHANGED <<inst, ctx, allocated>>

Refuse ==
  /\ rejected' = TRUE
  /\ UNCHANGED <<vars, called, done, part, asked, typ, var, scheme, inst, ctx, old, allocated>>

(* new_typevar *)
Allocate(n) ==
  /\ allocated < MaxVars
  /\ var' = [var EXCEPT ![n] = Var(NewTypeVar(allocated))]
  /\ allocated' = allocated + 1

New(k) == {NewTypeVar(i) : i \in allocated .. (allocated + k - 1)}

(* A defect: the variables keep their names. *)
Kept(vs, k) == {[v \in vs |-> v]}

(* The next k of them, one for each of the variables vs *)
Fresh(vs, k) == {m \in [vs -> New(k)] : IsInjective(m) /\ Range(m) = New(k)}

(* Polytype::free_variables, TypeContext::free_variables when old_binding  *)
(* is put back, which is kept as it was before the first part; and         *)
(* TypeContext::generalise: the variables of the first part's type that    *)
(* are not in the context                                                  *)
FreeIn(p) == FreeVariables(Apply(p.t, sub)) \ Range(p.gen)
ContextFree(n) ==
  UNION {FreeIn(ctx[y]) : y \in Idents \ {Exp[n].x}}
    \cup (FreeVariables(old[n].t) \ Range(old[n].gen))
(* A defect: all variables of the type are generalised. *)
GeneralisedAll(n) == FreeVariables(Typ(Part(n, 1)))

Generalised(n) == FreeVariables(Typ(Part(n, 1))) \ ContextFree(n)

-----------------------------------------------------------------------------
(* infer_literal *)
Literal(n) == At(n, 0, 0) /\ JustReturn(n, Exp[n].t)

(* infer_variable: Polytype::instantiate gives every quantified variable a *)
(* fresh one.                                                              *)
InferVariable(n) ==
  LET p == ctx[Exp[n].x]
  IN  /\ At(n, 0, 0)
      /\ \/ p = Unbound /\ Refuse
         \/ /\ p # Unbound
            /\ \E k \in 0 .. (MaxVars - allocated) :
                 \E f \in Fresh(Range(p.gen), k) :
                   /\ Return(n, Rename(Apply(p.t, sub), f))
                   /\ inst' = [inst EXCEPT ![n] = [v \in DOMAIN p.gen |-> f[p.gen[v]]]]
                   /\ allocated' = allocated + k
            /\ UNCHANGED ctx

(* A defect: the parameter stays in the context. *)
AbstractionLeaks(n) ==
  \/ /\ At(n, 0, 0)
     /\ Allocate(n)
     /\ ctx' = [ctx EXCEPT ![Exp[n].x] = Mono(var'[n])]
     /\ Call(n, 1)
     /\ UNCHANGED <<scheme, old>>
  \/ At(n, 1, 0) /\ JustReturn(n, Fn(var[n], typ[Part(n, 1)]))

(* infer_abstraction *)
Abstraction(n) ==
  \/ /\ At(n, 0, 0)
     /\ Allocate(n)
     /\ old' = [old EXCEPT ![n] = ctx[Exp[n].x]]
     /\ ctx' = [ctx EXCEPT ![Exp[n].x] = Mono(var'[n])]
     /\ Call(n, 1)
     /\ UNCHANGED scheme
  \/ /\ At(n, 1, 0)
     /\ ctx' = [ctx EXCEPT ![Exp[n].x] = old[n]]
     /\ Return(n, Fn(var[n], typ[Part(n, 1)]))
     /\ UNCHANGED <<inst, allocated>>

(* infer_application *)
Application(n) ==
  \/ At(n, 0, 0) /\ JustCall(n, 1)
  \/ At(n, 1, 0) /\ JustCall(n, 2)
  \/ /\ At(n, 2, 0)
     /\ Allocate(n)
     /\ Ask(n, typ[Part(n, 1)], Fn(typ[Part(n, 2)], var'[n]))
  \/ At(n, 2, 1) /\ JustReturn(n, var[n])

(* infer_let: its name is recursive in the first part, and generalised for *)
(* the second.  It stays in the context.                                   *)
Let(n) ==
  \/ At(n, 0, 0) /\ Exp[n].x \in DOMAIN RuntimeTypes /\ Refuse
  \/ /\ At(n, 0, 0) /\ Exp[n].x \notin DOMAIN RuntimeTypes
     /\ Allocate(n)
     /\ old' = [old EXCEPT ![n] = [ctx[Exp[n].x] EXCEPT !.t = Apply(@, sub)]]
     /\ ctx' = [ctx EXCEPT ![Exp[n].x] = Mono(var'[n])]
     /\ Call(n, 1)
     /\ UNCHANGED scheme
  \/ At(n, 1, 0) /\ JustAsk(n, typ[Part(n, 1)], var[n])
  \/ /\ At(n, 1, 1)
     /\ \E k \in 0 .. (MaxVars - allocated) :
          \E m \in Fresh(Generalised(n), k) :
            LET p == [gen |-> m, t |-> Rename(Typ(Part(n, 1)), m)]
            IN  /\ p.t \in Types
                /\ scheme' = [scheme EXCEPT ![n] = p]
                /\ ctx' = [ctx EXCEPT ![Exp[n].x] = p]
                /\ allocated' = allocated + k
     /\ Call(n, 2)
     /\ UNCHANGED <<var, old>>
  \/ At(n, 2, 1) /\ JustReturn(n, typ[Part(n, 2)])

(* infer_if_else *)
IfElse(n) ==
  \/ At(n, 0, 0) /\ JustCall(n, 1)
  \/ At(n, 1, 0) /\ JustAsk(n, typ[Part(n, 1)], TBool)
  \/ At(n, 1, 1) /\ JustCall(n, 2)
  \/ At(n, 2, 1) /\ JustCall(n, 3)
  \/ At(n, 3, 1) /\ JustAsk(n, typ[Part(n, 2)], typ[Part(n, 3)])
  \/ At(n, 3, 2) /\ JustReturn(n, typ[Part(n, 2)])

(* infer_cons *)
Cons(n) ==
  \/ At(n, 0, 0) /\ JustCall(n, 1)
  \/ At(n, 1, 0) /\ JustCall(n, 2)
  \/ At(n, 2, 0) /\ JustAsk(n, typ[Part(n, 2)], List(typ[Part(n, 1)]))
  \/ At(n, 2, 1) /\ JustReturn(n, List(typ[Part(n, 1)]))

(* An operator accepts a type variable, which it leaves as it is, and some *)
(* ground types.                                                           *)
Accepts(n, t) == IsVar(t) \/ t \in Exp[n].accepted

(* infer_arithmetic, infer_comparison *)
Operation(n) ==
  \/ At(n, 0, 0) /\ JustCall(n, 1)
  \/ At(n, 1, 0) /\ JustCall(n, 2)
  \/ At(n, 2, 0) /\ JustAsk(n, typ[Part(n, 1)], typ[Part(n, 2)])
  \/ At(n, 2, 1) /\ ~Accepts(n, Typ(Part(n, 1))) /\ Refuse
  \/ /\ At(n, 2, 1) /\ Accepts(n, Typ(Part(n, 1)))
     /\ JustReturn(n, IF Exp[n].e = "Arithmetic" THEN typ[Part(n, 1)] ELSE TBool)

(* infer_logical *)
Logical(n) ==
  \/ At(n, 0, 0) /\ JustCall(n, 1)
  \/ At(n, 1, 0) /\ JustCall(n, 2)
  \/ At(n, 2, 0) /\ JustAsk(n, typ[Part(n, 1)], typ[Part(n, 2)])
  \/ At(n, 2, 1) /\ JustAsk(n, typ[Part(n, 1)], TBool)
  \/ At(n, 2, 2) /\ JustReturn(n, TBool)

(* infer_unary *)
Not(n) ==
  \/ At(n, 0, 0) /\ JustCall(n, 1)
  \/ At(n, 1, 0) /\ JustAsk(n, typ[Part(n, 1)], TBool)
  \/ At(n, 1, 1) /\ JustReturn(n, TBool)
Negate(n) ==
  \/ At(n, 0, 0) /\ JustCall(n, 1)
  \/ At(n, 1, 0) /\ ~Accepts(n, Typ(Part(n, 1))) /\ Refuse
  \/ At(n, 1, 0) /\ Accepts(n, Typ(Part(n, 1))) /\ JustReturn(n, typ[Part(n, 1)])

(* algo_w *)
Work(n) ==
  \/ Exp[n].e = "Literal" /\ Literal(n)
  \/ Exp[n].e = "Variable" /\ InferVariable(n)
  \/ Exp[n].e = "Abstraction" /\ Abstraction(n)
  \/ Exp[n].e = "Application" /\ Application(n)
  \/ Exp[n].e = "Let" /\ Let(n)
  \/ Exp[n].e = "IfElse" /\ IfElse(n)
  \/ Exp[n].e = "Cons" /\ Cons(n)
  \/ Exp[n].e \in {"Arithmetic", "Comparison"} /\ Operation(n)
  \/ Exp[n].e = "Logical" /\ Logical(n)
  \/ Exp[n].e = "Not" /\ Not(n)
  \/ Exp[n].e = "Negate" /\ Negate(n)

(* The bound MaxDepth, here too *)
WithinW ==
  \A n \in called :
    /\ Apply(typ[n], sub) \in Types /\ Apply(var[n], sub) \in Types
    /\ Apply(scheme[n].t, sub) \in Types
    /\ \A v \in DOMAIN inst[n] : Apply(Var(inst[n][v]), sub) \in Types

WNext ==
  /\ \/ Idle /\ ~failed /\ ~rejected /\ \E n \in Open : Work(n)
     \/ Unify /\ UNCHANGED wvars
  /\ Within' /\ WithinW'

WSpec == WInit /\ [][WNext]_<<vars, wvars>>

-----------------------------------------------------------------------------
(* The typing rules, at a node: the types that have to be the same.  An    *)
(* operator only asks for operands of one type: it accepts a type variable *)
(* and does not come back to it when more is known.                        *)
Rules(n) ==
  LET t == typ[n]
      T(i) == typ[Part(n, i)]
  IN  CASE Exp[n].e = "Literal" -> {<<t, Exp[n].t>>}
        [] Exp[n].e = "Variable" -> {}
        [] Exp[n].e = "Abstraction" -> {<<t, Fn(var[n], T(1))>>}
        [] Exp[n].e = "Application" -> {<<T(1), Fn(T(2), t)>>}
        [] Exp[n].e = "Let" -> {<<T(1), var[n]>>, <<t, T(2)>>}
        [] Exp[n].e = "IfElse" -> {<<T(1), TBool>>, <<t, T(2)>>, <<t, T(3)>>}
        [] Exp[n].e = "Cons" -> {<<t, List(T(1))>>, <<t, T(2)>>}
        [] Exp[n].e = "Arithmetic" -> {<<t, T(1)>>, <<t, T(2)>>}
        [] Exp[n].e = "Comparison" -> {<<T(1), T(2)>>, <<t, TBool>>}
        [] Exp[n].e = "Logical" -> {<<T(1), TBool>>, <<T(2), TBool>>, <<t, TBool>>}
        [] Exp[n].e = "Not" -> {<<T(1), TBool>>, <<t, TBool>>}
        [] Exp[n].e = "Negate" -> {<<t, T(1)>>}

(* What the environment has for x at n: the variable of the function or of *)
(* the recursive let that binds it, or the type of the first part of a let *)
Polymorphic(b) == b # None /\ Exp[b[1]].e = "Let" /\ b[2] = 2
Source(n, x) ==
  LET b == Scope[n][x]
  IN  IF b = None THEN RuntimeTypes[x]
      ELSE IF Polymorphic(b) THEN typ[Part(b[1], 1)] ELSE var[b[1]]
(* ... with its quantified variables, under the names they had *)
Quantified(n, x) ==
  LET b == Scope[n][x] IN IF Polymorphic(b) THEN DOMAIN scheme[b[1]].gen ELSE {}

(* The meaning of t when the variables of m mean what m has for them *)
MeaningWith(g, m, t) ==
  Meaning([v \in DOMAIN g \cup DOMAIN m |->
             IF v \in DOMAIN m THEN Meaning(g, Apply(Var(m[v]), sub)) ELSE g[v]], t)

(* A variable has an instance of what the environment has for its name:    *)
(* nothing but the quantified variables is different.                      *)
IsInstance(n) ==
  LET x == Exp[n].x
  IN  /\ DOMAIN inst[n] = Quantified(n, x)
      /\ \A g \in Valuations :
           Meaning(g, Typ(n)) = MeaningWith(g, inst[n], Apply(Source(n, x), sub))

(* A let has generalised no variable that its environment has. *)
IsGeneral(n) ==
  \A y \in Idents : Scope[n][y] # None =>
    (FreeVariables(Apply(Source(n, y), sub)) \ Quantified(n, y)) \cap DOMAIN scheme[n].gen = {}

(* What W has found is a derivation by the rules of Hindley and Milner, at *)
(* every node of the expression that is done and under all that has been   *)
(* learnt since, whatever the variables that are left stand for.           *)
WellTyped ==
  Idle => \A n \in done :
    /\ \A g \in Valuations : \A e \in Rules(n) :
         Meaning(g, Apply(e[1], sub)) = Meaning(g, Apply(e[2], sub))
    /\ Exp[n].e = "Variable" => IsInstance(n)
    /\ Exp[n].e = "Let" => IsGeneral(n)

(* "a stored polytype's bound variables can never collide with type        *)
(* variables allocated by later statements -- otherwise context.apply      *)
(* would silently corrupt already-generalised types" (types.rs 384-389):   *)
(* no quantified variable is ever bound, by its new name or its old one.   *)
QuantifiedStay ==
  \A n \in called : (DOMAIN scheme[n].gen \cup Range(scheme[n].gen)) \cap Bound = {}
=============================================================================
