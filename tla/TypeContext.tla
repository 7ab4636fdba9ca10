---------------------------- MODULE TypeContext ----------------------------
(***************************************************************************)
(* The naming discipline of the type checker (types.rs): how type          *)
(* variables are allocated, quantified, instantiated and substituted in    *)
(* the typing context while Algorithm W walks one statement after another. *)
(*                                                                         *)
(* A type is abstracted to the set of type variables that occur in it; the *)
(* shape of types is the business of the modules Types and Infer.  A type  *)
(* variable is a name: the n-th allocated one is called t<n> in the code   *)
(* and is the number n here; the variables a programmer may write in an    *)
(* annotation ('a, but also 't3) are the constant UserVars.                *)
(***************************************************************************)
EXTENDS Naturals, FiniteSets, Sequences

CONSTANTS
  Names,     \* the variables of the program
  UserVars,  \* the type variables that occur in annotations
  MaxVars,   \* bound: how many type variables are allocated
  MaxDepth   \* bound: how deep scopes nest

ASSUME BoundsAssumption == MaxVars \in Nat /\ MaxDepth \in Nat

VARIABLES
  ctr,      \* TypeContext::type_var_ctr
  schemes,  \* TypeContext::variables: the polytype of every name
  live,     \* the type variables of the types W holds while it runs
  scopes,   \* the calls of W that will restore a binding or a context
  stmt,     \* what is being checked: "none", a "term" or an "enum" statement
  base      \* the context the running statement started from (a clone)

vars == <<ctr, schemes, live, scopes, stmt, base>>

TVar == Nat \cup UserVars

(* A polytype: the quantified variables and all variables of its body.  A  *)
(* name that is not bound and a name of a closed monotype are the same     *)
(* here: neither has a type variable.                                      *)
Scheme == [bound : SUBSET Nat, vars : SUBSET TVar]
Closed == [bound |-> {}, vars |-> {}]
Mono(V) == [bound |-> {}, vars |-> V]
Context == [Names -> Scheme]

(* Polytype::free_variables and TypeContext::free_variables *)
Free(p) == p.vars \ p.bound
CtxFree(c) == UNION {Free(c[x]) : x \in Names}

(* Polytype::apply for the binding of one variable v to a type with the    *)
(* variables R.  Quantifiers are not looked at.                            *)
Subst(p, v, R) ==
  IF v \in p.vars THEN [p EXCEPT !.vars = (p.vars \ {v}) \cup R] ELSE p

SubstCtx(c, v, R) == [x \in Names |-> Subst(c[x], v, R)]

(* A scope is a call of W that will restore the bindings of some names:    *)
(* one name for a binder ("lambda": infer_abstraction; "let": infer_let    *)
(* and the declarations of a block or a program), all of them for a case   *)
(* of a match, which works on a clone of the context ("case").  Only the   *)
(* clone has a counter of its own, saved.ctr being the original's.         *)
Saved(X) == [x \in Names |-> IF x \in X THEN schemes[x] ELSE Closed]
Restored(f) == [x \in Names |-> IF x \in f.names THEN f.saved[x] ELSE schemes[x]]
Scope == [kind : {"lambda", "let", "case"}, names : SUBSET Names,
          saved : Context, ctr : Nat]

(* Types in hand: finite sets of live variables. *)
TypesInHand == {V \in SUBSET live : IsFiniteSet(V)}

Init ==
  /\ ctr = 0
  /\ schemes = [x \in Names |-> Closed]
  /\ live = {}
  /\ scopes = <<>>
  /\ stmt = "none"
  /\ base = [ctr |-> 0, schemes |-> [x \in Names |-> Closed]]

-----------------------------------------------------------------------------
(* TypeContext::new_typevar *)
NewTypevar ==
  /\ stmt = "term"
  /\ ctr < MaxVars
  /\ ctr' = ctr + 1
  /\ live' = live \cup {ctr}
  /\ UNCHANGED <<schemes, scopes, stmt, base>>

(* type_to_typefn on an annotation that mentions the type variable u *)
Annotate(u) ==
  /\ stmt = "term"
  /\ live' = live \cup {u}
  /\ UNCHANGED <<ctr, schemes, scopes, stmt, base>>

(* A defect: the polytype is used without being instantiated. *)
VariableNotInstantiated(x) ==
  /\ stmt = "term"
  /\ live' = live \cup schemes[x].vars
  /\ UNCHANGED <<ctr, schemes, scopes, stmt, base>>

(* infer_variable: Polytype::instantiate gives every quantified variable a *)
(* fresh name, and leaves the free ones as they are.                       *)
Variable(x) ==
  LET n == Cardinality(schemes[x].bound)
  IN  /\ stmt = "term"
      /\ ctr + n <= MaxVars
      /\ ctr' = ctr + n
      /\ live' = live \cup Free(schemes[x]) \cup ctr .. (ctr + n - 1)
      /\ UNCHANGED <<schemes, scopes, stmt, base>>

(* unify on a variable, and context.apply of the substitution it returns.  *)
(* The occurs check keeps v out of R.  The code applies a substitution to  *)
(* a saved binding when the binding has been restored; here it is applied  *)
(* at once.                                                                *)
Unify(v, R) ==
  /\ stmt = "term"
  /\ v \in live
  /\ v \notin R
  /\ live' = (live \ {v}) \cup R
  /\ schemes' = SubstCtx(schemes, v, R)
  /\ scopes' = [i \in DOMAIN scopes |->
                  [scopes[i] EXCEPT !.saved = SubstCtx(scopes[i].saved, v, R)]]
  /\ UNCHANGED <<ctr, stmt, base>>

(* TypeContext::generalise: the variables of V that are not free in the    *)
(* context c are renamed to fresh ones, which are quantified.  Renaming a  *)
(* variable to itself would not terminate, hence the last conjunct.        *)
Quantified(c, V) == V \ CtxFree(c)
Fresh(n) == ctr .. (ctr + n - 1)
(* A defect: the quantified variables keep their names. *)
GeneralisedNotRenamed(c, V) == [bound |-> Quantified(c, V), vars |-> V]

Generalised(c, V) ==
  LET fresh == Fresh(Cardinality(Quantified(c, V)))
  IN  [bound |-> fresh, vars |-> fresh \cup (V \cap CtxFree(c))]
CanGeneralise(c, V) ==
  LET n == Cardinality(Quantified(c, V))
  IN  ctr + n <= MaxVars /\ Quantified(c, V) \cap Fresh(n) = {}

(* A binder is entered: its name gets a monotype, the old binding is kept. *)
OpenBinder(kind, x, V) ==
  /\ stmt = "term"
  /\ Len(scopes) < MaxDepth
  /\ scopes' = <<[kind |-> kind, names |-> {x}, saved |-> Saved({x}),
                  ctr |-> 0]>> \o scopes
  /\ schemes' = [schemes EXCEPT ![x] = Mono(V)]
  /\ UNCHANGED <<ctr, live, stmt, base>>

(* infer_abstraction, after the body: the old binding is restored. *)
CloseLambda ==
  /\ stmt = "term"
  /\ scopes # <<>>
  /\ Head(scopes).kind = "lambda"
  /\ scopes' = Tail(scopes)
  /\ schemes' = Restored(Head(scopes))
  /\ UNCHANGED <<ctr, live, stmt, base>>

(* infer_let and the declarations of infer_block and Stmt::typecheck,      *)
(* after the bound expression: the old binding is restored, the type of    *)
(* the expression is generalised in that context, and the name gets it.    *)
CloseLet(V) ==
  /\ stmt = "term"
  /\ scopes # <<>>
  /\ Head(scopes).kind = "let"
  /\ LET c == Restored(Head(scopes))
     IN  /\ CanGeneralise(c, V)
         /\ ctr' = ctr + Cardinality(Quantified(c, V))
         /\ schemes' = [x \in Names |-> IF x \in Head(scopes).names
                                        THEN Generalised(c, V) ELSE c[x]]
  /\ scopes' = Tail(scopes)
  /\ UNCHANGED <<live, stmt, base>>

(* infer_match: a case works on a clone of the context ... *)
OpenCase ==
  /\ stmt = "term"
  /\ Len(scopes) < MaxDepth
  /\ scopes' = <<[kind |-> "case", names |-> Names, saved |-> Saved(Names),
                  ctr |-> ctr]>> \o scopes
  /\ UNCHANGED <<ctr, schemes, live, stmt, base>>

(* ... type_pattern binds a pattern variable in it ... *)
PatternVariable(x, V) ==
  /\ stmt = "term"
  /\ scopes # <<>>
  /\ Head(scopes).kind = "case"
  /\ schemes' = [schemes EXCEPT ![x] = Mono(V)]
  /\ UNCHANGED <<ctr, live, scopes, stmt, base>>

(* ... and the clone is dropped, except that its counter is kept: the      *)
(* variables allocated in the case are in the substitution W holds.        *)
(* A defect: the counter of the clone is dropped too. *)
CounterDropped(saved) == saved

CounterAfterCase(saved) == IF saved > ctr THEN saved ELSE ctr
CloseCase ==
  /\ stmt = "term"
  /\ scopes # <<>>
  /\ Head(scopes).kind = "case"
  /\ scopes' = Tail(scopes)
  /\ schemes' = Restored(Head(scopes))
  /\ ctr' = CounterAfterCase(Head(scopes).ctr)
  /\ UNCHANGED <<live, stmt, base>>

(* Stmt::typecheck begins to check a term, or handle_type_decl an enum     *)
(* with n type parameters, which get fresh variables.                      *)
BeginTerm ==
  /\ stmt = "none"
  /\ stmt' = "term"
  /\ UNCHANGED <<ctr, schemes, live, scopes, base>>

BeginEnum(n) ==
  /\ stmt = "none"
  /\ ctr + n <= MaxVars
  /\ stmt' = "enum"
  /\ ctr' = ctr + n
  /\ live' = live \cup Fresh(n)
  /\ UNCHANGED <<schemes, scopes, base>>

(* handle_type_decl: the type of a constructor, in which only the type     *)
(* parameters occur (check_undeclared), is generalised and added.          *)
Constructor(x, V) ==
  /\ stmt = "enum"
  /\ CanGeneralise(schemes, V)
  /\ ctr' = ctr + Cardinality(Quantified(schemes, V))
  /\ schemes' = [schemes EXCEPT ![x] = Generalised(schemes, V)]
  /\ UNCHANGED <<live, scopes, stmt, base>>

(* Stmt::typecheck succeeds: the clone becomes the program's context. *)
Commit ==
  /\ stmt # "none"
  /\ scopes = <<>>
  /\ base' = [ctr |-> ctr, schemes |-> schemes]
  /\ live' = {}
  /\ stmt' = "none"
  /\ UNCHANGED <<ctr, schemes, scopes>>

(* ... or fails at any point: the clone is dropped, its counter included. *)
Fail ==
  /\ stmt # "none"
  /\ ctr' = base.ctr
  /\ schemes' = base.schemes
  /\ live' = {}
  /\ scopes' = <<>>
  /\ stmt' = "none"
  /\ UNCHANGED base

Next ==
  \/ BeginTerm
  \/ \E n \in 0 .. MaxVars : BeginEnum(n)
  \/ NewTypevar
  \/ \E u \in UserVars : Annotate(u)
  \/ \E x \in Names : Variable(x)
  \/ \E v \in live, R \in TypesInHand : Unify(v, R)
  \/ \E kind \in {"lambda", "let"}, x \in Names, V \in TypesInHand :
        OpenBinder(kind, x, V)
  \/ CloseLambda
  \/ \E V \in TypesInHand : CloseLet(V)
  \/ OpenCase
  \/ \E x \in Names, V \in TypesInHand : PatternVariable(x, V)
  \/ CloseCase
  \/ \E x \in Names, V \in TypesInHand : Constructor(x, V)
  \/ Commit
  \/ Fail

Spec == Init /\ [][Next]_vars

-----------------------------------------------------------------------------
(* The contexts that can still be looked at: the current one and the ones  *)
(* a scope will restore.  What is in use is what a type in hand, or a type *)
(* instantiated later, mentions.                                           *)
Contexts == {schemes} \cup {scopes[i].saved : i \in DOMAIN scopes}
InUse == live \cup UNION {CtxFree(c) : c \in Contexts}
CtxBound(c) == UNION {c[x].bound : x \in Names}
Bound == UNION {CtxBound(c) : c \in Contexts}

(* What the variables hold; every type variable in use has been allocated. *)
TypeOK ==
  /\ ctr \in Nat
  /\ schemes \in Context
  /\ live \in SUBSET TVar
  /\ scopes \in Seq(Scope)
  /\ stmt \in {"none", "term", "enum"}
  /\ base \in [ctr : Nat, schemes : Context]

(* The comment of TypeContext::generalise: the quantified variables of a   *)
(* stored polytype never collide with a type variable in use, whatever is  *)
(* inferred, generalised, restored or rolled back in between.              *)
NoCapture == Bound \cap InUse = {}

(* Hence Polytype::apply, which ignores quantifiers, never replaces a      *)
(* quantified variable: every quantified variable is still in its body.    *)
SchemesIntact ==
  \A c \in Contexts : \A x \in Names : c[x].bound \subseteq c[x].vars

(* new_typevar is monotonic over the whole program, across the clones of   *)
(* infer_match: a variable a step allocates is neither in use nor bound.   *)
AllocatesUnused ==
  [][\A v \in ctr .. (ctr' - 1) : v \notin InUse \cup Bound]_vars

=============================================================================
