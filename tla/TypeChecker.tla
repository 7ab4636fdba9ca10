---------------------------- MODULE TypeChecker ----------------------------
(***************************************************************************)
(* The type checker at work on a program, statement after statement        *)
(* (types.rs, Program::typecheck and Stmt::typecheck), beside the typing   *)
(* rules.  A statement is checked in a clone of the program's context,     *)
(* which becomes the program's context only if the statement is accepted.  *)
(***************************************************************************)
EXTENDS Infer, TypingRules

(* What is compared are parameters: Typecheck of Infer, and Derived below. *)
CONSTANTS
  Inference(_, _), \* what the checker makes of a statement in a context
  Rules(_, _)      \* the types of a statement in an environment by the rules

(* Kinds of programs: the statements they are made of, how many of them a  *)
(* program has (a bound), and the types to compare, whose derivations stay *)
(* within Universe                                                         *)
CONSTANT Vocabulary

VARIABLES
  kind,   \* of the program
  ctx,    \* Program::ctx
  env,    \* the same program's environment by the typing rules
  judged  \* the last statement: accepted or not, and its ground types by
          \* inference and by the rules

vars == <<kind, ctx, env, judged>>

Statements == Vocabulary[kind].statements
MaxStatements == Vocabulary[kind].most
Small == Vocabulary[kind].small

Start == [x \in DOMAIN Builtins |-> Instances(Builtins[x].t)]

Init ==
  /\ kind \in DOMAIN Vocabulary
  /\ ctx = NewContext
  /\ env = Start
  /\ judged = [st |-> <<>>, length |-> 0, ok |-> TRUE, inferred |-> {}, derived |-> {}]

(* The types of a statement by the rules.  A builtin cannot be redefined. *)
Derived(names, st) ==
  LET redefines == st.k = "Decl" /\ st.x \in DOMAIN Builtins
  IN  CASE st.k = "Expr" -> Types(names, st.exp)
        [] st.k = "Decl" -> IF redefines THEN {} ELSE DeclaredTypes(names, st.x, st.exp)

(* A type declaration adds to the environment the ground types of its      *)
(* constructors, or the ground records its name stands for.                *)
Declared(st) ==
  CASE st.dec = "Enum" ->
         [x \in {st.variants[i].x : i \in DOMAIN st.variants} |->
            LET v == st.variants[CHOOSE i \in DOMAIN st.variants : st.variants[i].x = x]
                enum == Enum(st.name, [i \in DOMAIN st.params |-> Var(st.params[i])])
            IN  Instances(IF v.fields = <<>> THEN enum ELSE Fn(v.fields[1], enum))]
    [] st.dec = "Record" ->
         LET RECURSIVE RowFrom(_)
             RowFrom(i) == IF i > Len(st.fs) THEN EmptyRow
                           ELSE RowExt(st.fs[i].l, st.fs[i].t, RowFrom(i + 1))
         IN  st.name :> Instances(Rec(RowFrom(1)))
    [] OTHER -> <<>>

CheckTerm(st) ==
  LET r == Inference(ctx, st)
      derived == Rules(env, st)
  IN  /\ judged.length < MaxStatements
      /\ st.k \in {"Decl", "Expr"}
      /\ ctx' = IF r.ok THEN r.c ELSE ctx
      /\ env' = IF r.ok /\ st.k = "Decl" THEN Bind1(env, st.x, derived) ELSE env
      /\ judged' = [st |-> st, length |-> judged.length + 1, ok |-> r.ok,
                    inferred |-> IF r.ok THEN Instances(r.t) ELSE {}, derived |-> derived]

CheckType(st) ==
  LET r == Inference(ctx, st)
  IN  /\ judged.length < MaxStatements
      /\ st.k = "Type"
      /\ ctx' = IF r.ok THEN r.c ELSE ctx
      /\ env' = IF r.ok THEN Declared(st) @@ env ELSE env
      /\ judged' = [st |-> st, length |-> judged.length + 1, ok |-> r.ok,
                    inferred |-> {}, derived |-> {}]

Next == (\E st \in Statements : CheckTerm(st) \/ CheckType(st)) /\ UNCHANGED kind

Spec == Init /\ [][Next]_vars

-----------------------------------------------------------------------------
IsTerm == judged.length > 0 /\ judged.st.k # "Type"

(* What inference accepts, the typing rules accept: every ground instance  *)
(* of the type it finds can be derived.                                    *)
Sound == judged.ok => judged.inferred \cap Small \subseteq judged.derived

(* Types are principal: a statement that has a type by the rules is        *)
(* accepted, and each of its types is an instance of the inferred one.     *)
Principal == IsTerm => judged.derived \subseteq judged.inferred

(* The context agrees with the rules on every name in scope, after         *)
(* declarations, shadowing, inner scopes and failed statements; the        *)
(* runtime functions keep their types, whatever a program declares.        *)
ContextAgrees ==
  /\ \A x \in DOMAIN env \ DOMAIN Builtins :
       \/ x \in DOMAIN ctx.al
       \/ x \in DOMAIN ctx.v /\ Instances(ctx.v[x].t) \cap Small = env[x] \cap Small
  /\ \A x \in DOMAIN Builtins : x \in DOMAIN ctx.v /\ ctx.v[x] = Builtins[x]

(* docs/typerules.md, Block: a declaration binds its name "in the context  *)
(* for the rest of the block": what a statement declares inside is not in  *)
(* the program's context after it.                                         *)
InnerNamesEnd == DOMAIN ctx.v \subseteq DOMAIN env

=============================================================================
