------------------------------ MODULE Compiler ------------------------------
(***************************************************************************)
(* The compiler as a pipeline (lib.rs, main.rs, repl.rs): statement after  *)
(* statement of a program is type checked (Infer), which records the types *)
(* in its terms, lowered (Lowering, Runtime), and the module is executed   *)
(* (Execution) as the REPL and as an executable do, beside the meaning of  *)
(* the program (Semantics).  A statement that does not type check is       *)
(* rejected and leaves the program as it was; one that cannot be lowered   *)
(* or verified ends it.                                                    *)
(***************************************************************************)
EXTENDS Infer, Semantics
LOCAL SE == INSTANCE SequencesExt

(* The passes are parameters: this module says how they are put together.  *)
CONSTANTS
  Check(_, _),          \* the type checker: Typecheck of Infer
  Generate(_, _),       \* the code generator: LowerStatement of Lowering
  Verify(_),            \* the verifier: Verified of Execution
  Evaluate(_, _, _, _), \* the execution: Execute of Execution
  Mean(_, _, _, _)      \* what a statement means: Meaning below

CONSTANTS
  Sources,  \* kinds of programs: records [prelude, statements, length,
            \* redefinitions, supported, input] of the statements they start
            \* with and those they go on with, a bound for how many these are,
            \* whether a name may be declared twice, whether the code generator
            \* is meant to compile them, and the input
  Fuel      \* bound: nested calls and loop iterations of an execution

VARIABLES
  source,   \* the kind of program
  ctx,      \* Program::ctx
  program,  \* the accepted statements, typed
  module,   \* the module they are lowered to
  meaning,  \* what its names stand for, and what its expressions have done
  result    \* the last statement: how it ended, and what it did

vars == <<source, ctx, program, module, meaning, result>>

Start(input) == [fuel |-> Fuel, deep |-> 0, io |-> [in |-> input, out |-> ""]]

(* answer is what the REPL invokes, file the executable; value and whole   *)
(* are what they should do, by the reference.                              *)
NoStatement ==
  LET nothing == Undefined(Start(<<>>))
  IN  [status |-> "none", t |-> TUnit, answer |-> nothing, file |-> nothing,
       value |-> nothing, whole |-> nothing]

Init ==
  /\ source \in Sources
  /\ ctx = NewContext
  /\ program = <<>>
  /\ module = InitialModule
  /\ meaning = [names |-> [x \in DOMAIN Builtins |-> Provided(x)],
                whole |-> Value(Number(0), Start(source.input))]
  /\ result = NoStatement

Reject(st) ==
  /\ ~Check(ctx, st).ok
  /\ result' = [NoStatement EXCEPT !.status = "type error"]
  /\ UNCHANGED <<source, ctx, program, module, meaning>>

LowerFails(st) ==
  LET t == Check(ctx, st)
  IN  /\ t.ok
      /\ ~Generate(t.e, module).ok
      /\ ctx' = t.c
      /\ program' = Append(program, t.e)
      /\ result' = [NoStatement EXCEPT !.status = "codegen error"]
      /\ UNCHANGED <<source, module, meaning>>

(* What a statement means: the names after it, what the expressions up to  *)
(* it do one after the other, and what the REPL asks for: the value of an  *)
(* expression, after the earlier ones, or that of a name alone.            *)
Meaning(st, before, input, fuel) ==
  LET Index(x) == CHOOSE i \in DOMAIN st.variants : st.variants[i].x = x
      variants == {st.variants[i].x : i \in DOMAIN st.variants}
      names == before.names
      own == (IF st.exp.e = "Abstraction" THEN LambdaValue(st.exp, names, st.x)
              ELSE ByName(st.exp, names))
      whole == IF before.whole.k = "value" THEN [before.whole EXCEPT !.v = Number(0)] ELSE before.whole
      next == Meanwhile(whole, Start(input), LAMBDA v, c : Eval(st.exp, names, c))
  IN  CASE st.k = "Type" ->
             [names |-> [x \in variants |-> Constructor(Index(x))] @@ names,
              whole |-> whole, value |-> whole]
        [] st.k = "Decl" ->
             [names |-> (st.x :> own) @@ names, whole |-> whole,
              value |-> Eval(st.exp, names, Start(input))]
        [] st.k = "Expr" -> [names |-> names, whole |-> next, value |-> next]

(* The REPL invokes a let that is no function, or @__main (repl.rs), an    *)
(* executable always @main.                                                *)
Target(st) == IF st.k = "Decl" THEN st.x ELSE "__main"
IsFunction(st, t) == st.k = "Decl" /\ t.f = "Fn"

(* The verifier may still reject the module; then there is no execution. *)
Runs(st) ==
  LET t == Check(ctx, st)
      l == Generate(t.e, module)
      repl == EmitEntryFunction(l.m)
      file == EmitMainWrapper(l.m, t.t)
      verified == Verify(repl) /\ Verify(file)
      means == Mean(st, meaning, source.input, Fuel)
  IN  /\ t.ok
      /\ l.ok
      /\ ctx' = t.c
      /\ program' = Append(program, t.e)
      /\ module' = l.m
      /\ meaning' = [names |-> means.names, whole |-> means.whole]
      /\ result' =
           [NoStatement EXCEPT
              !.status = IF verified THEN "executed" ELSE "execution error",
              !.t = t.t,
              !.answer = IF verified /\ ~IsFunction(st, t.t)
                         THEN Evaluate(repl, Target(st), source.input, Fuel) ELSE @,
              !.file = IF verified THEN Evaluate(file, "main", source.input, Fuel) ELSE @,
              !.value = means.value,
              !.whole = means.whole]
      /\ UNCHANGED source

IsNew(st) == st.k = "Decl" => \A i \in DOMAIN program : program[i].k = "Decl" => program[i].x # st.x

(* parse_with_prelude: the prelude's statements come first. *)
Continuations ==
  LET n == Len(program)
      prelude == source.prelude
  IN  IF n < Len(prelude) THEN {prelude[n + 1]}
      ELSE IF n < Len(prelude) + source.length THEN source.statements ELSE {}

Next ==
  \E st \in Continuations :
     /\ source.redefinitions \/ IsNew(st)
     /\ result.status \notin {"codegen error", "execution error"}
     /\ Reject(st) \/ LowerFails(st) \/ Runs(st)

Spec == Init /\ [][Next]_vars

-----------------------------------------------------------------------------
(* The state has the shape its description gives; every symbol that lets   *)
(* and builtins are called by is that of a function of the module with     *)
(* these parameters.                                                       *)
TypeOK ==
  /\ source \in Sources
  /\ result.status \in {"none", "type error", "codegen error", "execution error", "executed"}
  /\ \A i \in DOMAIN program : program[i].k \in {"Type", "Decl", "Expr"}
  /\ \A x \in DOMAIN module.syms :
       CallFits(module, x, Inputs(module.syms[x]), Output(module.syms[x]))

(* A program that type checks can be lowered, and the module passes the    *)
(* verifier: no specialization, capture, record, branch or conditional of  *)
(* it is ill typed.                                                        *)
WellTypedCompiles == source.supported => result.status \notin {"codegen error", "execution error"}

(* What a value of the compiled program stands for: the fields of a        *)
(* structure are those of the type's row, in its order.                    *)
RECURSIVE AsMeant(_, _)
AsMeant(v, type) ==
  LET t == DefaultFreeVars(type)
      fs == RecordFields(t)
      Payload(i) == module.enums[t.l].variants[i].fields
  IN  CASE t.f = "Unit" -> Number(0)
        [] t.f = "Str" -> Text(v.x)
        [] t.f = "List" /\ v.k = "cons" ->
             Node("cons", 0, "", <<AsMeant(v.s[1], t.a[1]), AsMeant(v.s[2], t)>>)
        [] t.f = "Rec" /\ v.k = "struct" ->
             Node("record", 0, "", [l \in {fs[i].l : i \in DOMAIN fs} |->
               AsMeant(v.s[FieldIndex(fs, l)], fs[FieldIndex(fs, l)].t)])
        [] t.f = "Enum" /\ v.k = "enum" /\ Payload(v.n) # <<>> ->
             Node("enum", v.n, "", <<AsMeant(v.s[1],
               PayloadMonotype([enum |-> t.l, index |-> v.n], t, module))>>)
        [] OTHER -> v

RECURSIVE FirstOrder(_)
FirstOrder(t) == t.f # "Fn" /\ \A i \in DOMAIN t.a : FirstOrder(t.a[i])

(* The compiled program does what the program means: the value the REPL    *)
(* asks for is the one that evaluation under lexical scope gives, and the  *)
(* same has been printed and read on the way.                              *)
Correct ==
  result.status = "executed" /\ result.value.k = "value" /\ FirstOrder(result.t)
  => /\ result.answer.k = "value"
     /\ AsMeant(result.answer.v, result.t) = result.value.v
     /\ result.answer.io = result.value.io

(* The executable does the same as the expressions of the program one      *)
(* after the other, and exits with the value of the last statement if that *)
(* is an int (stmt.rs, emit_main_wrapper).                                 *)
FileCorrect ==
  LET last == SE!Last(program)
      isInt == last.k = "Expr" /\ DefaultFreeVars(result.t) = TInt
  IN  result.status = "executed" /\ result.whole.k = "value"
      => /\ result.file.k = "value"
         /\ result.file.v = IF isInt THEN result.whole.v ELSE Number(0)
         /\ result.file.io = result.whole.io

(* What the REPL reads back from memory and shows is the value, for the    *)
(* types read_value knows.                                                 *)
RECURSIVE Shown(_)
Shown(t) ==
  t.f \in {"Int", "Float", "Bool", "Str"} \/ (t.f = "List" /\ (IsVar(t.a[1]) \/ Shown(t.a[1])))

ShownIsMeant ==
  result.status = "executed" /\ result.value.k = "value" /\ Shown(result.t)
  => Invoked(result.answer.v, result.t) = result.value.v

(* apply.rs:280: the cache makes sure that "each instantiation is emitted  *)
(* exactly once": every cached symbol is that of one function, emitted     *)
(* with the argument types of its key, and no two keys share it.           *)
CacheAgrees ==
  \A key \in DOMAIN module.spec :
     LET symbol == module.spec[key]
         ins == TypesOf(Function(module, symbol).args)
         k == Len(key[3])
     IN  /\ Cardinality({i \in DOMAIN module.funcs : module.funcs[i].name = symbol}) = 1
         /\ SubSeq(ins, 1, k) = key[3]
         /\ SubSeq(ins, k + 1, Len(ins)) = SubSeq(Inputs(LowerType(key[2])), 1, Len(ins) - k)
         /\ \A other \in DOMAIN module.spec : module.spec[other] = symbol => other = key

(* x occurs in e only as the root of applications to n arguments in tail   *)
(* position.                                                               *)
RECURSIVE TailCallsOnly(_, _, _)
TailCallsOnly(e, x, n) ==
  CASE x \notin FreeOf(e) -> TRUE
    [] e.e = "IfElse" ->
         x \notin FreeOf(e.cond) /\ TailCallsOnly(e.e1, x, n) /\ TailCallsOnly(e.e2, x, n)
    [] e.e = "Let" -> x \notin FreeOf(e.e1) /\ TailCallsOnly(e.e2, x, n)
    [] e.e = "Block" ->
         (\A i \in DOMAIN e.sts : x \notin FreeOf(e.sts[i].exp)) /\ TailCallsOnly(e.exp, x, n)
    [] e.e = "Match" ->
         /\ x \notin FreeOf(e.exp)
         /\ \A i \in DOMAIN e.cases : TailCallsOnly(e.cases[i].exp, x, n)
    [] e.e = "Application" ->
         LET call == CollectApplicationRoot(e, <<>>)
         IN  /\ call.root.e = "Variable" /\ call.root.x = x
             /\ Len(call.args) = n
             /\ \A i \in DOMAIN call.args : x \notin FreeOf(call.args[i])
    [] OTHER -> FALSE

(* The lets of a term that bind lambdas. *)
RECURSIVE LambdaLets(_)
LambdaLets(e) ==
  LET Own(x, b) == IF b.e = "Abstraction" THEN {<<x, b>>} ELSE {}
      In(es) == UNION {LambdaLets(es[i]) : i \in DOMAIN es}
  IN  CASE e.e \in {"Variable", "Literal"} -> {}
        [] e.e = "Abstraction" -> LambdaLets(e.body)
        [] e.e \in {"Unary", "FieldAccess"} -> LambdaLets(e.exp)
        [] e.e = "Record" -> In(Expressions(e.fs))
        [] e.e = "With" -> LambdaLets(e.exp) \cup In(Expressions(e.fs))
        [] e.e = "Let" -> Own(e.x, e.e1) \cup In(<<e.e1, e.e2>>)
        [] e.e = "IfElse" -> In(<<e.cond, e.e1, e.e2>>)
        [] e.e = "Block" ->
             LambdaLets(e.exp) \cup In([i \in DOMAIN e.sts |-> e.sts[i].exp]) \cup
             UNION {Own(e.sts[i].x, e.sts[i].exp) :
                      i \in {j \in DOMAIN e.sts : e.sts[j].k = "Decl"}}
        [] e.e = "Match" -> LambdaLets(e.exp) \cup In([i \in DOMAIN e.cases |-> e.cases[i].exp])
        [] e.e = "List" -> In(e.es)
        [] OTHER -> In(<<e.e1, e.e2>>)

StatementLets(st) ==
  CASE st.k = "Type" -> {}
    [] st.k = "Expr" -> LambdaLets(st.exp)
    [] st.k = "Decl" -> LambdaLets([e |-> "Let", x |-> st.x, e1 |-> st.exp, e2 |-> st.exp])

(* tail.rs:7: a self tail call is a branch, "so the recursion runs in      *)
(* constant stack space": where every recursive call of a program is a     *)
(* self tail call, no more calls are ever active than there are functions, *)
(* however often they loop.                                                *)
ConstantStack ==
  (\A i \in DOMAIN program : \A b \in StatementLets(program[i]) :
      TailCallsOnly(PeelInner(b[2]), b[1], Len(AbstractionParams(b[2]))))
  /\ result.file.k = "value"
  => result.file.deep <= Len(module.funcs) - Len(InitialModule.funcs) + 2

=============================================================================
