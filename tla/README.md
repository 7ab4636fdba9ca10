# A verification project for Merlin

Merlin is a small ML-like language: a Rust program parses a source text, infers
types with Algorithm W, lowers the typed syntax tree to an MLIR module, and
either executes the module in a JIT (the REPL) or writes an object file and
links it. This directory holds TLA+ models of that program, the configurations
that check them with TLC, and proofs checked by TLAPS. Paths below are relative
to the repository's root, e.g. `src/types.rs`; `PROJECT.json`, whose paths have
one `src/` more in front, names for every definition the lines it was translated
from.

One process is sequential: no threads, no messages. Most of what is hard about
it is of another kind: state that is mutated, cloned and restored while a term
is walked (the typing context), fresh names that must stay fresh, substitutions
that must be applied at the right time, a cache that outlives what it caches and
is read while it is being filled, names resolved by several tables in several
orders, code generated at the place of use instead of the place of definition,
and a session that must survive errors in each of its phases. Several compilers
at once, though, share a file system with each other, with the editor of the
sources and with what killed ones have left behind.

## The system

| part | state it keeps | operations | what makes it correct |
|---|---|---|---|
| Parser, syntax tree (`grammar.lalrpop`, `ast.rs`) | none | parse | syntax only |
| Type terms and unification (`types.rs` 14-300, 405-530) | substitutions | apply, combine, unify, unify_row | solutions are sound, most general, acyclic |
| Typing context (`types.rs` 301-404) | bindings, a counter of type variables | fresh, instantiate, generalise, clone and restore | nothing is captured, accepted types never change |
| Inference (`types.rs` 560-1351) | the context, types written into the tree | algo_w and its infer_* functions, patterns, type declarations, statements | inferred types are derivable and principal; a failed statement leaves no trace |
| Code generator (`codegen/`) | a module: functions, registered lambdas, cache of specializations, inlineable lets, counters | lower, lower_expr, specialize_binding, lower_tail, ... | accepted programs compile, and compute what they mean |
| Runtime builtins (`codegen/stmt.rs` 120-1000) | functions and externs of the module | register_runtime_builtins and one emit_ function each | conversions and I/O do what their types say |
| Execution (`codegen/execute.rs`) | none of its own | verify and run passes, execute, invoke, read a value back, dump an object file | the value belongs to the statement and is the one in memory |
| REPL (`repl.rs`) | accumulated statements | one line after another | type errors are rolled back, no error ends the session |
| Driver (`main.rs`) | the file system: source, object file, executable; an exit code | parse, typecheck, lower, compile and link, or enter the REPL | the executable is that of the program read, the exit code tells the truth, no object file is left behind |
| Prelude, display, editor grammar | none | a source text, formatting, highlighting | |

How they interact: the driver, or the REPL for every line, hands the statements
to `Program::typecheck`, which goes through them in order, each in a clone of the
program's context, and writes types into the tree. `codegen::lower` goes through
the typed statements in order with one module, which starts with the runtime
builtins. `execute` verifies that module and calls its entry function, which
evaluates all expression statements, or the function of a scalar let. In the
REPL everything happens again for all the statements accumulated since the
session began. `compile` puts a `main` around the entry function, writes the
object file `merlin_{pid}.o` into the temporary directory, and the driver runs
`cc` on it and removes it.

The hazards this implies are listed in `PROJECT.json` at the line where each
bites, with the properties that would show it.

## The modules

**Names: `TypeContext`, `MCTypeContext`, `TypeContextProofs`.** A state machine
over the calls that the checker makes on a context, in any order and nesting
that recursion over some program can produce. A type is abstracted to the set
of its type variables. `schemes` is `TypeContext::variables`, `ctr` the counter,
`live` the variables of the types that W holds on its stack, `scopes` the
pending calls that will restore a binding (a lambda, a let) or a whole clone
(a match case), `base` the context a failing statement falls back to.
`OpenBinder/CloseLambda/CloseLet`, `OpenCase/PatternVariable/CloseCase`,
`Generalise`d lets, `Variable` (instantiation), `Unify`, `BeginEnum` and
`Constructor`, `Commit` and `Fail` are the steps.

**Unification: `Monotype`, `Types`, `TypeMeaning`, `Unification`,
`MCUnification`, `SequenceFold`, `TermFold`, `UnificationProofs`.** A term is `[f, l, a]` (constructor, label, arguments);
`Monotype` has the constructors. There are two models of what `types.rs` does
with terms. `Types` holds its functions as they are written, recursive, and the
checker is built from them. `Unification` is a state machine of the calls of
`unify` and `unify_row`: `todo` has the pairs that are still to be unified, in
the order of the calls, `sub` the bindings in the order in which they are made,
`ctr` is the counter of the context, and every step is one call without the calls
it makes (`Identical`, `Variable`, `Clash`, `Arguments`, `Records`, `EmptyRows`,
`SameLabel`, `OtherLabel`, one for each arm). `Equate` is Algorithm W asking for
one equation more under the substitution of the ones before; which equations
can be asked for are constants (`Equations`, `EquationVars`), so that inference
can be another that asks. `tails` is
auxiliary: what the fresh tail of an `OtherLabel` stands for. `MCUnification`
compares the state with what `Types` and `Substitution::combine` compute
(`AgreesWithUnify`), so that what is proved about the one is known of the other
where TLC has compared them.

`TypeMeaning` says which terms there are, up to a depth, and what they mean: a row
is a stack of types for every label, whatever the order of the labels, and every
meaning has a size. `FreeVariables`, `Apply` and `Meaning` are folds: recursive
functions with an induction of their own, because `RECURSIVE` operators are out
of the provers' reach. `SequenceFold` and `TermFold` are those folds, with the
equation they satisfy, proved once and for all.

**Inference: `Infer`, `TypingRules`, `TypeChecker`, `Syntax`, `MCTypeChecker`,
`Inference`, `MCInference`, `InferenceProofs`.** There are two models here, too.
`Infer` is Algorithm W, each `infer_*` function an operator from a context and a
term to a context, a substitution, a type and the typed term. `TypingRules` is
the specification: the rules of `docs/typerules.md` without type variables, a
set of ground types out of a finite universe for each expression.
`TypeChecker` runs statements through both. `Syntax` has constructors for terms,
for the MC modules.

`Inference` is the core of Algorithm W (literals, variables, functions,
applications, recursive lets, branches, cons, operators) as a state machine on
top of `Unification`. An expression is a tree of numbered nodes; the calls of
`algo_w` in progress are the open nodes, the innermost the one that `Runs`, and
every `infer_*` function is an action with one disjunct for each stretch between
its calls (`part` counts the parts called, `asked` the unifications asked for). A
step of W waits until `todo` is empty. `ctx` is the context, `old` what a binder
has saved, `allocated` the counter. Substitutions are not returned: those of W
are the bindings of `Unification`, and types are read under them (`Typ`).
`scheme` and `inst` are auxiliary: what a let has generalised and under which new
names, and what an instance has put for them. The programs are bound to what
this leaves out: a let redefines no name in scope, since its name stays in the
context after it (`LetsAssumption`), and there are no records (`MaxFresh = 0`),
as the fresh row variables of `unify_row` come from the same counter.
`MCInference` compares the outcome with what `Infer` computes
(`AgreesWithInfer`). Blocks, list literals, matches, records, patterns and
declarations are in `Infer` only.

**Code generation: `Terms`, `Emission`, `Runtime`, `Lowering`, `Execution`,
`Semantics`, `Compiler`, `MCCompiler`.** A chain of pure functions and the
machine that composes them.

- `Terms` has the traversals (`free_variables`, `has_self_tail_call`, ...).
- `Emission` is what lowering writes: LLVM types, operations, functions, and the
  module's tables (symbols, externs, string globals, enums, counters). Operations
  are records, blocks sequences of them; the addresses that loads and stores
  compute are abstracted to the fields of structures, lists, enums and closures.
- `Runtime` has the builtins, each the library calls its `emit_` function emits.
- `Lowering` follows `apply.rs`, `tail.rs`, `expr.rs`, `lists.rs`, `enums.rs`,
  `records.rs`, `closures.rs`, `types.rs` and `stmt.rs`: environments with values
  and lambdas, registered lambdas, specialization and its cache, captures,
  partial applications, wrappers, closures, conditionals, matches, record layout
  from the row of a type, strings, floats, tail calls as branches, statements,
  the entry function and the `main` around it.
- `Execution` is external except for `run_passes`, `execute`, `invoke`,
  `read_list` and `read_value`: what the MLIR verifier accepts of these
  operations, what they compute, with 32-bit integers, and what libc's functions
  do with the input and output of the program.
- `Semantics` is the specification: call-by-value evaluation of the untyped term
  under lexical scope, with input and output.
- `Compiler` composes inference, lowering, verification and execution, statement
  after statement, beside the meaning of the program. `answer` is what the REPL
  invokes for a statement, `file` what an executable of the program does, `value`
  and `whole` what both should be. The passes are parameters of it, as the
  checker and the rules are of `TypeChecker`; the configurations give
  `Typecheck`, `LowerStatement`, `Verified`, `Execute` and `Meaning` for them. A
  statement whose lowering or verification fails ends the program; execution is
  bounded by `Fuel`.

**The cache: `Specialization`, `Instantiation`, `MCSpecialization`,
`SpecializationProofs`.** `Lowering` computes one module from one program.
`Specialization` is the same cache as a state machine over every program: the
functions that are being lowered are a stack (`pending`), since lowering the body
of one may begin the next, and an error in the middle abandons all of them
(`status`). Of a body only how many uses, lets and lambdas it consists of is
kept, of a type that it is another type; which lambda a name stands for when it
is declared twice is left to `Compiler`. `specializations`, `spec_counter`,
`let_counter`, `closures`, `abstractions` and `functions` are the fields of
`Module`. `Instantiation` is the abstract promise, an instance is absent, asked
for, or emitted; the refinement mapping reads that off the cache and the
functions.

**REPL: `Repl`, `Session`, `MCRepl`, `ReplProofs`.** The loop with a program
counter (prompt, check, lower, execute, exited, aborted), the accumulated
statements and the line. Whether a statement checks or can be lowered after others is a
constant operator: both passes go through the program in order and stop at the
first error, and nothing else about them matters to the loop. The loop catches no
panic, so one ends the process (`aborted`): that of the parser on an integer
literal that does not fit (`LiteralOverflow`), that of the code generator where
`Panics` says so of the first statement it does not lower, and the `todo!()` of
`render_type` on a type with a record in it (`renders`), which comes after the
function was accepted or the code has run. `Session` is the
abstract specification, a program that grows by whole well-typed lines; the
refinement mapping (`Kept`) hides the statements of a line while it is checked.

**Driver: `Driver`, `MCDriver`, `DriverProofs`.** Any number of processes, each
with a program counter in `main`, in one file system. `Invoke` starts one, under
a process id that an ended one may have had; `Read` to `Report` are the phases,
each with its exit code; `Leave` is the end of a session, `Kill` may happen at
any step, `Edit` changes a source at any time. `cc` is external: it makes the
executable in one step, or fails and may remove it; the `cc` of a process that is
killed goes on, which is decided at the kill. `dump_to_object_file` may write
nothing and does not tell. That `remove_file` succeeds on a file that exists is
assumed. A process enters a session (`--repl`, or no file) here and behaves there
as `Repl` says; `OnlyChecked` is what `Repl` assumes about its first program.

## The runs

| run | bounds | distinct states | checks |
|---|---|---|---|
| `context` | 2 names (symmetric), 4 type variables, nesting 1, one annotation variable | 54,300 | `TypeOK`, `NoCapture`, `SchemesIntact`, `AllocatesUnused` |
| `unification` | 3 equations of 36, over 2 type and 3 row variables and up to 4 fresh ones, depth 8, 48 valuations | 15,796 | `TypeOK`, `Acyclic`, `Sound`, `MostGeneral`, `RejectsUnsolvable`, `AgreesWithUnify` |
| `type_checker` | two kinds of programs: of 3 statements over functions, of 4 over enums, lists and records | 8,385 | `Sound`, `Principal`, `ContextAgrees` |
| `inference` | 22 expressions of up to 15 nodes, 12 type variables, depth 6, 3 valuations | 599 | `WellTyped`, `QuantifiedStay`, `AgreesWithInfer` |
| `repl` | 3 accumulated statements, 20 lines, 2 initial programs | 33,334 | `TypeOK`, `KeptWellTyped`, `ValueIsOfTheLine`, `ImplementsSession`, `BrokenForGood`, `PromptReturns` |
| `compiler` | four kinds of programs, of 3, 2, 2 and 3 statements of their own; loops to 8, 40 units of fuel | 1,712 | `TypeOK`, `WellTypedCompiles`, `Correct`, `FileCorrect`, `ShownIsMeant`, `CacheAgrees`, `ConstantStack` |
| `specialization` | 2 statements, a lambda with a body of 2 steps, a local one, 1 type, 2 lists of captures | 134,060 | `TypeOK`, `EmittedOnce`, `Resolved`, `ImplementsInstantiation`, `LoweringEnds` |
| `driver` | 2 process ids, 3 starts, 1 source, 4 texts | 428,513 | `TypeOK`, `OwnProgram`, `NoObjectLeft`, `Verdict`, `OnlyChecked`, `EveryRunEnds` |
| `type_checker_constructor` | 2 statements | | `Sound` is violated |
| `repl_comment` | as `repl` | | `CommentsAreSkipped` is violated |
| `compiler_shadow`, `compiler_layout` | 3 statements | | `Correct` is violated |

What they show:

- `context`: `NoCapture` says that nothing quantified in a stored polytype is in
  use; `SchemesIntact` that an accepted polytype is never changed by a later
  unification although `Polytype::apply` substitutes without looking at
  quantifiers; `AllocatesUnused` that a name the counter gives is new, also
  after the clones of match cases. Two names suffice for one binding to be
  hidden by another while a third scope's variable is in use, 4 variables for
  two generalisations with an instantiation between them. The theorems below
  remove the bounds.
- `unification`: equations are chosen so that a row meets an equal, a shorter, a
  permuted and a closed one, and a type variable occurs below itself. `Sound`
  and `MostGeneral` say that the bindings have exactly the solutions of the
  equations, among valuations that give different types to a type variable, and
  to a row variable the empty row or one with a label no equation mentions.
  A system is rejected only if none of them solves it or a row variable has met
  itself (`RejectsUnsolvable`), the case of `MCUnificationReflexive` below.
  `AgreesWithUnify` is the comparison with the recursive functions, after every
  equation and at every rejection. The bounds `MaxDepth` and `MaxFresh` are in
  the guards (`Within`, `OtherLabel`) and cut nothing off here: no type of the
  run is deeper than 8, and three fresh variables are the most that are used.
  They are there because `unify_row` does not return on two records that share
  their tail but not the label in front of it. No program builds such a pair, a
  row variable follows the same labels wherever it occurs, and no equation of the
  run does.
- `type_checker`: `Sound` and `Principal` together say that
  inference accepts what the rules accept with exactly the same types, within a
  universe of ground types that holds every instance the programs can tell
  apart; `ContextAgrees` that after any sequence of accepted and rejected
  statements the context and the environment of the rules give a name the same
  types. `Small` is the part of the universe whose derivations do not leave it.
  The programs avoid what the last section lists, where code and rules differ.
- `inference`: `WellTyped` says that at every node that is done the types are
  what the rule of its kind wants, under all that has been learnt since and
  whatever the variables that are left stand for; that a variable has an instance
  of what its environment has for the name; and that a let generalises no variable
  its environment has. The environment is read off the tree (`Scope`, `Source`),
  not off the context, which the code changes and restores. `QuantifiedStay` is
  the comment at `types.rs:384-389`: nothing quantified is ever bound.
  `AgreesWithInfer`: the recursive functions accept the same expressions with the
  same types and allocate as many variables. The expressions are chosen so that a
  let may generalise all, some and none of the variables of a type, under and
  outside a lambda, that a name is shadowed, that a recursive let is used at one
  type inside and at several outside, and that each way of being rejected occurs.
  The bounds cut nothing off: every expression is inferred to its end or
  rejected, with at most 12 variables and no type deeper than 6.
- `compiler`: `WellTypedCompiles` says that what type checks is lowered and
  passes the verifier; `Correct` that what the REPL invokes computes the value
  the term means and prints and reads the same on the way; `FileCorrect` that an
  executable does what all its expressions do in order, and exits with the last
  value if that is an integer; `ShownIsMeant` that the value read back from
  memory is that value; `CacheAgrees` that every specialization is emitted once,
  with the types of its key; `ConstantStack` that a program whose recursive calls
  are all tail calls never has more active calls than functions, however often it
  loops. There are four kinds of programs. *Functions*: polymorphic functions at
  two types, loops with and without accumulators, local functions with captures,
  an inner function with the name of the outer, partial application, lists,
  enums, blocks, short-circuits. *Records*, after a common beginning: layouts of
  named and anonymous rows, updates, field access and patterns through functions
  of any record, records in lists and enums. *Texts*: strings, floats,
  conversions, the least integer, builtins as arguments, a let that reads a line
  at every use, output in a loop. *Limits*: closures, functions in lists,
  unsupported partial applications, which the code generator may refuse, but what
  it emits is right. Programs do no I/O inside list and record literals: their
  elements are evaluated last to first, or in the order of the row, and no
  document gives an order. Loops of 8 need more than the functions a program has,
  which is what `ConstantStack` counts, and less than the fuel.
- `specialization`: `EmittedOnce` says that no instance and no symbol is emitted
  twice, `Resolved` that a module that is handed over has every function it
  calls, although functions are called before they are finished and an error
  leaves them half done; `ImplementsInstantiation` is the refinement;
  `LoweringEnds` that lowering ends, which it does only because an instance is in
  the cache before its body is lowered. `MaxSymbols` is 20 and is never reached:
  `LoweringEnds` would fail if it were (`FewSymbols` bounds it for any program).
  A body of two steps is a use followed by
  another, or a let followed by a use of what it binds; two captures are the
  smallest number with which one lambda has two keys at one type.
- `repl`: a line is kept as a whole or not at all (`ImplementsSession`), the
  rollback is exact (`KeptWellTyped`), the value printed is that of the line's
  own last statement (`ValueIsOfTheLine`). `BrokenForGood` states what the code
  does after a codegen error: its statements stay, and no later line is answered
  with a value. `PromptReturns` is the liveness property: every line that was
  parsed is answered and the prompt returns, unless the accumulated statements are
  `Fatal`: they type check, and the code generator panics at the first of them that
  it does not lower, as for `id id 1`, or the type to be displayed has a record in
  it, as for the declaration of a function over records. Such lines do end the
  process in the model as in the code; the run has one of each kind, and a function
  that makes the code generator panic only where it is used. A function declaration is lowered but nothing is invoked; a
  scalar let invokes only its own symbol; a type that cannot be read back is an
  error before anything is invoked.
- `driver`: `OwnProgram` says that a process that reports success has linked what
  it has read, whatever others, an editor or a kill do in between; `NoObjectLeft`
  that only killed processes leave object files; `Verdict` that the exit code is
  that of the first phase that fails; `OnlyChecked` that nothing gets into an
  object file, an executable or a session without passing every phase before;
  `EveryRunEnds` that a process ends or reaches its prompt. Two ids and three
  starts are two processes at once, one of which dies and has its id used again.
  A process that found an object file of its own name (`found`) is exempt from
  the first two: there the code relies on overwriting it, and may link the old
  one.

Deadlock is not checked where the behaviours end by design: a program has a
bounded number of statements, a run of equations ends with a failure, a session
with `exit`, lowering with a module or an error.

Fairness. `Repl` has `WF_vars(Handle)`, where `Handle` is the part of the loop
after a line has been parsed: it is sequential code without waiting, so it runs
on; this does assume that the code of the session returns when it is executed,
which nothing in the REPL enforces, and that it can write its answer (`println!`
panics if it cannot). After an abort no step of it is enabled. `Specialization` has weak fairness on the
steps of lowering, one call that nothing interrupts; it asks neither for
declarations nor for errors. `Driver` has `WF_vars(Step(p))` for every process:
the operating system lets each run, and `cc` returns. There is no fairness on
reading, typing, starting, killing, editing or leaving a session: nobody has to.

## The theorems

`TypeContextProofs` proves, for every set of names, any bound on variables and
nesting, and every set of annotation variables that are no names of the counter
(`UserVars \cap Nat = {}`): `TypeCorrect` (`TypeOK`), `Hygiene` (`NoCapture`),
`PolytypesSurvive` (`SchemesIntact`) and `FreshNames` (`AllocatesUnused`).
`NoCapture` is not inductive: it says nothing of the contexts a scope or a
failed statement will bring back. The invariant `IInv` says that there is a set
Q of variables, all older than the counter, that were spent on quantifiers: what
any context binds is in Q, and what is free in any context, saved scope or type
in hand is not. Unification moves only variables in use, so it stays out of Q;
generalisation extends Q by names newer than everything; a failed statement
returns to the Q of its own base.

`UnificationProofs` proves, for any equations, constructors, labels, valuations
and bounds: `TypeCorrect` (`TypeOK`), `NoCycle` (`Acyclic`), `Soundness`
(`Sound`), `NothingMore` (`MostGeneral`) and `NothingSolvable`
(`RejectsUnsolvable`). Soundness and generality are statements about the end of
an equation; in the middle of one, what has been learnt is in the bindings and
what is still to be learnt in the list of calls. The invariant says that the two
together are neither less nor more than the equations. `NothingLost`: a valuation that solves the equations, extended to the fresh row
variables by what `tails` says they stand for, solves the pairs and the bindings.
`NothingAdded`: any valuation that solves the pairs and the bindings solves the
equations. Under them are the type invariant, `Acyclic`, `Composed` (applying the
bindings one after another removes every bound variable, and keeps the meaning
under any valuation that respects them) and `OnlyKnown` (all variables are those
of the equations or fresh). The rest is about meanings: two rows with different labels
in front have the same meaning exactly if each has the other's field and what is
left is the same, which is what `OtherLabel` splits them into; and a term is
larger than a variable that occurs in it, so the occurs check rejects only what
has no finite solution. The assumptions on the constants are that type and row
variables are apart and `Constructors` are not those of rows
(`SortsAssumption`), that equations relate types within the bound
(`EquationsAssumption`), that `new_typevar` repeats nothing and gives no variable
of the equations (`FreshAssumption`, what `TypeContextProofs` proves of the
context), and that valuations give finite meanings, closed under taking a field
off a row (`RowsAssumption`, `ValuationsAssumption`).

These lemmas come first in `UnificationProofs`, by induction over terms. The library's
induction theorems take operators as parameters, which the provers cannot
instantiate; here a property is the set of the terms that have it, and
`TermInduction` says that a set of terms which contains every term whose
arguments it contains is all of them. `TermFold` (`FoldEquation`) and
`SequenceFold` (`FoldAppend`) prove of any fold that the recursive function
exists, so that it can be computed by its equation.

`InferenceProofs` proves, for any expressions of the core language, names,
builtins of closed types and valuations: `Derivation` (`WellTyped`),
`QuantifiersUntouched` (`QuantifiedStay`), `InferenceUnifies` (inference is an
instance of unification, step by step, with any pairs of types for equations) and
`InferenceSound` (so `Sound`, `MostGeneral` and `RejectsUnsolvable` hold all along
inference). `WellTyped` is far from inductive: that an instance stays one when
the next unification binds a variable depends on which variables that may be.
The invariant `WInv`, besides that of unification, has

- the tree of calls (`CallsOK`, `Chain`), what is in scope where (`ScopesOK`), and
  that the context is that of the innermost call's scope (`ContextOK`);
- types, their variables, and that what a node has asked for is among what
  unification has solved (`WTypeOK`, `WithinW`, `NamesOK`, `AnswersOK`);
- who has which variables: two calls in progress share one only if it is free in
  the environment of the inner (`Separate`), the pairs of `todo` are in variables
  of the innermost (`Running`), and what a let has quantified is free nowhere and
  bound by nothing (`Spent`);
- the result: a polytype means what the type means that it was made of
  (`SchemesOK`), an instance what its source does but for the quantified
  variables (`InstancesOK`), and nothing quantified is in an environment
  (`GeneralOK`).

`Separate` is what makes a let right although `generalise` looks at the context
alone: a variable that it quantifies is in no type that a caller holds on its
stack. A step of unification replaces a variable by a type in variables of the
innermost call, which keeps `Separate`; a call that returns gives its variables
to its caller. Assumed of the constants are that expressions are trees, that
`Scope` is lexical, the two limits above (`LetsAssumption`,
`RecordsAssumption`), that builtins are closed and that `new_typevar` repeats
nothing (`CounterAssumption`); `MCInference` evaluates all of them. It is not
proved that W finds a derivation wherever there is one, or that what it finds is
principal: `Principal` of `type_checker` checks that.

`ReplProofs` proves, for every language (`Statement`, `Checks`, `Lowers`, `Panics`
are arbitrary): `TypeCorrect` (`TypeOK`), `Rollback` (`KeptWellTyped`), `ValueShown`
(`ValueIsOfTheLine`), `Refinement` (`ImplementsSession`), `NothingRepairs`
(`BrokenForGood`) and `OnlyPanicsEnd`, the safe half of `PromptReturns`: once a
line is parsed the process ends only for `Fatal` statements (`OnlyFatalAborts`).
The invariant says
where the statements of the current line are: at the end of the accumulated
ones, behind a well-typed program, from `Parse` to the end of `Typecheck`; so
taking off as many as the line had gives that program back. `NothingRepairs`
rests on this and on one fact about lists: a program that begins with a kept one
that fails, fails. The assumption about the start is that the driver has type
checked and lowered the program of the file (`FileAssumption`).

`SpecializationProofs` proves, for any lambdas, types, captures, sizes of bodies
and numbers of statements: `TypeCorrect` (`TypeOK`), `OnceEach` (`EmittedOnce`),
`Complete` (`Resolved`) and `Refinement` (`ImplementsInstantiation`). None of
them is inductive: that a function is not emitted again has to be known while it
is still being lowered. The invariant has four parts: `Shape` (types), `Bodies`
(what every function, finished or in progress, is cached under, and that its
number comes from a counter), `Distinct` (no symbol twice, in the stack and the
module together) and `Linked` (every symbol in the cache or in a call is made,
that is emitted or in the stack). A module is handed over when the stack is
empty, and then made means emitted.

`Descent` is the variant behind `LoweringEnds`: every step of lowering makes the
natural number `Remaining(m)` smaller. A body in the stack weighs twice the steps
it has left and one, and one more if it still has to be wrapped; a statement to come and an
instance that is not in the cache weigh as much as the largest body. A use may
begin a body, but only of an instance that leaves `Uncached` in the same step,
since the cache is written before the body is lowered (apply.rs:280-282).
`FewSymbols` adds that a step makes at most one function, which bounds the
functions of a program by what `Remaining` is at the start. Both assume `Finitary(m)`:
`m` bounds the sizes of bodies, and there are finitely many lambdas, types and
captures. A program has finitely many lambdas; that they are used at finitely many
types is inference's doing, which gives a recursive use the type of the lambda it
occurs in, and is assumed of the constants here, not derived.

`DriverProofs` proves, for any number of processes, files and texts and any
outcome of the phases: `TypeCorrect` (`TypeOK`), `CompilesItsOwn` (`OwnProgram`),
`LeavesNoObject` (`NoObjectLeft`), `TellsTheTruth` (`Verdict`) and `ChecksFirst`
(`OnlyChecked`). The invariant says of each process what it knows where it is:
`Passed` (the phases behind it), `Own` (its object file and what was linked are
its own program's) and `Judged` (its exit code), and of all files that they hold
checked programs. A step of one process changes only what `Fits` says of that
process, because the object file carries its id. With `ChecksFirst` the
assumption of `ReplProofs` about the start holds of every session the driver
opens.
`OnlyEdited` proves `SourcesIntact` where no source has the name of an
executable (`Apart`); without that it fails (`MCDriverOverwrite` below).

Only model-checked: liveness (`PromptReturns`, `EveryRunEnds`, and `LoweringEnds`,
of which `Descent` proves the variant but not that a step is taken);
`AgreesWithUnify` and `AgreesWithInfer`, one side of which is recursive operators;
and everything that `TypeChecker` (`Sound`, `Principal`, `ContextAgrees`) and
`Compiler` (all seven properties of its run) say of inference of whole programs,
lowering and execution, which are such operators over terms. That unification ends is not a property: it does not where
two records share a tail (see `unification` above).

## Where the code departs from its documents

Each of these has a configuration whose run ends in the counterexample. Four are
the findings of `PROJECT.json`:

| configuration | what it shows |
|---|---|
| `MCTypeCheckerConstructor` | `match Some 1 \| Some x => (if x then 1 else 0) \| other => 0` is accepted: the last substitution of a constructor pattern is not applied to the context (`src/types.rs:1151`, `docs/typerules.md:174`) |
| `MCReplComment` | a line that is only a comment evaluates the session's expressions again (`src/repl.rs:71`) |
| `MCCompilerShadow` | a parameter called like a top-level function does not shadow it when applied (`src/codegen/apply.rs:446-457`) |
| `MCCompilerLayout` | a field of a record parameter without annotation is taken from another position: `let gety = \r => r.y` gives the `x` of a record declared `{x, y}` (`src/codegen/types.rs:41-43`) |

The others are run by hand, `tlc -config X.cfg M` with `M` the MC module the name
begins with:

| configuration | what it shows |
|---|---|
| `MCTypeContextAnnotations` | an annotation `'t2` is caught by the counter: an accepted polytype changes (`SchemesIntact`; comment at `src/types.rs:387-389`) |
| `MCUnificationReflexive` | an open record type is not unified with itself, `\r => if r.b then r else r` is rejected (`Reflexive`; `docs/typerules.md:6`) |
| `MCReplAppend` | after a codegen error no line is accepted any more (`BindingsCanBeAppended`; `src/codegen/stmt.rs:24-25`) |
| `MCDriverOverwrite` | a source whose name has no extension is overwritten by its executable (`SourcesIntact`; `src/main.rs:104`) |

and `MCTypeCheckerConstructor.cfg` with another `Vocabulary`, as
`ConstructorVocabulary` is made of its statements (`Differing`; those of lists and
arithmetic with `FunctionSmall` for its `small`), and another invariant, or
`MCCompilerShadow.cfg` with other `Sources` and invariant:

| statements or programs | what they show |
|---|---|
| `ScopeStatements` | the name of an inner let stays in the context of the program (`InnerNamesEnd`; `docs/typerules.md:141`) |
| `GeneralisationStatements` | such a name keeps an outer let from being generalised (`Principal`; `docs/typerules.md:209-217`) |
| `ListStatements` | a list of an integer and a boolean is accepted (`Sound`; `docs/typerules.md:154`) |
| `ArithmeticStatements` | `*` on operands whose type is still a variable is accepted at any type (`Sound`; `docs/typerules.md:97`) |
| `ExhaustiveStatements` | a nullary constructor counts as a catch-all (`Sound`; `docs/typerules.md:174`) |
| `RecordMatchStatements` | the record match of the README's example is not exhaustive for the checker (`Principal`; `README.md:55-58`) |
| `RedefinitionPrograms` | a function defined again is still called in its old definition (`Correct`; `src/codegen/apply.rs:305`) |
| `PartialPrograms` | arguments of a partial application are evaluated in the scope of the wrapper (`Correct`; `src/codegen/apply.rs:628`) |
| `NamePrograms` | a program's own `let_0` is overwritten by the name the code generator gives to a local lambda (`Correct`; `src/codegen/apply.rs:135`) |
| `ClosurePrograms` | a lambda with a capture cannot be passed as an argument (`WellTypedCompiles`; `README.md:35`) |
| `PipedPrograms` | of two lines that arrive in one read, `readin` loses the second (`Correct`; `src/codegen/stmt.rs:823`, "Reads one line from stdin") |
| `EqualityPrograms` | `==` on strings type checks and cannot be lowered (`WellTypedCompiles`; `docs/typerules.md:107`) |

Further limits met while modelling, which the programs of the runs avoid: field
access on a record that a constructor pattern binds, and an annotated let of a
record or alias type, fail to lower or to verify; literal patterns of strings and
floats fail the verifier; an integer literal beyond 2^31-1 is a panic
(`src/grammar.lalrpop:259`), and so are an application to more arguments than the
lambda has parameters where it is instantiated at a function type, `id id 1`
(`src/codegen/apply.rs:604`), and the display of a record's type
(`src/display.rs:52`): `Compiler` has an error value for the second, which ends
the program there, while `Repl` tells the two apart; the arguments
of a partial application are evaluated again at every call; `let main = ...`
clashes with the entry point of an executable only; the value of `print ...` is
the number of bytes `printf` returned.
`specialize_binding` unifies in a new context whose counter starts at 0
(`src/codegen/apply.rs:315`); this is no hazard, as the concrete type is an
instance with its labels in the same order, so that `unify_row` never allocates.

## What is not modelled

- The parser and `ast.rs`: generated code and a syntax tree; the models start
  from trees. What a line of the REPL parses to is an input of `Repl`.
- The formatting of types and trees (but see `renders` in `Repl`), positions in error messages, the editor
  grammar.
- The prelude's text: it is a program in the language, put before the user's, and
  adds no operation. The `compiler` run has programs with statements in front and
  functions of the same forms (recursion over lists, folds by tail calls,
  options).
- The addresses memory operations compute, except where the code depends on them
  (`read_list`): a structure has fields, a buffer holds a text. `print` of a text
  with a percent sign is undefined in `Execution`.
- What happens to a session whose code does not return, traps or exhausts the
  stack.

## Order of the work, and what could follow

The most important behaviour came first: names, unification, inference, the REPL
with its abstract session, code generation of functions and data, proofs about
the context and the REPL; then records, texts, builtins and execution as REPL and
executable, the cache as a state machine of its own with its abstraction, the
driver with its processes, and the proofs about both; then unification call by
call, with the theory of terms and rows that its proofs need, and Algorithm W on
top of it.

What could follow: blocks, matches and records in `Inference`, whose scopes are
clones of the context instead of saved bindings, and that its types are principal;
a bound on the number of calls of `unify` for equations in
which a row variable follows the same labels everywhere; the names of `Compiler`
(shadowing, generated symbols) as a state machine with a resolution proof for
programs without clashes; the functions of the prelude as programs with expected
results, which takes a less deeply nested evaluator than `Execution`.
