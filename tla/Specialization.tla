--------------------------- MODULE Specialization ---------------------------
(***************************************************************************)
(* The functions that the code generator makes where lambdas are used      *)
(* (apply.rs: specialize_binding, lower_partial_application, bind_in_env,  *)
(* lower_abstraction; stmt.rs: lower), over any program.  Lowering a use   *)
(* may begin another function before the one at hand is finished, so the   *)
(* state holds the functions that are being lowered as a stack.  Of a body *)
(* only the lambdas it uses count, of a type that it is another type.      *)
(***************************************************************************)
EXTENDS Integers, Sequences

CONSTANTS
  Names,          \* names of top-level lambdas
  Types,          \* concrete types
  Captures,       \* lists of types of captured variables,
  NoCaptures,     \* the empty one among them
  Anonymous,      \* stands in symbols that are not named after a lambda
  MaxStatements,  \* bound: statements of a program
  Size,           \* how many uses, lets and lambdas a body consists of
  MaxLets,        \* bound: lets that bind a lambda
  MaxSymbols      \* bound of spec_counter, never reached: see LoweringEnds

ASSUME BoundsAssumption ==
  /\ MaxStatements \in Nat /\ MaxLets \in Nat /\ MaxSymbols \in Nat
  /\ Size \in [Names \cup 0 .. (MaxLets - 1) \cup {Anonymous} -> Nat]
  /\ NoCaptures \in Captures
  /\ Anonymous \notin Names \cup Nat

VARIABLES
  abstractions,     \* Module::abstractions: the names of registered lambdas
  specializations,  \* Module::specializations, the cache
  spec_counter,     \* Module::spec_counter
  let_counter,      \* Module::let_counter
  closures,         \* Module::closures
  functions,        \* the emitted functions, in the order of the module
  entry,            \* what the statements call
  pending,          \* the functions being lowered, the innermost last
  statements,       \* the statements still to come
  status            \* lowering, or how it ended

vars == <<abstractions, specializations, spec_counter, let_counter, closures,
          functions, entry, pending, statements, status>>

(* A let registers its lambda under a number of its own. *)
Lambdas == Names \cup 0 .. (MaxLets - 1)
Keys == Lambdas \X Types \X Captures

Symbol(kind, x, n) == [kind |-> kind, of |-> x, n |-> n]
Main == Symbol("main", Anonymous, 0)

(* What a use does with the symbol: call it (or take it as a value), or    *)
(* wrap it, if arguments are missing.                                      *)
Purposes == {"call", "wrap"}

(* A function being lowered: its symbol, the symbols it has called, how    *)
(* much of its body is left, and for a specialization its key and what for.*)
Frame(symbol, key, purpose, calls, left) ==
  [symbol |-> symbol, key |-> key, purpose |-> purpose, calls |-> calls, left |-> left]

Top == pending[Len(pending)]
Calling(stack, symbol) == [stack EXCEPT ![Len(stack)].calls = @ \cup {symbol}]
Shortened(stack, n) == [stack EXCEPT ![Len(stack)].left = @ - n]

Init ==
  /\ abstractions = {}
  /\ specializations = <<>>
  /\ spec_counter = 0
  /\ let_counter = 0
  /\ closures = 0
  /\ functions = <<>>
  /\ entry = {}
  /\ pending = <<>>
  /\ statements = MaxStatements
  /\ status = "lowering"

(* lower_decl of a lambda.  Which lambda the name stands for is left out.  *)
Declare(x) ==
  /\ status = "lowering" /\ pending = <<>> /\ statements > 0
  /\ abstractions' = abstractions \cup {x}
  /\ statements' = statements - 1
  /\ UNCHANGED <<specializations, spec_counter, let_counter, closures, functions, entry, pending, status>>

(* A statement that is evaluated: lower_stmt, or lower_decl of a scalar. *)
Begin ==
  /\ status = "lowering" /\ pending = <<>> /\ statements > 0
  /\ statements' = statements - 1
  /\ pending' = <<Frame(Main, <<>>, "call", {}, Size[Anonymous])>>
  /\ UNCHANGED <<abstractions, specializations, spec_counter, let_counter, closures, functions,
                 entry, status>>

\* A defect: a body that never ends.
InBodyEndless == status = "lowering" /\ pending # <<>>

InBody == status = "lowering" /\ pending # <<>> /\ Top.left > 0

(* bind_in_env of a lambda *)
BindInEnv ==
  /\ InBody
  /\ let_counter < MaxLets
  /\ abstractions' = abstractions \cup {let_counter}
  /\ let_counter' = let_counter + 1
  /\ pending' = Shortened(pending, 1)
  /\ UNCHANGED <<specializations, spec_counter, closures, functions, entry, statements, status>>

-----------------------------------------------------------------------------
(* A function without a key begins, whose body is n steps of the one on    *)
(* top of the stack.                                                       *)
Inner(stack, symbol, calls, n) ==
  Append(Shortened(stack, n), Frame(symbol, <<>>, "call", calls, n))

(* The caller, on top of the stack, gets the symbol it asked for: it calls *)
(* it, or begins a wrapper that does (lower_partial_application), in which *)
(* the arguments are lowered.                                              *)
Given(symbol, purpose, x, stack) ==
  \/ /\ purpose = "call"
     /\ pending' = Calling(stack, symbol)
     /\ UNCHANGED spec_counter
  \/ /\ purpose = "wrap"
     /\ spec_counter < MaxSymbols
     /\ spec_counter' = spec_counter + 1
     /\ \E n \in 0 .. stack[Len(stack)].left :
          pending' = Inner(stack, Symbol("partial", x, spec_counter), {symbol}, n)

(* Only a lambda without captures is applied to too few arguments. *)
IsUse(key, purpose) ==
  InBody /\ key[1] \in abstractions /\ (purpose = "wrap" => key[3] = NoCaptures)

(* specialize_binding: the cache knows the key, *)
Reuse(key, purpose) ==
  /\ IsUse(key, purpose)
  /\ key \in DOMAIN specializations
  /\ Given(specializations[key], purpose, key[1], Shortened(pending, 1))
  /\ UNCHANGED <<abstractions, specializations, let_counter, closures, functions, entry,
                 statements, status>>

\* A defect: the cache does not learn of it.
SpecializeUncached(key, purpose) ==
  LET symbol == Symbol("spec", key[1], spec_counter)
  IN  /\ IsUse(key, purpose)
      /\ key \notin DOMAIN specializations
      /\ spec_counter < MaxSymbols
      /\ spec_counter' = spec_counter + 1
      /\ pending' = Append(Shortened(pending, 1), Frame(symbol, key, purpose, {}, Size[key[1]]))
      /\ UNCHANGED <<abstractions, specializations, let_counter, closures, functions, entry,
                     statements, status>>

(* or does not: it gets the symbol before the body is lowered. *)
Specialize(key, purpose) ==
  LET symbol == Symbol("spec", key[1], spec_counter)
  IN  /\ IsUse(key, purpose)
      /\ key \notin DOMAIN specializations
      /\ spec_counter < MaxSymbols
      /\ specializations' = [k \in DOMAIN specializations \cup {key} |->
                               IF k = key THEN symbol ELSE specializations[k]]
      /\ spec_counter' = spec_counter + 1
      /\ pending' = Append(Shortened(pending, 1), Frame(symbol, key, purpose, {}, Size[key[1]]))
      /\ UNCHANGED <<abstractions, let_counter, closures, functions, entry, statements, status>>

(* lower_abstraction, a lambda without a name *)
OpenClosure ==
  LET symbol == Symbol("closure", Anonymous, closures)
  IN  /\ InBody
      /\ closures' = closures + 1
      /\ \E n \in 0 .. (Top.left - 1) : pending' = Inner(Shortened(pending, 1), symbol, {}, n)
      /\ UNCHANGED <<abstractions, specializations, spec_counter, let_counter, functions, entry,
                     statements, status>>

-----------------------------------------------------------------------------
Caller == SubSeq(pending, 1, Len(pending) - 1)

\* A defect: the cache is for functions in progress only.
FinishForgets ==
  /\ status = "lowering" /\ Len(pending) > 1 /\ Top.left = 0
  /\ functions' = Append(functions, [symbol |-> Top.symbol, key |-> Top.key, calls |-> Top.calls])
  /\ Given(Top.symbol, Top.purpose, Top.symbol.of, Caller)
  /\ specializations' = [k \in DOMAIN specializations \ {Top.key} |-> specializations[k]]
  /\ UNCHANGED <<abstractions, let_counter, closures, entry, statements, status>>

(* The end of a body: its function joins the module, its caller goes on. *)
Finish ==
  /\ status = "lowering" /\ Len(pending) > 1 /\ Top.left = 0
  /\ functions' = Append(functions, [symbol |-> Top.symbol, key |-> Top.key, calls |-> Top.calls])
  /\ Given(Top.symbol, Top.purpose, Top.symbol.of, Caller)
  /\ UNCHANGED <<abstractions, specializations, let_counter, closures, entry, statements, status>>

FinishStatement ==
  /\ status = "lowering" /\ Len(pending) = 1 /\ Top.left = 0
  /\ entry' = entry \cup Top.calls
  /\ pending' = <<>>
  /\ UNCHANGED <<abstractions, specializations, spec_counter, let_counter, closures, functions,
                 statements, status>>

\* A defect: after an error it starts again.
FailRetries ==
  /\ status = "lowering" /\ pending # <<>>
  /\ statements' = MaxStatements /\ pending' = <<>> /\ abstractions' = {}
  /\ specializations' = <<>> /\ functions' = <<>> /\ entry' = {}
  /\ spec_counter' = 0 /\ let_counter' = 0 /\ closures' = 0
  /\ UNCHANGED status

\* A defect: after an error it goes on with the next statement.
FailStatement ==
  /\ status = "lowering" /\ pending # <<>>
  /\ pending' = <<>>
  /\ UNCHANGED <<abstractions, specializations, spec_counter, let_counter, closures, functions,
                 entry, statements, status>>

(* A term that cannot be lowered: lower returns the error, and there is no *)
(* module.                                                                 *)
Fail ==
  /\ status = "lowering" /\ pending # <<>>
  /\ status' = "failed"
  /\ UNCHANGED <<abstractions, specializations, spec_counter, let_counter, closures, functions,
                 entry, pending, statements>>

End ==
  /\ status = "lowering" /\ pending = <<>>
  /\ status' = "lowered"
  /\ UNCHANGED <<abstractions, specializations, spec_counter, let_counter, closures, functions,
                 entry, pending, statements>>

Step ==
  \/ \E x \in Names : Declare(x)
  \/ Begin \/ BindInEnv \/ OpenClosure \/ Finish \/ FinishStatement \/ End
  \/ \E key \in Keys, purpose \in Purposes : Reuse(key, purpose) \/ Specialize(key, purpose)

Next == Step \/ Fail

(* Lowering is one call that nothing interrupts; it need not fail. *)
Spec == Init /\ [][Next]_vars /\ WF_vars(Step)

-----------------------------------------------------------------------------
Symbols == [kind : {"main", "spec", "partial", "closure"}, of : Lambdas \cup {Anonymous}, n : Nat]
Frames == [symbol : Symbols, key : Keys \cup {<<>>}, purpose : Purposes,
           calls : SUBSET Symbols, left : Nat]

Emitted == {functions[i].symbol : i \in DOMAIN functions}
InProgress == {pending[i].symbol : i \in DOMAIN pending}
Made == Emitted \cup InProgress

(* The state has the shape its description gives. *)
TypeOK ==
  /\ abstractions \subseteq Lambdas
  /\ DOMAIN specializations \subseteq Keys
  /\ \A key \in DOMAIN specializations : specializations[key] \in Symbols
  /\ spec_counter \in Nat /\ let_counter \in 0 .. MaxLets /\ closures \in Nat
  /\ functions \in Seq([symbol : Symbols, key : Keys \cup {<<>>}, calls : SUBSET Symbols])
  /\ entry \in SUBSET Symbols
  /\ pending \in Seq(Frames)
  /\ statements \in Nat
  /\ status \in {"lowering", "failed", "lowered"}

(* apply.rs:280: each instantiation "is emitted exactly once": no two      *)
(* functions, finished or not, are of the same instance or have the same   *)
(* symbol, and a symbol in the cache is that of one instance.              *)
Differ(f, g) == f.symbol # g.symbol /\ (f.key = g.key => f.key = <<>>)

EmittedOnce ==
  /\ \A i, j \in DOMAIN functions : i # j => Differ(functions[i], functions[j])
  /\ \A i, j \in DOMAIN pending : i # j => Differ(pending[i], pending[j])
  /\ \A i \in DOMAIN functions, j \in DOMAIN pending : Differ(functions[i], pending[j])
  /\ \A k, l \in DOMAIN specializations : specializations[k] = specializations[l] => k = l

(* A module that is handed over has every function that it calls. *)
Resolved ==
  status = "lowered"
  => /\ entry \subseteq Emitted
     /\ \A i \in DOMAIN functions : functions[i].calls \subseteq Emitted

(* apply.rs:280-282: "the cache is populated before the body is lowered so *)
(* recursive uses of name at the same type resolve to the in-progress      *)
(* symbol": lowering ends, however the lambdas use each other.             *)
LoweringEnds == <>(status # "lowering")

(* The code generator keeps the promise of Instantiation. *)
Instance(key) ==
  IF key \notin DOMAIN specializations THEN "absent"
  ELSE IF specializations[key] \in Emitted THEN "emitted" ELSE "asked for"

Promise == INSTANCE Instantiation WITH
  instance <- [key \in Keys |-> Instance(key)],
  complete <- status = "lowered"

ImplementsInstantiation == Promise!Spec

=============================================================================
