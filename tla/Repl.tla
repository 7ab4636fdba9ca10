-------------------------------- MODULE Repl --------------------------------
(***************************************************************************)
(* The read-eval-print loop (repl.rs, repl_loop).  Every line is parsed,   *)
(* appended to the statements accumulated so far, and the whole program is *)
(* then type checked, lowered and executed from scratch.                   *)
(*                                                                         *)
(* Statements are data: whether one type checks after the statements that  *)
(* precede it, and whether the code generator can lower it there, are the  *)
(* constants Checks and Lowers.  Both passes go through the program in     *)
(* order and stop at the first error (types.rs, Program::typecheck;        *)
(* stmt.rs, lower), so neither ever looks at a later statement.            *)
(*                                                                         *)
(* The loop catches no panic: one in the parser, in the code generator or  *)
(* in the display of a type ends the process, and the session with it.     *)
(***************************************************************************)
EXTENDS Naturals, Sequences

CONSTANTS
  Statement,     \* the statements
  Lines,         \* what a line may parse to, see LinesAssumption
  Programs,      \* the program the session starts from: none, or the file's
  Checks(_, _),  \* Checks(before, st): st type checks after the statements before
  Lowers(_, _),  \* Lowers(before, st): st is lowered after the statements before
  Panics(_, _),  \* Panics(before, st): if it is not, that is a panic, not an error
  MaxSession     \* bound: the number of statements a session accumulates

(* st.kind tells an expression, a function-valued and a scalar-valued let, *)
(* and a type declaration apart (LastKind); readable says whether a value  *)
(* of the statement's type can be read back (execute.rs, invoke), renders  *)
(* whether the type can be displayed: one with a record in it is a todo!().*)
Kinds == {"Expr", "DeclFn", "DeclScalar", "Other"}

ASSUME StatementAssumption ==
  \A st \in Statement :
     st.kind \in Kinds /\ st.readable \in BOOLEAN /\ st.renders \in BOOLEAN
ASSUME LinesAssumption == Lines \subseteq Seq(Statement)
ASSUME ProgramsAssumption == Programs \subseteq Seq(Statement)
ASSUME BoundAssumption == MaxSession \in Nat

(* Program::typecheck and lower, as far as success goes. *)
WellTyped(stmts) ==
  \A i \in DOMAIN stmts : Checks(SubSeq(stmts, 1, i - 1), stmts[i])
Lowerable(stmts) ==
  \A i \in DOMAIN stmts : Lowers(SubSeq(stmts, 1, i - 1), stmts[i])

(* The first statement that is not lowered decides what becomes of the     *)
(* program: lower returns its error, or never returns (apply.rs, the slice *)
(* in lower_partial_application, for more arguments than parameters).      *)
LowerPanics(stmts) ==
  \E i \in DOMAIN stmts :
     LET before == SubSeq(stmts, 1, i - 1)
     IN  Lowerable(before) /\ ~Lowers(before, stmts[i]) /\ Panics(before, stmts[i])

(* A scalar let is emitted as a function of its own name, and MLIR rejects *)
(* a module that defines a symbol twice when the passes run over it.       *)
Verifies(stmts) ==
  \A i, j \in DOMAIN stmts :
     /\ stmts[i].kind = "DeclScalar" /\ stmts[j].kind = "DeclScalar"
     /\ stmts[i].name = stmts[j].name
     => i = j

(* main typechecks and lowers the program of the file before the session.  *)
ASSUME FileAssumption == \A p \in Programs : WellTyped(p) /\ Lowerable(p)

VARIABLES
  pc,           \* where the loop is
  accumulated,  \* accumulated_stmts
  line,         \* the statements of the line being handled: new_prog.stmts
  answer,       \* what the last line printed
  ran           \* the statements the last execution evaluated, by position

vars == <<pc, accumulated, line, answer, ran>>

Locations == {"prompt", "check", "lower", "execute", "exited", "aborted"}
Answers == {"none", "parse error", "type error", "codegen error",
            "execution error", "function", "value"}

Init ==
  /\ pc = "prompt"
  /\ accumulated \in Programs
  /\ line = <<>>
  /\ answer = "none"
  /\ ran = {}

-----------------------------------------------------------------------------
(* A blank line is skipped. *)
Blank ==
  /\ pc = "prompt"
  /\ answer' = "none"
  /\ UNCHANGED <<pc, accumulated, line, ran>>

(* End of input, the word exit, or an input error, which exits with 1. *)
Leave ==
  /\ pc = "prompt"
  /\ pc' = "exited"
  /\ UNCHANGED <<accumulated, line, answer, ran>>

ParseError ==
  /\ pc = "prompt"
  /\ answer' = "parse error"
  /\ UNCHANGED <<pc, accumulated, line, ran>>

(* An integer literal beyond 2^31 - 1 is a panic in the parser. *)
LiteralOverflow ==
  /\ pc = "prompt"
  /\ pc' = "aborted"
  /\ UNCHANGED <<accumulated, line, answer, ran>>

\* A defect: the line is pushed, not its statements
ParsePushes(new) ==
  /\ pc = "prompt"
  /\ Len(accumulated) + Len(new) <= MaxSession
  /\ pc' = "check"
  /\ line' = new
  /\ accumulated' = Append(accumulated, new)
  /\ UNCHANGED <<answer, ran>>

(* The new statements, none if the line holds only a comment, are appended *)
(* before they are checked.                                                *)
Parse(new) ==
  /\ pc = "prompt"
  /\ Len(accumulated) + Len(new) <= MaxSession
  /\ pc' = "check"
  /\ line' = new
  /\ accumulated' = accumulated \o new
  /\ UNCHANGED <<answer, ran>>

\* A defect: one statement is taken off, however many the line had
TruncatedByOne(stmts, count) == SubSeq(stmts, 1, Len(stmts) - 1)

(* A type error takes as many statements off again as the line had. *)
Truncated(stmts, count) == SubSeq(stmts, 1, Len(stmts) - count)

Typecheck ==
  /\ pc = "check"
  /\ \/ /\ WellTyped(accumulated)
        /\ pc' = "lower"
        /\ UNCHANGED <<accumulated, answer>>
     \/ /\ ~WellTyped(accumulated)
        /\ pc' = "prompt"
        /\ answer' = "type error"
        /\ accumulated' = Truncated(accumulated, Len(line))
  /\ UNCHANGED <<line, ran>>

(* full.stmts.last() and the kind of answer it calls for.  The statement   *)
(* need not be of this line.                                               *)
Last(stmts) == stmts[Len(stmts)]
LastKind(stmts) == IF stmts = <<>> THEN "Other" ELSE Last(stmts).kind

\* A defect: the last statement is dropped from the session
LowerDrops ==
  /\ pc = "lower"
  /\ \/ /\ ~Lowerable(accumulated)
        /\ pc' = "prompt"
        /\ answer' = "codegen error"
        /\ accumulated' = SubSeq(accumulated, 1, Len(accumulated) - 1)
     \/ /\ Lowerable(accumulated)
        /\ pc' = IF LastKind(accumulated) = "DeclFn" THEN "prompt" ELSE "execute"
        /\ UNCHANGED <<accumulated, answer>>
  /\ UNCHANGED <<line, ran>>

(* An answer that is no error displays the type of the last statement. *)
Renders(stmts) == LastKind(stmts) # "Other" => Last(stmts).renders

Show(what) ==
  \/ /\ Renders(accumulated)
     /\ pc' = "prompt"
     /\ answer' = what
  \/ /\ ~Renders(accumulated)
     /\ pc' = "aborted"
     /\ UNCHANGED answer

\* A defect: the error of the code generator is unwrapped
LowerUnwraps ==
  /\ pc = "lower"
  /\ \/ /\ ~Lowerable(accumulated)
        /\ pc' = "aborted"
        /\ UNCHANGED answer
     \/ /\ Lowerable(accumulated)
        /\ LastKind(accumulated) = "DeclFn"
        /\ Show("function")
     \/ /\ Lowerable(accumulated)
        /\ LastKind(accumulated) # "DeclFn"
        /\ pc' = "execute"
        /\ UNCHANGED answer
  /\ UNCHANGED <<accumulated, line, ran>>

(* A codegen error is reported, and the statements stay. *)
Lower ==
  /\ pc = "lower"
  /\ \/ /\ LowerPanics(accumulated)
        /\ pc' = "aborted"
        /\ UNCHANGED answer
     \/ /\ ~Lowerable(accumulated) /\ ~LowerPanics(accumulated)
        /\ pc' = "prompt"
        /\ answer' = "codegen error"
     \/ /\ Lowerable(accumulated)
        /\ LastKind(accumulated) = "DeclFn"
        /\ Show("function")
     \/ /\ Lowerable(accumulated)
        /\ LastKind(accumulated) # "DeclFn"
        /\ pc' = "execute"
        /\ UNCHANGED answer
  /\ UNCHANGED <<accumulated, line, ran>>

(* The body of @__main is all expression statements since the session began. *)
Expressions(stmts) == {i \in DOMAIN stmts : stmts[i].kind = "Expr"}

\* A defect: @__main is invoked for a let, too
InvokedMain(stmts) == Expressions(stmts)

(* A scalar let is answered by invoking the function of its name, anything *)
(* else by invoking @__main.                                               *)
Invoked(stmts) ==
  IF LastKind(stmts) = "DeclScalar" THEN {Len(stmts)} ELSE Expressions(stmts)

(* The type to read back is looked at before anything is invoked; __main   *)
(* returns nothing, which is always readable, after a type declaration.    *)
Readable(stmts) ==
  LastKind(stmts) \in {"Expr", "DeclScalar"} => Last(stmts).readable

(* The type is displayed after the code has run. *)
Execute ==
  /\ pc = "execute"
  /\ IF Verifies(accumulated) /\ Readable(accumulated)
     THEN Show("value") /\ ran' = Invoked(accumulated)
     ELSE pc' = "prompt" /\ answer' = "execution error" /\ ran' = {}
  /\ UNCHANGED <<accumulated, line>>

Handle == Typecheck \/ Lower \/ Execute

Next ==
  \/ Blank \/ Leave \/ ParseError \/ LiteralOverflow
  \/ \E new \in Lines : Parse(new)
  \/ Handle

(* The loop handles a line to the end before it reads the next one.  (Code *)
(* the session compiled is assumed to return.)  Nobody has to type.        *)
Fairness == WF_vars(Handle)

Spec == Init /\ [][Next]_vars /\ Fairness

-----------------------------------------------------------------------------
(* What the variables hold. *)
TypeOK ==
  /\ pc \in Locations
  /\ accumulated \in Seq(Statement)
  /\ line \in Seq(Statement)
  /\ answer \in Answers
  /\ ran \subseteq Nat

(* The statements the session keeps are those it had before this line,     *)
(* until the line has been checked.                                        *)
Kept ==
  IF pc = "check" THEN SubSeq(accumulated, 1, Len(accumulated) - Len(line)) ELSE accumulated

(* The rollback is exact: whatever was entered, the statements kept form a *)
(* well-typed program, so that one bad line never makes a later one fail   *)
(* to type check.                                                          *)
KeptWellTyped == WellTyped(Kept)

(* A line is accepted as a whole or not at all, and nothing that was       *)
(* accepted is ever lost or changed.                                       *)
Promise == INSTANCE Session WITH session <- Kept
ImplementsSession == Promise!Spec

(* A line whose statements are kept although they cannot be lowered, or    *)
(* although they define a symbol twice, is never forgotten: no line is     *)
(* answered with a value any more.                                         *)
BrokenForGood ==
  [](answer = "codegen error" \/ (answer = "execution error" /\ ~Verifies(Kept))
     => [](answer # "value"))

(* The value shown for a line is that of the line's own last statement,    *)
(* which the execution did evaluate.                                       *)
ValueIsOfTheLine ==
  /\ answer = "value" /\ pc = "prompt" /\ line # <<>>
  /\ LastKind(line) \in {"Expr", "DeclScalar"}
  => /\ Last(accumulated) = Last(line)
     /\ Len(accumulated) \in ran

(* grammar.lalrpop:11 has comments skipped: a line that holds nothing but  *)
(* a comment is not answered by evaluating anything.                       *)
CommentsAreSkipped ==
  answer = "value" /\ pc = "prompt" /\ line = <<>> => ran = {}

(* stmt.rs:24: the context outlives a module "so bindings can be appended  *)
(* across input lines": a line with statements that check and can be       *)
(* lowered where it stands, after well-typed lines, is not answered by a   *)
(* codegen error.                                                          *)
BindingsCanBeAppended ==
  answer = "codegen error" /\ pc = "prompt" /\ line # <<>> =>
    \E i \in DOMAIN line :
       LET at == Len(accumulated) - Len(line) + i
       IN  ~Lowers(SubSeq(accumulated, 1, at - 1), accumulated[at])

(* What ends the process: statements that check, but make the code         *)
(* generator panic, or are to be answered with a type it cannot display.   *)
Fatal(stmts) ==
  /\ WellTyped(stmts)
  /\ \/ LowerPanics(stmts)
     \/ /\ Lowerable(stmts) /\ ~Renders(stmts)
        /\ LastKind(stmts) # "DeclFn" => Verifies(stmts) /\ Readable(stmts)

(* A line that was parsed and is not fatal to the session is answered,     *)
(* whatever errors it has, and the prompt returns.                         *)
PromptReturns ==
  pc \in {"check", "lower", "execute"} /\ ~Fatal(accumulated) ~> pc = "prompt"

=============================================================================
