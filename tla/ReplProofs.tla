----------------------------- MODULE ReplProofs -----------------------------
(***************************************************************************)
(* Proofs about Repl for every language: Statement, Checks, Lowers and     *)
(* Panics are arbitrary.  The invariant says where the statements of the   *)
(* line being handled are: at the end of the accumulated ones, after a     *)
(* well-typed program, from Parse to the end of Typecheck.                 *)
(***************************************************************************)
EXTENDS Repl, SequenceTheorems, TLAPS

(* While a line is checked it is the tail of what is accumulated, behind a *)
(* well-typed program; otherwise the whole is well typed.                  *)
Split ==
  /\ pc # "check" => WellTyped(accumulated)
  /\ pc = "check" => /\ line \in Lines
                     /\ \E p \in Seq(Statement) : accumulated = p \o line /\ WellTyped(p)

IInv == TypeOK /\ Split

(* What Truncated takes off is exactly what was appended. *)
LEMMA TruncateUndoesAppend ==
  ASSUME NEW p \in Seq(Statement), NEW q \in Seq(Statement)
  PROVE  SubSeq(p \o q, 1, Len(p \o q) - Len(q)) = p
<1> DEFINE r == SubSeq(p \o q, 1, Len(p \o q) - Len(q))
<1>1. Len(p) \in Nat /\ Len(q) \in Nat /\ Len(p \o q) = Len(p) + Len(q)
  OBVIOUS
<1>2. Len(p \o q) - Len(q) = Len(p)
  BY <1>1
<1>3. r \in Seq(Statement) /\ Len(r) = Len(p)
  BY <1>1, <1>2
<1>4. \A i \in 1..Len(p) : r[i] = p[i]
  BY <1>1, <1>2
<1> QED
  BY <1>3, <1>4

(* What an execution evaluates are positions. *)
LEMMA InvokedPositions ==
  ASSUME NEW p \in Seq(Statement)
  PROVE  Invoked(p) \subseteq Nat
<1>1. Len(p) \in Nat /\ DOMAIN p = 1..Len(p)
  OBVIOUS
<1>2. Expressions(p) \subseteq 1..Len(p)
  BY <1>1 DEF Expressions
<1>3. \A n \in Nat : 1..n \subseteq Nat
  OBVIOUS
<1> QED
  BY <1>1, <1>2, <1>3 DEF Invoked

(* The initial program was type checked by main, or is empty. *)
LEMMA InitIInv == Init => IInv
BY FileAssumption, ProgramsAssumption DEF Init, IInv, TypeOK, Split, Locations, Answers

(* Every step of the loop keeps the invariant. *)
LEMMA NextIInv == IInv /\ [Next]_vars => IInv'
<1> SUFFICES ASSUME IInv, [Next]_vars
             PROVE  IInv'
  OBVIOUS
<1> USE DEF IInv, TypeOK, Locations, Answers
<1>1. CASE Blank
  BY <1>1 DEF Blank, Split
<1>2. CASE Leave
  BY <1>2 DEF Leave, Split
<1>3. CASE ParseError
  BY <1>3 DEF ParseError, Split
<1>9. CASE LiteralOverflow
  BY <1>9 DEF LiteralOverflow, Split
<1>4. ASSUME NEW new \in Lines, Parse(new)
      PROVE  IInv'
  <2>1. new \in Seq(Statement)
    BY LinesAssumption
  <2>2. accumulated \in Seq(Statement) /\ WellTyped(accumulated)
    BY <1>4 DEF Parse, Split
  <2>3. accumulated \o new \in Seq(Statement)
    BY <2>1, <2>2, ConcatProperties
  <2>4. TypeOK'
    BY <1>4, <2>1, <2>3 DEF Parse
  <2>5. Split'
    BY <1>4, <2>2 DEF Parse, Split
  <2> QED
    BY <2>4, <2>5
<1>5. CASE Typecheck
  <2>1. PICK p \in Seq(Statement) : accumulated = p \o line /\ WellTyped(p)
    BY <1>5 DEF Typecheck, Split
  <2>2. Truncated(accumulated, Len(line)) = p
    BY <2>1, TruncateUndoesAppend DEF Truncated
  <2> QED
    BY <1>5, <2>1, <2>2 DEF Typecheck, Split
<1>6. CASE Lower
  BY <1>6 DEF Lower, Show, Split
<1>7. CASE Execute
  <2>1. Invoked(accumulated) \subseteq Nat
    BY InvokedPositions
  <2> QED
    BY <1>7, <2>1 DEF Execute, Show, Split
<1>8. CASE UNCHANGED vars
  BY <1>8 DEF vars, Split
<1> QED
  BY <1>1, <1>2, <1>3, <1>4, <1>5, <1>6, <1>7, <1>8, <1>9 DEF Next, Handle

(* The invariant holds in every reachable state. *)
THEOREM Invariance == Spec => []IInv
<1> QED
  BY InitIInv, NextIInv, PTL DEF Spec

(* Every variable of the loop keeps its type. *)
THEOREM TypeCorrect == Spec => []TypeOK
<1>1. IInv => TypeOK
  BY DEF IInv
<1> QED
  BY <1>1, Invariance, PTL

(* Kept, spelled out in a state of the invariant. *)
LEMMA KeptIs ==
  ASSUME NEW p \in Seq(Statement), line \in Seq(Statement), pc = "check",
         accumulated = p \o line
  PROVE  Kept = p
BY TruncateUndoesAppend DEF Kept

(* Whatever is typed in, the program the session keeps is well typed: the  *)
(* rollback after a type error (repl.rs, accumulated_stmts.truncate) takes *)
(* back exactly the line.                                                  *)
THEOREM Rollback == Spec => []KeptWellTyped
<1>1. ASSUME IInv
      PROVE  KeptWellTyped
  <2>1. CASE pc = "check"
    <3>1. PICK p \in Seq(Statement) : accumulated = p \o line /\ WellTyped(p)
      BY <1>1, <2>1 DEF IInv, Split
    <3>2. Kept = p
      BY <1>1, <2>1, <3>1, KeptIs DEF IInv, TypeOK
    <3> QED
      BY <3>1, <3>2 DEF KeptWellTyped
  <2>2. CASE pc # "check"
    BY <1>1, <2>2 DEF IInv, Split, Kept, KeptWellTyped
  <2> QED
    BY <2>1, <2>2
<1> QED
  BY <1>1, Invariance, PTL

-----------------------------------------------------------------------------
(* Of all steps only an accepting Typecheck changes what the session       *)
(* keeps, and it adds the whole line.                                      *)
LEMMA StepRefines ==
  ASSUME IInv, IInv', [Next]_vars
  PROVE  [Promise!Next]_Kept
<1> USE DEF IInv, TypeOK
<1>1. CASE Blank \/ Leave \/ ParseError \/ LiteralOverflow \/ Lower \/ Execute \/ UNCHANGED vars
  BY <1>1 DEF Blank, Leave, ParseError, LiteralOverflow, Lower, Execute, Show, vars, Kept
<1>2. ASSUME NEW new \in Lines, Parse(new)
      PROVE  Kept' = Kept
  <2>1. new \in Seq(Statement)
    BY LinesAssumption
  <2>2. SubSeq(accumulated \o new, 1, Len(accumulated \o new) - Len(new)) = accumulated
    BY <2>1, TruncateUndoesAppend
  <2> QED
    BY <1>2, <2>2 DEF Parse, Kept
<1>3. CASE Typecheck
  <2>1. PICK p \in Seq(Statement) : accumulated = p \o line /\ WellTyped(p)
    BY <1>3 DEF Typecheck, Split
  <2>2. Kept = p /\ Truncated(accumulated, Len(line)) = p
    BY <1>3, <2>1, KeptIs, TruncateUndoesAppend DEF Typecheck, Truncated
  <2>3. line \in Lines
    BY <1>3 DEF Typecheck, Split
  <2>4. CASE WellTyped(accumulated)
    <3>1. Kept' = p \o line
      BY <1>3, <2>1, <2>4 DEF Typecheck, Kept
    <3>2. Promise!Accept(line)
      BY <2>1, <2>2, <2>4, <3>1 DEF Promise!Accept
    <3> QED
      BY <2>3, <3>2 DEF Promise!Next
  <2>5. CASE ~WellTyped(accumulated)
    BY <1>3, <2>2, <2>5 DEF Typecheck, Kept
  <2> QED
    BY <2>4, <2>5
<1> QED
  BY <1>1, <1>2, <1>3 DEF Next, Handle

(* The loop implements the session: a line is accepted atomically, as far  *)
(* as anybody can tell who looks at the statements kept.                   *)
THEOREM Refinement == Spec => ImplementsSession
<1>1. Init => Promise!Init
  BY DEF Init, Kept, Promise!Init
<1>2. IInv /\ IInv' /\ [Next]_vars => [Promise!Next]_Kept
  BY StepRefines
<1> QED
  BY <1>1, <1>2, Invariance, PTL DEF Spec, ImplementsSession, Promise!Spec

-----------------------------------------------------------------------------
(* A longer program is no better than the one it continues: neither the    *)
(* code generator nor the verifier accepts it if they reject its beginning.*)
LEMMA BeginningLowers ==
  ASSUME NEW p \in Seq(Statement), NEW q \in Seq(Statement), Lowerable(p \o q)
  PROVE  Lowerable(p)
<1> SUFFICES ASSUME NEW i \in DOMAIN p
             PROVE  Lowers(SubSeq(p, 1, i - 1), p[i])
  BY DEF Lowerable
<1>1. i \in DOMAIN (p \o q) /\ (p \o q)[i] = p[i]
  OBVIOUS
<1>2. SubSeq(p \o q, 1, i - 1) = SubSeq(p, 1, i - 1)
  <2>1. i - 1 \in 0..Len(p) /\ Len(p \o q) = Len(p) + Len(q)
    OBVIOUS
  <2>2. SubSeq(p \o q, 1, i - 1) \in Seq(Statement) /\ SubSeq(p, 1, i - 1) \in Seq(Statement)
    BY <2>1
  <2>3. Len(SubSeq(p \o q, 1, i - 1)) = i - 1 /\ Len(SubSeq(p, 1, i - 1)) = i - 1
    BY <2>1
  <2>4. \A j \in 1..(i - 1) : SubSeq(p \o q, 1, i - 1)[j] = SubSeq(p, 1, i - 1)[j]
    BY <2>1
  <2> QED
    BY <2>2, <2>3, <2>4
<1> QED
  BY <1>1, <1>2 DEF Lowerable

(* What begins a program that verifies verifies.                           *)
LEMMA BeginningVerifies ==
  ASSUME NEW p \in Seq(Statement), NEW q \in Seq(Statement), Verifies(p \o q)
  PROVE  Verifies(p)
<1>1. \A i \in DOMAIN p : i \in DOMAIN (p \o q) /\ (p \o q)[i] = p[i]
  OBVIOUS
<1> QED
  BY <1>1 DEF Verifies

(* The session holds a statement that the code generator or the verifier   *)
(* rejects.                                                                *)
Broken == ~Lowerable(Kept) \/ ~Verifies(Kept)

(* What is known of the lowering: it has failed for the statements that    *)
(* are kept, or succeeded for those that are executed.                     *)
Lowered ==
  /\ answer = "codegen error" => ~Lowerable(Kept)
  /\ pc = "execute" => Lowerable(accumulated)

(* Only longer programs are kept. *)
LEMMA KeptGrows ==
  ASSUME IInv, IInv', [Next]_vars
  PROVE  (Lowerable(Kept') => Lowerable(Kept)) /\ (Verifies(Kept') => Verifies(Kept))
<1>1. CASE Kept' = Kept
  BY <1>1
<1>2. ASSUME NEW l \in Lines, Promise!Accept(l)
      PROVE  (Lowerable(Kept') => Lowerable(Kept)) /\ (Verifies(Kept') => Verifies(Kept))
  <2>1. Kept \in Seq(Statement)
    <3>1. CASE pc = "check"
      <4>1. PICK p \in Seq(Statement) : accumulated = p \o line /\ WellTyped(p)
        BY <3>1 DEF IInv, Split
      <4> QED
        BY <3>1, <4>1, KeptIs DEF IInv, TypeOK
    <3>2. CASE pc # "check"
      BY <3>2 DEF IInv, TypeOK, Kept
    <3> QED
      BY <3>1, <3>2
  <2>2. l \in Seq(Statement) /\ Kept' = Kept \o l
    BY <1>2, LinesAssumption DEF Promise!Accept
  <2> QED
    BY <2>1, <2>2, BeginningLowers, BeginningVerifies
<1> QED
  BY <1>1, <1>2, StepRefines DEF Promise!Next

(* An answer that speaks of a codegen error is about a program that cannot *)
(* be lowered.                                                             *)
LEMMA NextLowered ==
  ASSUME IInv, IInv', Lowered, [Next]_vars
  PROVE  Lowered'
<1> USE DEF Lowered
<1>1. CASE Lower
  BY <1>1 DEF Lower, Show, Kept
<1>2. CASE answer' = answer \/ answer' # "codegen error"
  <2>1. answer' = "codegen error" => ~Lowerable(Kept')
    BY <1>2, KeptGrows
  <2>2. pc' = "execute" /\ ~Lower => pc = "execute" /\ accumulated' = accumulated
    BY DEF Next, Handle, Blank, Leave, ParseError, LiteralOverflow, Parse, Typecheck, Execute, Show, vars
  <2> QED
    BY <1>1, <2>1, <2>2
<1>3. ~Lower => answer' = answer \/ answer' # "codegen error"
  BY DEF Next, Handle, Blank, Leave, ParseError, LiteralOverflow, Parse, Typecheck, Execute, Show, vars
<1> QED
  BY <1>1, <1>2, <1>3

(* A line that is answered with a value belongs to a session all of which  *)
(* has been lowered and verified.                                          *)
LEMMA BrokenStays ==
  ASSUME IInv, IInv', Lowered, Broken /\ answer # "value", [Next]_vars
  PROVE  (Broken /\ answer # "value")'
<1>1. Broken'
  BY KeptGrows DEF Broken
<1>2. answer' = "value" => answer = "value" \/ (Execute /\ Verifies(accumulated))
  BY DEF Next, Handle, Blank, Leave, ParseError, LiteralOverflow, Parse, Typecheck, Lower, Execute, Show, vars
<1>3. Execute /\ Verifies(accumulated) => ~Broken
  BY DEF Execute, Lowered, Broken, Kept
<1> QED
  BY <1>1, <1>2, <1>3

(* A line that cannot be lowered or verified breaks the session for good   *)
(* (repl.rs:93, :103 print the error and keep the statements).             *)
THEOREM NothingRepairs == Spec => BrokenForGood
<1> DEFINE Failed == answer = "codegen error" \/ (answer = "execution error" /\ ~Verifies(Kept))
           Hopeless == Broken /\ answer # "value"
<1>1. Init => Lowered
  BY DEF Init, Lowered
<1>2. IInv /\ IInv' /\ Lowered /\ [Next]_vars => Lowered'
  BY NextLowered
<1>3. IInv /\ IInv' /\ Lowered /\ Hopeless /\ [Next]_vars => Hopeless'
  BY BrokenStays
<1>4. Lowered /\ Failed => Hopeless
  BY DEF Lowered, Broken
<1>5. Hopeless => answer # "value"
  OBVIOUS
<1>6. Spec => [](Failed => [](answer # "value"))
  <2> HIDE DEF Failed, Hopeless
  <2> QED
    BY <1>1, <1>2, <1>3, <1>4, <1>5, Invariance, PTL DEF Spec
<1> QED
  BY <1>6 DEF BrokenForGood

(* Once a line is parsed, the process ends only for statements that are    *)
(* fatal as a whole: a statement that makes the code generator panic does  *)
(* no harm behind one that it rejects, and a type that cannot be displayed *)
(* none behind a module that is not executed.                              *)
OnlyFatalAborts ==
  [][pc # "prompt" /\ pc' = "aborted" => Fatal(Kept')]_vars

(* No error of a line that was parsed ends the process (repl.rs:40-117),   *)
(* only the panics of lower and render_type do, which nothing catches.     *)
THEOREM OnlyPanicsEnd == Spec => OnlyFatalAborts
<1>1. Init => Lowered
  BY DEF Init, Lowered
<1>2. IInv /\ IInv' /\ Lowered /\ [Next]_vars => Lowered'
  BY NextLowered
<1>3. IInv /\ IInv' /\ Lowered /\ [Next]_vars
        => [pc # "prompt" /\ pc' = "aborted" => Fatal(Kept')]_vars
  <2> SUFFICES ASSUME IInv, IInv', Lowered, Next, pc # "prompt", pc' = "aborted", vars' # vars
               PROVE  Fatal(Kept')
    BY DEF vars
  <2>1. Kept' = accumulated' /\ WellTyped(accumulated')
    BY DEF IInv, Split, Kept
  <2>2. Lower \/ Execute
    BY DEF Next, Handle, Blank, Leave, ParseError, LiteralOverflow, Parse, Typecheck
  <2>3. CASE Lower
    BY <2>1, <2>3 DEF Lower, Show, Fatal
  <2>4. CASE Execute
    BY <2>1, <2>4 DEF Execute, Show, Lowered, Fatal
  <2> QED
    BY <2>2, <2>3, <2>4
<1> QED
  BY <1>1, <1>2, <1>3, Invariance, PTL DEF Spec, OnlyFatalAborts

-----------------------------------------------------------------------------
(* Where the line is after it has been checked: it is the tail of what was *)
(* lowered and executed, and stays the tail of what is accumulated as long *)
(* as its value is on the screen, with what that execution evaluated.      *)
EndsWith(stmts, end) == \E p \in Seq(Statement) : stmts = p \o end

Shown ==
  /\ pc \in {"lower", "execute"} => EndsWith(accumulated, line)
  /\ pc = "prompt" /\ answer = "value" =>
       EndsWith(accumulated, line) /\ ran = Invoked(accumulated)

(* No step changes where the value that is shown comes from.               *)
LEMMA NextShown ==
  ASSUME IInv, Shown, [Next]_vars
  PROVE  Shown'
<1> USE DEF Shown, EndsWith
<1>1. CASE Blank \/ Leave \/ ParseError \/ LiteralOverflow
  BY <1>1 DEF Blank, Leave, ParseError, LiteralOverflow, IInv, TypeOK, Locations
<1>2. ASSUME NEW new \in Lines, Parse(new)
      PROVE  Shown'
  BY <1>2 DEF Parse
<1>3. CASE Typecheck
  <2>1. PICK p \in Seq(Statement) : accumulated = p \o line /\ WellTyped(p)
    BY <1>3 DEF Typecheck, IInv, Split
  <2> QED
    BY <1>3, <2>1 DEF Typecheck
<1>4. CASE Lower
  BY <1>4 DEF Lower, Show
<1>5. CASE Execute
  BY <1>5 DEF Execute, Show
<1>6. CASE UNCHANGED vars
  BY <1>6 DEF vars
<1> QED
  BY <1>1, <1>2, <1>3, <1>4, <1>5, <1>6 DEF Next, Handle

(* The end of a program decides what is invoked for it, and an execution   *)
(* evaluates its last statement, if that has a value.                      *)
LEMMA LastOfTheTail ==
  ASSUME NEW p \in Seq(Statement), NEW q \in Seq(Statement), q # <<>>,
         LastKind(q) \in {"Expr", "DeclScalar"}
  PROVE  Last(p \o q) = Last(q) /\ Len(p \o q) \in Invoked(p \o q)
<1>1. Len(q) \in DOMAIN q /\ Len(p \o q) = Len(p) + Len(q) /\ p \o q # <<>>
  OBVIOUS
<1>2. Last(p \o q) = Last(q)
  BY <1>1 DEF Last
<1>3. Len(p \o q) \in DOMAIN (p \o q)
  BY <1>1
<1>4. LastKind(p \o q) = LastKind(q) /\ LastKind(q) = (p \o q)[Len(p \o q)].kind
  BY <1>1, <1>2 DEF LastKind, Last
<1> QED
  BY <1>2, <1>3, <1>4 DEF Invoked, Expressions

(* Whatever was typed in before, the value printed for a line is the value *)
(* of its own last statement (repl.rs looks at full.stmts.last(), the last *)
(* statement of the whole session).                                        *)
THEOREM ValueShown == Spec => []ValueIsOfTheLine
<1>1. Init => Shown
  BY DEF Init, Shown
<1>2. IInv /\ Shown /\ [Next]_vars => Shown'
  BY NextShown
<1>3. IInv /\ Shown => ValueIsOfTheLine
  BY LastOfTheTail DEF IInv, TypeOK, Shown, EndsWith, ValueIsOfTheLine
<1> QED
  BY <1>1, <1>2, <1>3, Invariance, PTL DEF Spec

=============================================================================
