------------------------------ MODULE Session ------------------------------
(***************************************************************************)
(* What an interactive session promises: a program that grows by whole     *)
(* lines.  A line is accepted with all its statements, when the program    *)
(* that results is well typed, or leaves the program as it was; whatever   *)
(* was accepted stays.                                                     *)
(***************************************************************************)
EXTENDS Sequences

CONSTANTS
  Lines,        \* the sequences of statements that may be entered
  Programs,     \* the programs a session may start from
  WellTyped(_)  \* whether a sequence of statements is a well-typed program

VARIABLE session  \* the statements of the lines accepted so far

Init == session \in Programs

Accept(line) ==
  /\ WellTyped(session \o line)
  /\ session' = session \o line

Next == \E line \in Lines : Accept(line)

Spec == Init /\ [][Next]_session

=============================================================================
