--------------------------- MODULE Instantiation ---------------------------
(***************************************************************************)
(* What the code generator promises of generic functions: an instance of a *)
(* lambda is asked for once, emitted once, and when the module is complete *)
(* every instance that was asked for is there.                             *)
(***************************************************************************)
CONSTANT Keys  \* the instances: a lambda at a type, with captures

VARIABLES
  instance,  \* of every key: absent, asked for, or emitted
  complete   \* the module is handed over

vars == <<instance, complete>>

Init ==
  /\ instance = [key \in Keys |-> "absent"]
  /\ complete = FALSE

Ask(key) ==
  /\ ~complete
  /\ instance[key] = "absent"
  /\ instance' = [instance EXCEPT ![key] = "asked for"]
  /\ UNCHANGED complete

Emit(key) ==
  /\ ~complete
  /\ instance[key] = "asked for"
  /\ instance' = [instance EXCEPT ![key] = "emitted"]
  /\ UNCHANGED complete

Complete ==
  /\ \A key \in Keys : instance[key] # "asked for"
  /\ complete' = TRUE
  /\ UNCHANGED instance

Next == (\E key \in Keys : Ask(key) \/ Emit(key)) \/ Complete

Spec == Init /\ [][Next]_vars

=============================================================================
