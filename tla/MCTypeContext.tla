--------------------------- MODULE MCTypeContext ---------------------------
(* Model checking of TypeContext with two interchangeable names. *)
EXTENDS TypeContext, TLC

NameSymmetry == Permutations(Names)

=============================================================================
