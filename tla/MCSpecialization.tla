-------------------------- MODULE MCSpecialization --------------------------
(***************************************************************************)
(* A top-level lambda f and a local one, without and with captures.  The   *)
(* body of f consists of two steps, say a let and a use of what it binds,  *)
(* any other body of one.                                                  *)
(***************************************************************************)
EXTENDS Specialization

CONSTANTS f, int

MCNames == {f}
MCTypes == {int}
MCCaptures == {<<>>, <<int>>}
Nothing == <<>>
Sizes == [x \in {f, 0, Anonymous} |-> IF x = f THEN 2 ELSE 1]
=============================================================================
