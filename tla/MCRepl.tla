------------------------------- MODULE MCRepl -------------------------------
(* Model checking of Repl: a scalar x, a function f, a type, expressions   *)
(* that use them, and statements that fail in each of the ways there are.  *)
EXTENDS Repl, TLC

St(kind, name, uses) ==
  [kind |-> kind, name |-> name, uses |-> uses,
   typed |-> TRUE, lowers |-> TRUE, panics |-> FALSE, readable |-> TRUE, renders |-> TRUE]

LetX == St("DeclScalar", "x", {})
LetF == St("DeclFn", "f", {})
Type == St("Other", "t", {})
One == St("Expr", "", {})
UseX == St("Expr", "", {"x"})
UseF == St("Expr", "", {"f"})
IllTyped == [One EXCEPT !.typed = FALSE]
Record == [One EXCEPT !.readable = FALSE]
BadX == [LetX EXCEPT !.lowers = FALSE]
BadF == [LetF EXCEPT !.lowers = FALSE]

(* id id 1, a function that does so, a list of records, a function on one. *)
Over == [One EXCEPT !.lowers = FALSE, !.panics = TRUE]
OverF == [LetF EXCEPT !.lowers = FALSE, !.panics = TRUE]
Records == [One EXCEPT !.renders = FALSE]
GetF == [LetF EXCEPT !.renders = FALSE]

MCStatement ==
  {LetX, LetF, Type, One, UseX, UseF, IllTyped, Record, BadX, BadF,
   Over, OverF, Records, GetF}

MCLines ==
  {<<>>, <<LetX, UseX>>, <<LetX, IllTyped>>, <<IllTyped, LetF>>, <<One, Type>>,
   <<GetF, UseF>>} \cup {<<st>> : st \in MCStatement}

MCPrograms == {<<>>, <<LetX>>}

(* Names resolve to definitions before the statement, or to its own. *)
Defined(before) == {before[i].name : i \in DOMAIN before}

MCChecks(before, st) ==
  /\ st.typed
  /\ st.uses \subseteq Defined(before)
  /\ st.kind = "Other" => st.name \notin Defined(before)

(* A function is lowered where it is used, in its latest definition, which *)
(* may be one after the scalar that is also called so.                     *)
LoweredWith(before, st) ==
  {st} \cup {before[i] : i \in {j \in DOMAIN before :
                /\ before[j].kind = "DeclFn" /\ before[j].name \in st.uses
                /\ \A k \in DOMAIN before :
                      before[k].kind = "DeclFn" /\ before[k].name = before[j].name => k <= j}}

MCLowers(before, st) ==
  st.kind \in {"Expr", "DeclScalar"} => \A part \in LoweredWith(before, st) : part.lowers

MCPanics(before, st) == \E part \in LoweredWith(before, st) : part.panics

=============================================================================
