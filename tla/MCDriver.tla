------------------------------ MODULE MCDriver ------------------------------
(***************************************************************************)
(* Two processes that compile one source, whose text may be good, or fail  *)
(* in one of the phases: with the prelude the flawed one declares a name   *)
(* twice, without it it cannot be lowered.                                 *)
(***************************************************************************)
EXTENDS Driver

CONSTANTS p1, p2, source, executable, good, usesPrelude, garbled, flawed

MCPids == {p1, p2}
MCSources == {source}
MCExecutables == {executable}
Named == [f \in MCSources |-> executable]
Overwriting == [f \in MCSources |-> f]
MCTexts == {good, usesPrelude, garbled, flawed}
MCParses == MCTexts \ {garbled}
MCParsed == [text : MCParses, prelude : BOOLEAN]
MCWellTyped == {prog \in MCParsed : prog.text = usesPrelude => prog.prelude}
MCLowers == {prog \in MCParsed : prog.text = flawed => prog.prelude}
MCVerifies == {prog \in MCParsed : prog.text # flawed}
=============================================================================
