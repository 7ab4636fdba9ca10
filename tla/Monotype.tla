------------------------------ MODULE Monotype ------------------------------
(***************************************************************************)
(* A monotype (types.rs) is a node [f, l, a]: a constructor, its label or  *)
(* name ("" if it has none) and its arguments.  A type variable is a node  *)
(* "Var".                                                                  *)
(***************************************************************************)
Var(v) == [f |-> "Var", l |-> v, a |-> <<>>]
Con(c) == [f |-> c, l |-> "", a |-> <<>>]
TInt == Con("Int")
TBool == Con("Bool")
TStr == Con("Str")
TUnit == Con("Unit")
EmptyRow == Con("EmptyRow")
Fn(t, u) == [f |-> "Fn", l |-> "", a |-> <<t, u>>]
List(t) == [f |-> "List", l |-> "", a |-> <<t>>]
Enum(n, ts) == [f |-> "Enum", l |-> n, a |-> ts]
Rec(row) == [f |-> "Rec", l |-> "", a |-> <<row>>]
RowExt(label, t, rest) == [f |-> "RowExt", l |-> label, a |-> <<t, rest>>]

(* A monotype is a variable or the application of a constructor.          *)
IsVar(t) == t.f = "Var"
=============================================================================
