------------------------------- MODULE Syntax -------------------------------
(***************************************************************************)
(* The terms and the statements of a program as the parser makes them,     *)
(* with short names: what the instances for TLC are written with.          *)
(***************************************************************************)
EXTENDS Types

V(x) == [e |-> "Variable", x |-> x]
Num(i) == [e |-> "Literal", lit |-> "Int", value |-> i]
Str(x) == [e |-> "Literal", lit |-> "Str", value |-> x]
Flt(i) == [e |-> "Literal", lit |-> "Float", value |-> i]
UnitLit == [e |-> "Literal", lit |-> "Unit", value |-> 0]
BoolLit(b) == [e |-> "Literal", lit |-> "Bool", value |-> b]
Hole == Con("Infer")
Lam(x, b) == [e |-> "Abstraction", x |-> x, ann |-> Hole, body |-> b]
App(f, a) == [e |-> "Application", e1 |-> f, e2 |-> a]
LetIn(x, a, b) == [e |-> "Let", x |-> x, e1 |-> a, e2 |-> b]
If(c, a, b) == [e |-> "IfElse", cond |-> c, e1 |-> a, e2 |-> b]
Arith(op, a, b) == [e |-> "Arithmetic", op |-> op, e1 |-> a, e2 |-> b]
Comp(op, a, b) == [e |-> "Comparison", op |-> op, e1 |-> a, e2 |-> b]
ListOf(es) == [e |-> "List", es |-> es]
ConsOf(h, t) == [e |-> "Cons", e1 |-> h, e2 |-> t]
Case(p, b) == [pat |-> p, exp |-> b]
MatchOn(s, cs) == [e |-> "Match", exp |-> s, cases |-> cs]
BlockOf(sts, b) == [e |-> "Block", sts |-> sts, exp |-> b]
Logic(op, a, b) == [e |-> "Logical", op |-> op, e1 |-> a, e2 |-> b]
Un(op, a) == [e |-> "Unary", op |-> op, exp |-> a]
Field(r, l) == [e |-> "FieldAccess", exp |-> r, l |-> l]
Fld(l, b) == [l |-> l, exp |-> b]
RecordOf(name, fs) == [e |-> "Record", name |-> name, fs |-> fs]
With(r, fs) == [e |-> "With", exp |-> r, fs |-> fs]
LamOf(x, t, b) == [e |-> "Abstraction", x |-> x, ann |-> t, body |-> b]
Decl(x, b) == [k |-> "Decl", x |-> x, ann |-> Hole, exp |-> b]
DeclOf(x, t, b) == [k |-> "Decl", x |-> x, ann |-> t, exp |-> b]
Expr(b) == [k |-> "Expr", exp |-> b]

Zero == Num(0)
One == Num(1)
True == BoolLit(1)
False == BoolLit(0)

Type(name, params, dec, variants, fs) ==
  [k |-> "Type", name |-> name, params |-> params, dec |-> dec,
   variants |-> variants, fs |-> fs]
Variant(x, fields) == [x |-> x, fields |-> fields]
TypedField(l, t) == [l |-> l, t |-> t]

=============================================================================
