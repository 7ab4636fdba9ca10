------------------------------ MODULE Emission ------------------------------
(***************************************************************************)
(* What the code generator emits: MLIR types (codegen/types.rs), operations *)
(* and functions, externs and string globals (stmt.rs, apply.rs), and the  *)
(* part of Module that lowering depends on (codegen/mod.rs).               *)
(*                                                                         *)
(* The code mutates a module; here every function returns it.  An SSA      *)
(* value is a number with its MLIR type.  An operation is a record, and a  *)
(* block a sequence of them with a terminator.  Loads, stores and          *)
(* allocations are abstracted to operations on lists, enums and closures.  *)
(***************************************************************************)
EXTENDS Terms
LOCAL INSTANCE SequencesExt

I32 == Con("i32")
I1 == Con("i1")
I64 == Con("i64")
F32 == Con("f32")
F64 == Con("f64")
Ptr == Con("ptr")
NoType == Con("error")  \* lower_type has failed
FuncType(ins, out) == [f |-> "func", l |-> "", a |-> Append(ins, out)]
IsFunc(ty) == ty.f = "func"
Inputs(ty) == Front(ty.a)
Output(ty) == Last(ty.a)

(* record_fields: the fields of a closed record, in row order *)
RECURSIVE RowOf(_), IsClosed(_)
RowOf(row) == IF row.f = "RowExt" THEN <<[l |-> row.l, t |-> row.a[1]]>> \o RowOf(row.a[2]) ELSE <<>>
IsClosed(t) ==
  CASE t.f = "Rec" -> IsClosed(t.a[1])
    [] t.f = "RowExt" -> IsClosed(t.a[2])
    [] OTHER -> t.f = "EmptyRow"
RecordFields(t) == IF t.f = "Rec" /\ IsClosed(t) THEN RowOf(t.a[1]) ELSE <<>>

(* The LLVM dialect has no structure with a field of function type. *)
StructType(tys) ==
  IF \E i \in DOMAIN tys : IsFunc(tys[i]) \/ tys[i] = NoType THEN NoType
  ELSE [f |-> "struct", l |-> "", a |-> tys]

(* default_free_vars and lower_type: a curried function type is one flat   *)
(* function type, a record a structure of its fields.                      *)
RECURSIVE LowerType(_)
LowerType(t) ==
  CASE t.f \in {"Int", "Char", "Unit"} -> I32
    [] t.f = "Bool" -> I1
    [] t.f = "Float" -> F32
    [] t.f \in {"Str", "List", "Enum"} -> Ptr
    [] t.f = "Rec" ->
         LET fs == RecordFields(t)
         IN  IF ~IsClosed(t) THEN NoType
             ELSE StructType([i \in DOMAIN fs |-> LowerType(DefaultFreeVars(fs[i].t))])
    [] t.f = "Fn" ->
         LET first == LowerType(t.a[1])
             rest == LowerType(t.a[2])
         IN  IF NoType \in {first, rest} THEN NoType
             ELSE IF IsFunc(rest) THEN FuncType(<<first>> \o Inputs(rest), Output(rest))
             ELSE FuncType(<<first>>, rest)
    [] OTHER -> NoType

TypeOf(e) == LowerType(DefaultFreeVars(e.t))

(* abs: the registered lambdas; spec: the cache of specializations, by     *)
(* name, concrete type and types of the captures; inl: lets that are       *)
(* inlined at their uses; ctors, enums, records and aliases: the declared  *)
(* types; syms: the types of the symbols of scalar lets and builtins;      *)
(* funcs: the functions emitted; externs: the types of the C functions     *)
(* declared; strings: the number of string globals; entry: the body of     *)
(* @__main.                                                                *)
EmptyModule ==
  [abs |-> <<>>, spec |-> <<>>, inl |-> <<>>, ctors |-> <<>>, enums |-> <<>>,
   records |-> {}, aliases |-> {}, syms |-> <<>>, specCtr |-> 0, letCtr |-> 0, closures |-> 0,
   strings |-> 0, funcs |-> <<>>, externs |-> <<>>, entry |-> <<>>, last |-> <<>>, next |-> 0]

(* Results: the module, the operations appended to the current block, and  *)
(* the value (or whatever the handler yields); or an error.  Then goes on  *)
(* in the same block, Nested after a block or a function of its own.       *)
Err(why) == [ok |-> FALSE, why |-> why]
Done(m, v) == [ok |-> TRUE, m |-> m, code |-> <<>>, v |-> v]
Then(r, Next(_)) ==
  IF ~r.ok THEN r
  ELSE LET q == Next(r) IN IF q.ok THEN [q EXCEPT !.code = r.code \o @] ELSE q
Nested(r, Next(_)) == IF r.ok THEN Next(r) ELSE r

Emit(m, op, args, ty, ref, regions) ==
  LET v == [id |-> m.next, ty |-> ty]
  IN  IF ty = NoType THEN Err("type lowering not implemented")
      ELSE [ok |-> TRUE, m |-> [m EXCEPT !.next = @ + 1], v |-> v,
            code |-> <<[v |-> v, op |-> op, args |-> args, ref |-> ref, regions |-> regions]>>]

Ends(k, args, to) == [k |-> k, args |-> args, to |-> to]
Returning(r) == [code |-> r.code, term |-> Ends("return", <<r.v>>, <<>>)]

\* A defect: generated symbols are not told apart.
Unnumbered(prefix, n) == prefix

Numbered(prefix, n) == prefix \o "_" \o ToString(n)

(* The arguments of a new function, and the function with its body. *)
Arguments(m, tys) == [i \in DOMAIN tys |-> [id |-> m.next + i - 1, ty |-> tys[i]]]
WithArguments(m, tys) == [m EXCEPT !.next = @ + Len(tys)]
\* A defect: the function is not appended to the module.
NotAdded(m, name, args, out, body) == m

AddFunction(m, name, args, out, body) ==
  [m EXCEPT !.funcs = Append(@, [name |-> name, args |-> args, out |-> out, body |-> body])]

TypesOf(vs) == [i \in DOMAIN vs |-> vs[i].ty]

(* ensure_extern and ensure_malloc: declared at most once. *)
EnsureExtern(m, name, ins, out) ==
  IF name \in DOMAIN m.externs THEN m
  ELSE [m EXCEPT !.externs = (name :> [ins |-> ins, out |-> out]) @@ @]
CallExtern(m, name, vs, out) ==
  Emit(EnsureExtern(m, name, TypesOf(vs), out), "call", vs, out, name, <<>>)

(* lower_string: a global of its own for every occurrence *)
LowerString(text, m) == Emit([m EXCEPT !.strings = @ + 1], "addressof", <<>>, Ptr, text, <<>>)

(* Pointers are passed to C functions as integers. *)
PtrToInt(v, m) == Emit(m, "ptrtoint", <<v>>, I64, "", <<>>)
IntToPtr(v, m) == Emit(m, "inttoptr", <<v>>, Ptr, "", <<>>)
IntegerConstant(n, ty, m) == Emit(m, "const", <<>>, ty, n, <<>>)
MallocCall(n, m) ==
  Then(IntegerConstant(n, I64, m), LAMBDA size :
  Then(CallExtern(size.m, "malloc", <<size.v>>, I64), LAMBDA p : IntToPtr(p.v, p.m)))

=============================================================================
