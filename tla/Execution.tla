----------------------------- MODULE Execution -----------------------------
(***************************************************************************)
(* What MLIR, LLVM and the C library do with a module, as the code         *)
(* generator relies on it: the verifier, which runs before the passes      *)
(* (execute.rs, run_passes), and the execution of the code; and how the    *)
(* REPL reads a value back (execute.rs).  MLIR and libc are external; only *)
(* the operations and functions that Lowering uses are looked at.          *)
(*                                                                         *)
(* A runtime value is a node [k, n, x, s]: an int, a float (a whole        *)
(* number), a bool (n is 0 or 1), a text x in a buffer of n bytes, a       *)
(* function (x is its symbol), a closure, a structure, or a list or enum   *)
(* value.                                                                  *)
(***************************************************************************)
EXTENDS Lowering
LOCAL INSTANCE Integers
LOCAL INSTANCE SequencesExt

-----------------------------------------------------------------------------
(* The verifier: operands are defined before they are used, and operands   *)
(* and results have the types the operation, the called function, the      *)
(* conditional or the function asks for.                                   *)
Function(m, name) == m.funcs[CHOOSE i \in DOMAIN m.funcs : m.funcs[i].name = name]
Defines(m, name) == \E i \in DOMAIN m.funcs : m.funcs[i].name = name

(* The types a symbol may be called with, and the type of the result. *)
CallFits(m, name, ins, out) ==
  \/ /\ Defines(m, name)
     /\ ins = TypesOf(Function(m, name).args)
     /\ out = Function(m, name).out
  \/ name \in DOMAIN m.externs /\ m.externs[name] = [ins |-> ins, out |-> out]

Integers == {I1, I32, I64}
Floats == {F32, F64}

OperationFits(i, m) ==
  LET tys == TypesOf(i.args)
      ty == i.v.ty
      Binary(allowed) == Len(tys) = 2 /\ tys[1] \in allowed /\ tys[2] = tys[1]
  IN  CASE i.op \in {"+", "-", "*", "/", "%"} -> Binary((Integers \cup Floats) \ {I1}) /\ ty = tys[1]
        [] i.op \in {"^", "&"} -> Binary({I1})
        [] i.op = "cmpi" -> Binary(Integers)
        [] i.op = "cmpf" -> Binary(Floats)
        [] i.op = "!" -> tys = <<I1>>
        [] i.op = "neg" -> tys = <<ty>> /\ ty \in {I32, F32}
        [] i.op \in {"sitofp", "fptosi", "extf", "truncf"} ->
             <<i.op, tys[1], ty>> \in {<<"sitofp", I32, F32>>, <<"sitofp", I32, F64>>,
               <<"fptosi", F32, I32>>, <<"extf", F32, F64>>, <<"truncf", F64, F32>>}
        [] i.op = "ptrtoint" -> tys = <<Ptr>>
        [] i.op = "inttoptr" -> tys = <<I64>>
        [] i.op = "select" -> tys = <<I1, ty, ty>>
        [] i.op = "if" -> tys = <<I1>>
        [] i.op = "call" -> CallFits(m, i.ref, tys, ty)
        [] i.op = "constant" -> CallFits(m, i.ref, Inputs(ty), Output(ty))
        [] i.op = "call_indirect" -> IsFunc(Head(tys)) /\ Tail(tys) = Inputs(Head(tys))
        [] i.op \in {"head", "tail", "payload", "is_null", "disc_eq"} -> tys = <<Ptr>>
        [] i.op = "closure_call" -> Head(tys) = Ptr /\ ~IsFunc(tys[2]) /\ ~IsFunc(ty)
        [] i.op = "extract" -> tys[1].f = "struct" /\ tys[1].a[i.ref] = ty
        [] i.op = "insert" -> ty.f = "struct" /\ tys = <<ty, ty.a[i.ref]>>
        [] OTHER -> i.op \in {"const", "addressof", "undef", "nil", "cons", "enum", "closure", "load"}

RECURSIVE BlockFits(_, _, _, _)
BlockFits(b, known, f, m) ==
  IF b.code # <<>>
  THEN LET i == Head(b.code)
       IN  /\ Range(i.args) \subseteq known
           /\ OperationFits(i, m)
           /\ \A j \in DOMAIN i.regions :
                 /\ BlockFits(i.regions[j], known, f, m)
                 /\ i.regions[j].term.args[1].ty = i.v.ty
           /\ BlockFits([b EXCEPT !.code = Tail(@)], known \cup {i.v}, f, m)
  ELSE /\ Range(b.term.args) \subseteq known
       /\ CASE b.term.k = "yield" -> TRUE
            [] b.term.k = "return" -> TypesOf(b.term.args) = <<f.out>>
            [] b.term.k = "br" -> TypesOf(b.term.args) = TypesOf(f.args)
            [] b.term.k = "cond_br" ->
                 /\ TypesOf(b.term.args) = <<I1>>
                 /\ \A j \in DOMAIN b.term.to : BlockFits(b.term.to[j], known, f, m)

(* Functions, externs and string globals share one table of symbols. *)
SymbolsUnique(m) ==
  /\ \A i, j \in DOMAIN m.funcs : m.funcs[i].name = m.funcs[j].name => i = j
  /\ \A i \in DOMAIN m.funcs :
       m.funcs[i].name \notin DOMAIN m.externs \cup {Numbered("str", n) : n \in 0 .. (m.strings - 1)}

Verified(m) ==
  /\ SymbolsUnique(m)
  /\ \A i \in DOMAIN m.funcs : BlockFits(m.funcs[i].body, Range(m.funcs[i].args), m.funcs[i], m)

-----------------------------------------------------------------------------
(* Runtime values.  Outcomes: a value, or no value since the program does  *)
(* something that is undefined, or does not end within the bound.  deep is *)
(* the greatest number of calls that were active at a time; io is what is  *)
(* left of the input and what has been printed.  The input is a sequence   *)
(* of deliveries, each the sequence of lines that one read gets to see.    *)
Node(k, n, x, s) == [k |-> k, n |-> n, x |-> x, s |-> s]
Number(n) == Node("int", n, "", <<>>)
Truth(b) == Node("bool", IF b THEN 1 ELSE 0, "", <<>>)
Float(n) == Node("float", n, "", <<>>)
Text(x) == Node("str", 0, x, <<>>)
Null == Node("null", 0, "", <<>>)
NoValue == Node("none", 0, "", <<>>)
Unspecified == Node("undef", 0, "", <<>>)

Value(v, c) == [k |-> "value", v |-> v, deep |-> c.deep, io |-> c.io]
Undefined(c) == [k |-> "undefined", v |-> NoValue, deep |-> c.deep, io |-> c.io]
Unfinished(c) == [k |-> "unfinished", v |-> NoValue, deep |-> c.deep, io |-> c.io]

Deeper(r, deep) == IF deep > r.deep THEN [r EXCEPT !.deep = deep] ELSE r

(* divsi and remsi round towards zero; ints of one bit are signed, too. *)
Abs(n) == IF n < 0 THEN -n ELSE n
Quotient(a, b) == (IF (a < 0) = (b < 0) THEN 1 ELSE -1) * (Abs(a) \div Abs(b))
Operation(op, a, b) ==
  [a EXCEPT !.n = CASE op = "+" -> a.n + b.n
                    [] op = "-" -> a.n - b.n
                    [] op = "*" -> a.n * b.n
                    [] op = "/" -> Quotient(a.n, b.n)
                    [] op = "%" -> a.n - b.n * Quotient(a.n, b.n)
                    [] op = "^" -> (a.n + b.n) % 2
                    [] op = "&" -> a.n * b.n]
Compares(op, m, n) ==
  CASE op = "==" -> m = n
    [] op = "!=" -> m # n
    [] op = "<" -> m < n
    [] op = ">" -> m > n
    [] op = "<=" -> m <= n
    [] op = ">=" -> m >= n
Signed(v) == IF v.k = "bool" THEN -v.n ELSE v.n
Constant(ref, ty) ==
  IF ty = I1 THEN Truth(ref = 1) ELSE IF ty = F32 THEN Float(ref) ELSE Number(ref)

-----------------------------------------------------------------------------
(* The C library.  A text needs a byte more than it has characters. *)
CharAt(x, i) == SubSeq(x, i, i)
DigitSymbols == <<"0", "1", "2", "3", "4", "5", "6", "7", "8", "9">>
IsDigit(ch) == ch \in Range(DigitSymbols)
DigitOf(ch) == CHOOSE d \in 0 .. 9 : DigitSymbols[d + 1] = ch
RECURSIVE Decimal(_, _, _)
Decimal(x, i, n) ==
  IF i > Len(x) THEN n
  ELSE IF IsDigit(CharAt(x, i)) THEN Decimal(x, i + 1, 10 * n + DigitOf(CharAt(x, i))) ELSE n
ParseNumber(x) ==
  IF x # "" /\ CharAt(x, 1) = "-" THEN -Decimal(x, 2, 0) ELSE Decimal(x, 1, 0)

HasDirective(x) == \E i \in 1 .. Len(x) : CharAt(x, i) = "%"
Printed(c, x) == [c EXCEPT !.io.out = @ \o x]

(* x is copied to the buffer. *)
Copied(buf, x, c) ==
  IF Len(x) < buf.n THEN Value([buf EXCEPT !.x = x], c) ELSE Undefined(c)

Library(name, vs, c) ==
  CASE name = "printf" ->
         IF HasDirective(vs[1].x) THEN Undefined(c)
         ELSE Value(Number(Len(vs[1].x)), Printed(c, vs[1].x))
    [] name = "puts" -> Value(Number(0), Printed(c, vs[1].x \o "\n"))
    [] name = "malloc" -> Value(Node("str", vs[1].n, "", <<>>), c)
    [] name = "strlen" -> Value(Number(Len(vs[1].x)), c)
    [] name = "strcpy" -> Copied(vs[1], vs[2].x, c)
    [] name = "strcat" -> Copied(vs[1], vs[1].x \o vs[2].x, c)
    [] name = "sprintf" -> Copied(vs[1], ToString(vs[3].n), c)
    [] name = "atoi" -> Value(Number(ParseNumber(vs[1].x)), c)
    [] name = "atof" -> Value(Float(ParseNumber(vs[1].x)), c)
    [] name = "strcmp" -> Value(Number(IF vs[1].x = vs[2].x THEN 0 ELSE 1), c)
    [] name = "read" ->
         IF c.io.in = <<>> THEN Value([vs[2] EXCEPT !.s = <<"">>], c)
         ELSE Value([vs[2] EXCEPT !.s = Head(c.io.in)], [c EXCEPT !.io.in = Tail(@)])
    [] name = "strcspn" -> Value([vs[1] EXCEPT !.x = Head(vs[1].s), !.s = <<>>], c)

-----------------------------------------------------------------------------
RECURSIVE Run(_, _, _, _, _), CallFunction(_, _, _, _), Perform(_, _, _, _, _)

(* A block in the frame rho of the function f.  The context c: the calls   *)
(* and backedges left to make, the calls that are active, the io.          *)
CallFunction(f, vs, m, c) ==
  IF c.fuel = 0 THEN Unfinished(c)
  ELSE IF Len(vs) # Len(f.args) THEN Undefined(c)  \* through a raw pointer
  ELSE LET rho == [id \in {f.args[i].id : i \in DOMAIN f.args} |->
                     vs[CHOOSE i \in DOMAIN f.args : f.args[i].id = id]]
       IN  Run(f.body, rho, f, m, [c EXCEPT !.fuel = @ - 1])

Run(b, rho, f, m, c) ==
  IF b.code # <<>>
  THEN LET i == Head(b.code)
           r == Perform(i, rho, f, m, c)
       IN  IF r.k # "value" THEN r
           ELSE Deeper(Run([b EXCEPT !.code = Tail(@)], (i.v.id :> r.v) @@ rho, f, m,
                           [c EXCEPT !.io = r.io]), r.deep)
  ELSE LET vs == [i \in DOMAIN b.term.args |-> rho[b.term.args[i].id]]
       IN  CASE b.term.k \in {"yield", "return"} ->
                  Value(IF vs = <<>> THEN NoValue ELSE vs[1], c)
             [] b.term.k = "br" -> CallFunction(f, vs, m, c)
             [] b.term.k = "cond_br" ->
                  Run(b.term.to[IF vs[1] = Truth(TRUE) THEN 1 ELSE 2], rho, f, m, c)

(* One operation.  A load through a null pointer is undefined, and so is a *)
(* call of a closure with another number of arguments than it takes.       *)
Perform(i, rho, f, m, c) ==
  LET vs == [j \in DOMAIN i.args |-> rho[i.args[j].id]]
      Calls(name, args) ==
        IF Defines(m, name) THEN CallFunction(Function(m, name), args, m, [c EXCEPT !.deep = @ + 1])
        ELSE Library(name, args, c)
      Gives(v) == Value(v, c)
      Loaded(j) == IF vs[1].k = "null" THEN Undefined(c) ELSE Gives(vs[1].s[j])
  IN  CASE i.op = "const" -> Gives(Constant(i.ref, i.v.ty))
        [] i.op = "addressof" -> Gives(Text(i.ref))
        [] i.op = "constant" -> Gives(Node("function", 0, i.ref, <<>>))
        [] i.op = "closure" -> Gives(Node("closure", 0, i.ref, vs))
        [] i.op = "load" -> Gives(vs[1].s[i.ref])
        [] i.op = "nil" -> Gives(Null)
        [] i.op = "cons" -> Gives(Node("cons", 0, "", vs))
        [] i.op = "enum" -> Gives(Node("enum", i.ref, "", vs))
        [] i.op \in {"head", "payload"} -> Loaded(1)
        [] i.op = "tail" -> Loaded(2)
        [] i.op = "is_null" -> Gives(Truth(vs[1].k = "null"))
        [] i.op = "disc_eq" -> Gives(Truth(vs[1].n = i.ref))
        [] i.op = "undef" -> Gives(Node("struct", 0, "", [j \in DOMAIN i.v.ty.a |-> Unspecified]))
        [] i.op = "insert" -> Gives([vs[1] EXCEPT !.s[i.ref] = vs[2]])
        [] i.op = "extract" -> Gives(vs[1].s[i.ref])
        [] i.op = "!" -> Gives(Truth(vs[1].n = 0))
        [] i.op = "neg" -> Gives([vs[1] EXCEPT !.n = -@])
        [] i.op \in {"ptrtoint", "inttoptr", "extf", "truncf"} -> Gives(vs[1])
        [] i.op = "sitofp" -> Gives(Float(vs[1].n))
        [] i.op = "fptosi" -> Gives(Number(vs[1].n))
        [] i.op = "select" -> Gives(vs[IF vs[1] = Truth(TRUE) THEN 2 ELSE 3])
        [] i.op \in {"/", "%"} /\ vs[2].n = 0 -> Undefined(c)
        [] i.op \in {"cmpi", "cmpf"} -> Gives(Truth(Compares(i.ref, Signed(vs[1]), Signed(vs[2]))))
        [] i.op = "if" -> Run(i.regions[IF vs[1].n = 1 THEN 1 ELSE 2], rho, f, m, c)
        [] i.op = "call" -> Calls(i.ref, vs)
        [] i.op = "call_indirect" -> Calls(Head(vs).x, Tail(vs))
        [] i.op = "closure_call" ->
             Calls(vs[1].x, <<vs[2], Node("environment", 0, "", vs[1].s)>>)
        [] OTHER -> Gives(Operation(i.op, vs[1], vs[2]))

(* A function without parameters, with this input; fuel is a bound. *)
Execute(m, symbol, input, fuel) ==
  CallFunction(Function(m, symbol), <<>>, m,
               [fuel |-> fuel, deep |-> 0, io |-> [in |-> input, out |-> ""]])

-----------------------------------------------------------------------------
(* What the REPL makes of the value an invocation returns (execute.rs:     *)
(* invoke, read_list, read_value).                                         *)
ScalarTypes == {"Int", "Float", "Bool", "Str", "Char", "Unit"}
Readable(t) == t.f \in ScalarTypes \cup {"List"}

RECURSIVE SizeOf(_)
SizeOf(ty) ==  \* in units of 4 bytes
  CASE ty \in {I1, I32, F32} -> 1
    [] ty = Ptr -> 2
    [] ty.f = "struct" -> FoldLeft(LAMBDA n, u : n + SizeOf(u), 0, ty.a)

(* The elements are read from the cells; the tail is looked for behind the *)
(* first 8 bytes of a cell, and what is found elsewhere is no list.        *)
RECURSIVE ReadList(_, _), ReadValue(_, _)
\* A defect: the tail is looked for right behind an element.
ReadListPacked(v, elem) ==
  IF v = Null THEN Null
  ELSE IF SizeOf(LowerType(DefaultFreeVars(elem))) # 2 THEN Unspecified
  ELSE Node("cons", 0, "", <<ReadValue(v.s[1], elem), ReadList(v.s[2], elem)>>)

ReadList(v, elem) ==
  IF v = Null THEN Null
  ELSE IF SizeOf(LowerType(DefaultFreeVars(elem))) > 2 THEN Unspecified
  ELSE Node("cons", 0, "", <<ReadValue(v.s[1], elem), ReadList(v.s[2], elem)>>)
ReadValue(v, t) ==
  CASE DefaultFreeVars(t).f \in {"Int", "Float", "Bool"} -> v
    [] t.f = "Str" -> Text(v.x)
    [] t.f = "List" -> ReadList(v, t.a[1])
    [] OTHER -> NoValue

(* invoke looks at a char itself, and gives nothing for unit. *)
Invoked(v, t) == IF t.f = "Char" THEN v ELSE ReadValue(v, t)

=============================================================================
