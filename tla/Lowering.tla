------------------------------ MODULE Lowering ------------------------------
(***************************************************************************)
(* The code generator (codegen: apply.rs, tail.rs, expr.rs, closures.rs,   *)
(* enums.rs, lists.rs, stmt.rs): typed terms to an MLIR module.            *)
(*                                                                         *)
(* Lambdas that are bound to a name are not lowered where they stand.      *)
(* They are registered, and a function is emitted for every concrete type  *)
(* the name is used at: a specialization, kept in a cache.  A self call in *)
(* tail position becomes a branch to the head of its function.             *)
(***************************************************************************)
EXTENDS Runtime
LOCAL INSTANCE Integers
LOCAL INSTANCE SequencesExt

(* The environment: a name is bound to an SSA value or to a lambda. *)
Entry(v) == [k |-> "Value", v |-> v, sym |-> ""]
LambdaEntry(sym) == [k |-> "Abstraction", v |-> <<>>, sym |-> sym]
IsValue(env, x) == x \in DOMAIN env /\ env[x].k = "Value"
IsLambda(env, x) == x \in DOMAIN env /\ env[x].k = "Abstraction"

RECURSIVE Bound(_, _, _)
Bound(env, xs, vs) ==  \* of two equal names the later one counts
  IF xs = <<>> THEN env
  ELSE Bound((Head(xs) :> Entry(Head(vs))) @@ env, Tail(xs), Tail(vs))

Yields(r) == [code |-> r.code, term |-> Ends("yield", <<r.v>>, <<>>)]

RECURSIVE Lower(_, _, _), LowerTail(_, _, _, _)

(* From left to right; the value is the sequence of values. *)
LowerAll(es, env, m) ==
  FoldLeft(LAMBDA r, e : Then(r, LAMBDA vs : Then(Lower(e, env, vs.m), LAMBDA v :
             Done(v.m, Append(vs.v, v.v)))),
           Done(m, <<>>), es)

LowerLiteral(e, m) ==
  IF e.lit = "Str" THEN LowerString(e.value, m)
  ELSE Emit(m, "const", <<>>, LowerType(Con(e.lit)), e.value, <<>>)

-----------------------------------------------------------------------------
(* A lambda is registered under a name; a let makes one up. *)
Info(e) == [params |-> AbstractionParams(e), body |-> PeelInner(e), t |-> e.t]
Register(m, name, e) == [m EXCEPT !.abs = (name :> Info(e)) @@ @]

(* bind_in_env, the value being the new environment *)
BindInEnv(x, e, env, m) ==
  IF e.e = "Abstraction"
  THEN LET sym == Numbered("let", m.letCtr)
       IN  Done(Register([m EXCEPT !.letCtr = @ + 1], sym, e), (x :> LambdaEntry(sym)) @@ env)
  ELSE Then(Lower(e, env, m), LAMBDA r : Done(r.m, (x :> Entry(r.v)) @@ env))

\* A defect: a lambda captures nothing.
NoCaptures(info, self, env) == <<>>

(* lambda_captures: the free variables of a lambda that are values in the  *)
(* environment of the place where it is used.                              *)
LambdaCaptures(info, self, env) ==
  LET xs == SetToSeq({x \in FreeOf(info.body) \ (Range(info.params) \cup {self}) : IsValue(env, x)})
  IN  [i \in DOMAIN xs |-> [x |-> xs[i], v |-> env[xs[i]].v]]
CapturedValues(caps) == [i \in DOMAIN caps |-> caps[i].v]
CapturedNames(caps) == [i \in DOMAIN caps |-> caps[i].x]

(* specialize_binding: the function for a lambda at a type.  It is in the  *)
(* cache before its body is lowered, so a recursive use finds it.          *)
SpecKey(name, t, caps) == <<name, DefaultFreeVars(t), TypesOf(CapturedValues(caps))>>

SpecializeBinding(name, self, t, caps, m) ==
  LET info == m.abs[name]
      n == Len(info.params)
      parts == ConcreteFuncParts(t, n)
      key == SpecKey(name, t, caps)
      u == Unify(info.t, DefaultFreeVars(t), 0)
      symbol == Numbered(name \o "_spec", m.specCtr)
      body == ResolveTypes(info.body, u.s)
      ins == TypesOf(CapturedValues(caps)) \o [i \in 1 .. n |-> LowerType(parts.params[i])]
      args == Arguments(m, ins)
      m1 == WithArguments([m EXCEPT !.spec = (key :> symbol) @@ @, !.specCtr = @ + 1], ins)
      own == Bound(<<>>, CapturedNames(caps) \o info.params, args)
      env == IF self = name THEN own ELSE (self :> LambdaEntry(name)) @@ own
      r == IF HasSelfTailCall(body, self, n, m.inl)
           THEN LowerTail(body, env, m1, symbol)
           ELSE Then(Lower(body, env, m1), LAMBDA v : Done(v.m, Ends("return", <<v.v>>, <<>>)))
  IN  IF ~parts.ok THEN Err("not a function type with enough parameters")
      ELSE IF key \in DOMAIN m.spec THEN Done(m, m.spec[key])
      ELSE IF ~u.ok THEN Err("cannot specialize")
      ELSE IF NoType \in Range(ins) \cup {LowerType(parts.ret)} THEN Err("cannot lower the type")
      ELSE Nested(r, LAMBDA b :
             Done(AddFunction(b.m, symbol, args, LowerType(parts.ret),
                              [code |-> b.code, term |-> b.v]), symbol))

(* reference_specialization: the function as a value *)
ReferenceSpecialization(name, self, t, env, m) ==
  LET info == m.abs[name]
      parts == ConcreteFuncParts(t, Len(info.params))
  IN  IF LambdaCaptures(info, self, env) # <<>> THEN Err("a closure with captures as a value")
      ELSE Then(SpecializeBinding(name, self, t, <<>>, m), LAMBDA s :
             Emit(s.m, "constant", <<>>,
                  FuncType([i \in DOMAIN parts.params |-> LowerType(parts.params[i])],
                           LowerType(parts.ret)), s.v, <<>>))

(* build_enum_value, without a payload *)
LowerNullary(x, m) ==
  Then(Emit(m, "nil", <<>>, Ptr, "", <<>>), LAMBDA p :
    Emit(p.m, "enum", <<p.v>>, Ptr, m.ctors[x].index, <<>>))

(* What a name stands for is looked up in this order. *)
LowerVariable(e, env, m) ==
  LET x == e.x
  IN  CASE IsValue(env, x) -> Done(m, env[x].v)
        [] IsLambda(env, x) -> ReferenceSpecialization(env[x].sym, x, e.t, env, m)
        [] x \notin DOMAIN env ->
             IF x \in DOMAIN m.inl THEN Lower(m.inl[x], env, m)
             ELSE IF x \in DOMAIN m.abs THEN ReferenceSpecialization(x, x, e.t, env, m)
             ELSE IF x \in DOMAIN m.ctors /\ m.ctors[x].arity = 0 THEN LowerNullary(x, m)
             ELSE IF x \notin DOMAIN m.syms THEN Err("undefined variable")
             ELSE IF Inputs(m.syms[x]) # <<>> THEN Emit(m, "constant", <<>>, m.syms[x], x, <<>>)
             ELSE Emit(m, "call", <<>>, Output(m.syms[x]), x, <<>>)

-----------------------------------------------------------------------------
(* lower_application *)
LowerConstructor(e, env, m) ==
  LET ctor == m.ctors[e.e1.x]
  IN  IF ctor.arity # 1 THEN Err("constructor applied to the wrong number of arguments")
      ELSE IF StructType(<<TypeOf(e.e2)>>) = NoType THEN Err("failed to create payload struct type")
      ELSE Then(Lower(e.e2, env, m), LAMBDA v :
             Emit(v.m, "enum", <<v.v>>, Ptr, ctor.index, <<>>))

\* A defect: a local lambda does not hide the top-level one of its name.
TopLevelFirst(root, env, m) ==
  IF root.e # "Variable" THEN ""
  ELSE IF root.x \in DOMAIN m.abs THEN root.x
  ELSE IF IsLambda(env, root.x) THEN env[root.x].sym ELSE ""

(* The lambda an application calls: the local one of that name, else the   *)
(* top-level one, else none.                                               *)
Callee(root, env, m) ==
  IF root.e # "Variable" THEN ""
  ELSE IF IsLambda(env, root.x) THEN env[root.x].sym
  ELSE IF root.x \in DOMAIN m.abs THEN root.x ELSE ""

LowerFullApplication(sym, root, args, env, m) ==
  LET info == m.abs[sym]
      caps == LambdaCaptures(info, root.x, env)
  IN  Then(SpecializeBinding(sym, root.x, root.t, caps, m), LAMBDA s :
      Then(LowerAll(args, env, s.m), LAMBDA vs :
        Emit(vs.m, "call", CapturedValues(caps) \o vs.v,
             LowerType(ConcreteFuncParts(root.t, Len(info.params)).ret), s.v, <<>>)))

(* A function of the remaining parameters is emitted, in which the given   *)
(* arguments are lowered.  Too many arguments are a panic.                 *)
LowerPartialApplication(sym, root, args, env, m) ==
  LET info == m.abs[sym]
      n == Len(info.params)
      k == Len(args)
      parts == ConcreteFuncParts(root.t, n)
      out == LowerType(parts.ret)
      ins == [i \in 1 .. (n - k) |-> LowerType(parts.params[k + i])]
  IN  IF LambdaCaptures(info, root.x, env) # <<>> THEN Err("partial application of a closure")
      ELSE Then(SpecializeBinding(sym, root.x, root.t, <<>>, m), LAMBDA s :
        IF k > n THEN Err("panic")
        ELSE LET symbol == Numbered(sym \o "_partial", s.m.specCtr)
                 rest == Arguments(s.m, ins)
                 env1 == Bound(<<>>, SubSeq(info.params, k + 1, n), rest)
                 m1 == WithArguments([s.m EXCEPT !.specCtr = @ + 1], ins)
                 call == Then(LowerAll(args, env1, m1), LAMBDA vs :
                           Emit(vs.m, "call", vs.v \o rest, out, s.v, <<>>))
             IN  Nested(call, LAMBDA c :
                   Emit(AddFunction(c.m, symbol, rest, out, Returning(c)),
                        "constant", <<>>, FuncType(ins, out), symbol, <<>>)))

(* Any other function value.  A closure gets the last argument only.       *)
LowerValueApplication(e, root, args, env, m) ==
  Then(Lower(root, env, m), LAMBDA f :
    IF IsFunc(f.v.ty)
    THEN IF Len(args) # Len(Inputs(f.v.ty)) THEN Err("partial application of a function value")
         ELSE Then(LowerAll(args, env, f.m), LAMBDA vs :
                Emit(vs.m, "call_indirect", <<f.v>> \o vs.v, Output(f.v.ty), "", <<>>))
    ELSE Then(Lower(e.e2, env, f.m), LAMBDA v :
           Emit(v.m, "closure_call", <<f.v, v.v>>, LowerType(DefaultFreeVars(e.e1.t.a[2])),
                "", <<>>)))

LowerApplication(e, env, m) ==
  LET call == CollectApplicationRoot(e, m.inl)
      sym == Callee(call.root, env, m)
  IN  IF e.e1.e = "Variable" /\ e.e1.x \in DOMAIN m.ctors THEN LowerConstructor(e, env, m)
      ELSE IF sym = "" THEN LowerValueApplication(e, call.root, call.args, env, m)
      ELSE IF Len(call.args) = Len(m.abs[sym].params)
      THEN LowerFullApplication(sym, call.root, call.args, env, m)
      ELSE LowerPartialApplication(sym, call.root, call.args, env, m)

(* lower_abstraction: a lambda without a name.  What it captures is copied *)
(* into a closure, functions being no data that can be copied (the LLVM    *)
(* dialect has no structure with a field of function type).                *)
LowerAbstraction(e, env, m) ==
  LET info == Info(e)
      parts == ConcreteFuncParts(e.t, Len(info.params))
      xs == SetToSeq((DOMAIN env \cap FreeOf(info.body)) \ Range(info.params))
      caps == [i \in DOMAIN xs |-> env[xs[i]].v]
      own == [i \in DOMAIN parts.params |-> LowerType(parts.params[i])]
      ins == IF xs = <<>> THEN own ELSE Append(own, I64)
      args == Arguments(m, ins)
      symbol == Numbered("closure", m.closures)
      m1 == WithArguments([m EXCEPT !.closures = @ + 1], ins)
      loads == FoldLeft(LAMBDA r, i : Then(r, LAMBDA vs :
                 Then(Emit(vs.m, "load", <<Last(args)>>, caps[i].ty, i, <<>>), LAMBDA v :
                   Done(v.m, Append(vs.v, v.v)))), Done(m1, <<>>), [i \in DOMAIN xs |-> i])
      body == Then(loads, LAMBDA vs :
                Lower(info.body, Bound(<<>>, info.params \o xs, SubSeq(args, 1, Len(own)) \o vs.v),
                      vs.m))
  IN  IF ~parts.ok THEN Err("not a function type with enough parameters")
      ELSE IF NoType \in Range(ins) THEN Err("cannot lower the type")
      ELSE IF \E i \in DOMAIN xs : IsLambda(env, xs[i]) \/ IsFunc(caps[i].ty)
      THEN Err("cannot capture a function")
      ELSE Nested(body, LAMBDA b :
             LET m2 == AddFunction(b.m, symbol, args, b.v.ty, Returning(b))
             IN  IF xs = <<>> THEN Emit(m2, "constant", <<>>, FuncType(ins, b.v.ty), symbol, <<>>)
                 ELSE Emit(m2, "closure", caps, Ptr, symbol, <<>>))

-----------------------------------------------------------------------------
(* Bindings and control *)
LowerLet(e, env, m) ==
  Then(BindInEnv(e.x, e.e1, env, m), LAMBDA b : Lower(e.e2, b.v, b.m))

(* lower_block_stmt, one after the other; the value is the environment. *)
LowerStatements(sts, env, m) ==
  FoldLeft(LAMBDA r, st : Then(r, LAMBDA b :
             IF st.k = "Decl" THEN BindInEnv(st.x, st.exp, b.v, b.m)
             ELSE Then(Lower(st.exp, b.v, b.m), LAMBDA v : Done(v.m, b.v))),
           Done(m, env), sts)

LowerIfElse(e, env, m) ==
  Then(Lower(e.cond, env, m), LAMBDA c :
  Nested(Lower(e.e1, env, c.m), LAMBDA t :
  Nested(Lower(e.e2, env, t.m), LAMBDA f :
    Emit(f.m, "if", <<c.v>>, TypeOf(e), "", <<Yields(t), Yields(f)>>))))

(* && and || evaluate their second operand only if it is needed. *)
LowerLogical(e, env, m) ==
  Then(Lower(e.e1, env, m), LAMBDA a :
    IF e.op = "^" THEN Then(Lower(e.e2, env, a.m), LAMBDA b :
                         Emit(b.m, "^", <<a.v, b.v>>, I1, "", <<>>))
    ELSE Nested(Lower(e.e2, env, a.m), LAMBDA b :
         Nested(Emit(b.m, "const", <<>>, I1, IF e.op = "||" THEN 1 ELSE 0, <<>>), LAMBDA c :
           Emit(c.m, "if", <<a.v>>, I1, "",
                IF e.op = "&&" THEN <<Yields(b), Yields(c)>> ELSE <<Yields(c), Yields(b)>>))))

(* primitive_kind: what the type checker left open is an int. *)
PrimitiveKind(e) == DefaultFreeVars(e.t).f

(* lower_arith and lower_comparison: the operands' kind picks the operation. *)
LowerArith(e, env, m) ==
  LET kind == PrimitiveKind(e.e1)
  IN  Then(LowerAll(<<e.e1, e.e2>>, env, m), LAMBDA vs :
        IF kind = "Str" /\ e.op = "+" THEN Concatenate(vs.v[1], vs.v[2], vs.m)
        ELSE IF kind = "Int" \/ (kind = "Float" /\ e.op # "%")
        THEN Emit(vs.m, e.op, vs.v, LowerType(Con(kind)), "", <<>>)
        ELSE Err("unsupported operand type"))

LowerComparison(e, env, m) ==
  Then(LowerAll(<<e.e1, e.e2>>, env, m), LAMBDA vs :
    CASE PrimitiveKind(e.e1) \in {"Int", "Bool"} -> Emit(vs.m, "cmpi", vs.v, I1, e.op, <<>>)
      [] PrimitiveKind(e.e1) = "Float" -> Emit(vs.m, "cmpf", vs.v, I1, e.op, <<>>)
      [] OTHER -> Err("comparison not implemented"))

LowerUnary(e, env, m) ==
  LET kind == PrimitiveKind(e.exp)
  IN  Then(Lower(e.exp, env, m), LAMBDA v :
        IF e.op = "!" THEN Emit(v.m, "!", <<v.v>>, I1, "", <<>>)
        ELSE IF kind \in {"Int", "Float"} THEN Emit(v.m, "neg", <<v.v>>, LowerType(Con(kind)), "", <<>>)
        ELSE Err("unsupported operand type"))

(* build_cons: the head is stored as its type says. *)
BuildCons(head, elem, tail, m) ==
  IF StructType(<<TypeOf(elem)>>) = NoType THEN Err("failed to create cons cell type")
  ELSE Emit(m, "cons", <<head, tail>>, Ptr, TypeOf(elem), <<>>)

(* The elements of a list are evaluated from the last to the first. *)
LowerList(e, env, m) ==
  FoldRight(LAMBDA x, r : Then(r, LAMBDA l : Then(Lower(x, env, l.m), LAMBDA h :
              BuildCons(h.v, x, l.v, h.m))),
            e.es, Emit(m, "nil", <<>>, Ptr, "", <<>>))

LowerCons(e, env, m) ==
  Then(LowerAll(<<e.e1, e.e2>>, env, m), LAMBDA vs : BuildCons(vs.v[1], e.e1, vs.v[2], vs.m))

-----------------------------------------------------------------------------
(* Records.  The fields of a structure are those of the row recorded in    *)
(* the term, in its order, and are evaluated in that order.                *)
HasField(fs, label) == \E i \in DOMAIN fs : fs[i].l = label
FieldIndex(fs, label) == CHOOSE i \in DOMAIN fs :
  fs[i].l = label /\ \A j \in 1 .. (i - 1) : fs[j].l # label
FieldType(fs, label) == LowerType(DefaultFreeVars(fs[FieldIndex(fs, label)].t))
Fields(e) == RecordFields(DefaultFreeVars(e.t))

InsertField(acc, index, e, env) ==
  Then(Lower(e, env, acc.m), LAMBDA v :
    Emit(v.m, "insert", <<acc.v, v.v>>, acc.v.ty, index, <<>>))

LowerRecord(e, env, m) ==
  LET fs == Fields(e)
  IN  IF \E i \in DOMAIN fs : ~HasField(e.fs, fs[i].l) THEN Err("missing field")
      ELSE FoldLeft(LAMBDA r, i : Then(r, LAMBDA acc :
                      InsertField(acc, i, e.fs[FieldIndex(e.fs, fs[i].l)].exp, env)),
                    Emit(m, "undef", <<>>, TypeOf(e), "", <<>>), [i \in DOMAIN fs |-> i])

LowerFieldAccess(e, env, m) ==
  Then(Lower(e.exp, env, m), LAMBDA v :
    IF HasField(Fields(e.exp), e.l)
    THEN Emit(v.m, "extract", <<v.v>>, TypeOf(e), FieldIndex(Fields(e.exp), e.l), <<>>)
    ELSE Err("record has no such field"))

LowerWith(e, env, m) ==
  LET fs == Fields(e.exp)
  IN  FoldLeft(LAMBDA r, fa : Then(r, LAMBDA acc :
                 IF HasField(fs, fa.l) THEN InsertField(acc, FieldIndex(fs, fa.l), fa.exp, env)
                 ELSE Err("record has no such field")),
               Lower(e.exp, env, m), e.fs)

-----------------------------------------------------------------------------
(* Patterns.  case_pattern: what a pattern binds, by which loads, and the  *)
(* discriminant it asks for.                                               *)
Loads(x, op, ty, ref) == <<[x |-> x, op |-> op, ty |-> ty, ref |-> ref]>>
Pattern(binds, index) == [ok |-> TRUE, binds |-> binds, index |-> index]

(* enum_variant_fields: the payload's type, given that of the scrutinee *)
PayloadMonotype(ctor, st, m) ==
  LET enum == m.enums[ctor.enum]
      args == IF st.f = "Enum" /\ st.l = ctor.enum THEN st.a ELSE <<>>
      known == {i \in DOMAIN enum.params : i \in DOMAIN args}
  IN  DefaultFreeVars(Instantiate(enum.variants[ctor.index].fields[1],
        [p \in {enum.params[i] : i \in known} |->
           args[CHOOSE i \in known : enum.params[i] = p]]))

(* A field of a record is bound to a name, or tested against a literal. *)
RecordPattern(p, fs) ==
  IF \E i \in DOMAIN p.fs : p.fs[i].exp.e \notin {"Variable", "Literal"} \/ ~HasField(fs, p.fs[i].l)
  THEN Err("unsupported record pattern field")
  ELSE LET bound == SelectSeq(p.fs, LAMBDA fa : fa.exp.e = "Variable")
       IN  Pattern(FlattenSeq([i \in DOMAIN bound |->
                     Loads(bound[i].exp.x, "extract", FieldType(fs, bound[i].l),
                           FieldIndex(fs, bound[i].l))]), 0)

CasePattern(p, st, m) ==
  CASE p.e = "Literal" \/ (p.e = "List" /\ p.es = <<>>) -> Pattern(<<>>, 0)
    [] p.e = "Cons" ->
         IF {p.e1.e, p.e2.e} = {"Variable"} /\ st.f = "List"
         THEN Pattern(Loads(p.e1.x, "head", LowerType(DefaultFreeVars(st.a[1])), "")
                        \o Loads(p.e2.x, "tail", Ptr, ""), 0)
         ELSE Err("unsupported cons pattern")
    [] p.e = "Application" ->
         LET xs == PatternBoundVars(p.e2)
         IN  IF /\ p.e1.e = "Variable" /\ p.e1.x \in DOMAIN m.ctors
                /\ m.ctors[p.e1.x].arity = 1 /\ Len(xs) = 1
             THEN Pattern(Loads(xs[1], "payload", LowerType(PayloadMonotype(m.ctors[p.e1.x], st, m)), ""),
                          m.ctors[p.e1.x].index)
             ELSE Err("unsupported constructor pattern")
    [] p.e = "Record" -> RecordPattern(p, RecordFields(st))
    [] p.e = "Variable" ->
         IF m.ctors[p.x].arity = 0 THEN Pattern(<<>>, m.ctors[p.x].index)
         ELSE Err("unsupported constructor pattern")
    [] OTHER -> Err("unsupported match pattern")

(* A name matches anything, unless it is a constructor's. *)
CatchAll(p, m) == p.e = "Variable" /\ p.x \notin DOMAIN m.ctors

(* destructure_pattern; the value is the environment of the case. *)
Destructure(pat, scrut, env, m) ==
  FoldLeft(LAMBDA r, b : Then(r, LAMBDA d : Then(Emit(d.m, b.op, <<scrut>>, b.ty, b.ref, <<>>),
             LAMBDA v : Done(v.m, (b.x :> Entry(v.v)) @@ d.v))),
           Done(m, env), pat.binds)

(* All the fields that are tested, whatever the earlier tests gave. *)
RecordCondition(p, fs, scrut, m) ==
  FoldLeft(LAMBDA r, fa : Then(r, LAMBDA c :
    Then(Emit(c.m, "extract", <<scrut>>, FieldType(fs, fa.l), FieldIndex(fs, fa.l), <<>>), LAMBDA v :
    Then(LowerLiteral(fa.exp, v.m), LAMBDA l :
    Then(Emit(l.m, "cmpi", <<v.v, l.v>>, I1, "==", <<>>), LAMBDA q :
      Emit(q.m, "&", <<c.v, q.v>>, I1, "", <<>>))))),
    IntegerConstant(1, I1, m), SelectSeq(p.fs, LAMBDA fa : fa.exp.e = "Literal"))

CaseCondition(p, pat, scrut, st, m) ==
  CASE p.e = "Literal" -> Then(LowerLiteral(p, m), LAMBDA v :
                            Emit(v.m, "cmpi", <<scrut, v.v>>, I1, "==", <<>>))
    [] p.e = "Record" -> RecordCondition(p, RecordFields(st), scrut, m)
    [] p.e = "List" -> Emit(m, "is_null", <<scrut>>, I1, "", <<>>)
    [] p.e = "Cons" -> Then(Emit(m, "is_null", <<scrut>>, I1, "", <<>>), LAMBDA v :
                         Emit(v.m, "!", <<v.v>>, I1, "", <<>>))
    [] OTHER -> Emit(m, "disc_eq", <<scrut>>, I1, pat.index, <<>>)

(* lower_match: a chain of conditionals.  The last case is not tested. *)
RECURSIVE LowerCases(_, _, _, _, _, _)
LowerCases(scrut, st, ty, cases, env, m) ==
  LET p == Head(cases).pat
      body == Head(cases).exp
      last == Len(cases) = 1
  IN  IF CatchAll(p, m)
      THEN IF last THEN Lower(body, (p.x :> Entry(scrut)) @@ env, m)
           ELSE Err("catch-all pattern must be the last case")
      ELSE Nested(CasePattern(p, st, m), LAMBDA pat :
        IF last
        THEN Then(Destructure(pat, scrut, env, m), LAMBDA d : Lower(body, d.v, d.m))
        ELSE Then(CaseCondition(p, pat, scrut, st, m), LAMBDA c :
             Nested(Then(Destructure(pat, scrut, env, c.m), LAMBDA d : Lower(body, d.v, d.m)), LAMBDA t :
             Nested(LowerCases(scrut, st, ty, Tail(cases), env, t.m), LAMBDA f :
               Emit(f.m, "if", <<c.v>>, ty, "", <<Yields(t), Yields(f)>>)))))

LowerMatch(e, env, m) ==
  Then(Lower(e.exp, env, m), LAMBDA s :
    LowerCases(s.v, DefaultFreeVars(e.exp.t), TypeOf(e), e.cases, env, s.m))

-----------------------------------------------------------------------------
(* lower_expr *)
Lower(e, env, m) ==
  CASE e.e = "Literal" -> LowerLiteral(e, m)
    [] e.e = "Variable" -> LowerVariable(e, env, m)
    [] e.e = "Abstraction" -> LowerAbstraction(e, env, m)
    [] e.e = "Application" -> LowerApplication(e, env, m)
    [] e.e = "Let" -> LowerLet(e, env, m)
    [] e.e = "IfElse" -> LowerIfElse(e, env, m)
    [] e.e = "Block" -> Then(LowerStatements(e.sts, env, m), LAMBDA b : Lower(e.exp, b.v, b.m))
    [] e.e = "Match" -> LowerMatch(e, env, m)
    [] e.e = "Comparison" -> LowerComparison(e, env, m)
    [] e.e = "Arithmetic" -> LowerArith(e, env, m)
    [] e.e = "Logical" -> LowerLogical(e, env, m)
    [] e.e = "Unary" -> LowerUnary(e, env, m)
    [] e.e = "List" -> LowerList(e, env, m)
    [] e.e = "Cons" -> LowerCons(e, env, m)
    [] e.e = "FieldAccess" -> LowerFieldAccess(e, env, m)
    [] e.e = "Record" -> LowerRecord(e, env, m)
    [] e.e = "With" -> LowerWith(e, env, m)

(* Lowering in tail position (tail.rs).  The value is the terminator: a    *)
(* conditional branch to two blocks, a branch back to the head of the      *)
(* function symbol, or a return.                                           *)
Ended(r) == [code |-> r.code, term |-> r.v]
Branches(c, t, f) == Ends("cond_br", <<c.v>>, <<Ended(t), Ended(f)>>)

\* A defect: no tail call is a branch.
NoTailCallBranches(e, env, m, symbol) ==
  Then(Lower(e, env, m), LAMBDA v : Done(v.m, Ends("return", <<v.v>>, <<>>)))

(* try_self_tail_call: what is called is the function being emitted.  If   *)
(* it is another one, it has been specialized all the same.                *)
LowerTailApplication(e, env, m, symbol) ==
  LET call == CollectApplicationRoot(e, m.inl)
      sym == Callee(call.root, env, m)
      info == m.abs[sym]
      caps == LambdaCaptures(info, call.root.x, env)
      Returned(m1) == Then(Lower(e, env, m1), LAMBDA v : Done(v.m, Ends("return", <<v.v>>, <<>>)))
  IN  IF sym = "" THEN Returned(m)
      ELSE IF Len(call.args) # Len(info.params) THEN Returned(m)
      ELSE Then(SpecializeBinding(sym, call.root.x, call.root.t, caps, m), LAMBDA s :
        IF s.v # symbol THEN Returned(s.m)
        ELSE Then(LowerAll(call.args, env, s.m), LAMBDA vs :
               Done(vs.m, Ends("br", CapturedValues(caps) \o vs.v, <<>>))))

RECURSIVE LowerTailCases(_, _, _, _, _, _)
LowerTailCases(scrut, st, cases, env, m, symbol) ==
  LET p == Head(cases).pat
      body == Head(cases).exp
      last == Len(cases) = 1
  IN  IF CatchAll(p, m)
      THEN IF last THEN LowerTail(body, (p.x :> Entry(scrut)) @@ env, m, symbol)
           ELSE Err("catch-all pattern must be the last case")
      ELSE Nested(CasePattern(p, st, m), LAMBDA pat :
        IF last
        THEN Then(Destructure(pat, scrut, env, m), LAMBDA d : LowerTail(body, d.v, d.m, symbol))
        ELSE Then(CaseCondition(p, pat, scrut, st, m), LAMBDA c :
             Nested(Then(Destructure(pat, scrut, env, c.m), LAMBDA d :
                           LowerTail(body, d.v, d.m, symbol)), LAMBDA t :
             Nested(LowerTailCases(scrut, st, Tail(cases), env, t.m, symbol), LAMBDA f :
               Done(f.m, Branches(c, t, f))))))

LowerTail(e, env, m, symbol) ==
  CASE e.e = "IfElse" ->
         Then(Lower(e.cond, env, m), LAMBDA c :
         Nested(LowerTail(e.e1, env, c.m, symbol), LAMBDA t :
         Nested(LowerTail(e.e2, env, t.m, symbol), LAMBDA f :
           Done(f.m, Branches(c, t, f)))))
    [] e.e = "Let" ->
         Then(BindInEnv(e.x, e.e1, env, m), LAMBDA b : LowerTail(e.e2, b.v, b.m, symbol))
    [] e.e = "Block" ->
         Then(LowerStatements(e.sts, env, m), LAMBDA b : LowerTail(e.exp, b.v, b.m, symbol))
    [] e.e = "Match" ->
         Then(Lower(e.exp, env, m), LAMBDA s :
           LowerTailCases(s.v, DefaultFreeVars(e.exp.t), e.cases, env, s.m, symbol))
    [] e.e = "Application" -> LowerTailApplication(e, env, m, symbol)
    [] OTHER -> Then(Lower(e, env, m), LAMBDA v : Done(v.m, Ends("return", <<v.v>>, <<>>)))

-----------------------------------------------------------------------------
(* Statements of a program.  lower_decl: a lambda is registered, an        *)
(* application that is a function is kept to be inlined, anything else is  *)
(* a function without parameters, evaluated whenever the name is used.     *)
(* Its result has the annotated type, as it is written.                    *)
LowerDecl(st, m) ==
  CASE st.exp.e = "Abstraction" -> Done(Register(m, st.x, st.exp), <<>>)
    [] st.exp.e = "Application" /\ ~IsScalarType(st.exp.t) ->
         Done([m EXCEPT !.inl = (st.x :> st.exp) @@ @], <<>>)
    [] OTHER ->
         Nested(Lower(st.exp, <<>>, m), LAMBDA r :
           LET out == IF st.ann.f = "Infer" THEN r.v.ty ELSE LowerType(st.ann)
           IN  IF out = NoType THEN Err("cannot lower the type")
               ELSE Done([AddFunction(r.m, st.x, <<>>, out, Returning(r))
                          EXCEPT !.syms = (st.x :> FuncType(<<>>, out)) @@ @], <<>>))

(* lower_type_decl *)
LowerTypeDecl(st, m) ==
  LET taken == m.aliases \cup DOMAIN m.enums \cup (IF st.dec = "Record" THEN m.records ELSE {})
  IN  CASE st.name \in taken -> Err("already declared")
        [] st.dec = "Alias" /\ st.name \notin taken -> Done([m EXCEPT !.aliases = @ \cup {st.name}], <<>>)
        [] st.dec = "Record" /\ st.name \notin taken -> Done([m EXCEPT !.records = @ \cup {st.name}], <<>>)
        [] st.dec = "Enum" /\ st.name \notin taken ->
             Done([m EXCEPT !.enums = (st.name :> [params |-> st.params, variants |-> st.variants]) @@ @,
                            !.ctors = [x \in {v.x : v \in Range(st.variants)} |->
                              LET i == CHOOSE i \in DOMAIN st.variants : st.variants[i].x = x
                              IN  [enum |-> st.name, index |-> i,
                                   arity |-> Len(st.variants[i].fields)]] @@ @], <<>>)

(* lower: expression statements are appended to @__main, which returns the *)
(* value of the last statement if that is one.                             *)
LowerStatement(st, m) ==
  LET Nothing(r) == Done([r.m EXCEPT !.last = <<>>], <<>>)
      Entered(r) == Done([r.m EXCEPT !.entry = @ \o r.code, !.last = <<r.v>>], <<>>)
  IN  CASE st.k = "Type" -> Nested(LowerTypeDecl(st, m), Nothing)
        [] st.k = "Decl" -> Nested(LowerDecl(st, m), Nothing)
        [] st.k = "Expr" -> Nested(Lower(st.exp, <<>>, m), Entered)

(* emit_entry_function: @__main as the last statement leaves it *)
EntryFunction(m) ==
  [name |-> "__main", args |-> <<>>, out |-> IF m.last = <<>> THEN I32 ELSE m.last[1].ty,
   body |-> [code |-> m.entry, term |-> Ends("yield", m.last, <<>>)]]
EmitEntryFunction(m) == [m EXCEPT !.funcs = Append(@, EntryFunction(m))]

\* A defect: whatever is an i32 is returned.
EmitMainWrapperAny(m, t) ==
  LET call == Emit(m, "call", <<>>, EntryFunction(m).out, "__main", <<>>)
      zero == Then(call, LAMBDA r : IntegerConstant(0, I32, r.m))
      r == IF EntryFunction(m).out = I32 /\ m.last # <<>> THEN call ELSE zero
  IN  AddFunction(EmitEntryFunction(r.m), "main", <<>>, I32, Returning(r))

(* emit_main_wrapper, t being the type of the last statement if that is an *)
(* expression: @main returns its value if it is an int, and 0 if not.      *)
EmitMainWrapper(m, t) ==
  LET call == Emit(m, "call", <<>>, EntryFunction(m).out, "__main", <<>>)
      zero == Then(call, LAMBDA r : IntegerConstant(0, I32, r.m))
      r == IF m.last # <<>> /\ DefaultFreeVars(t) = TInt THEN call ELSE zero
  IN  AddFunction(EmitEntryFunction(r.m), "main", <<>>, I32, Returning(r))

=============================================================================
