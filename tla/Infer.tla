------------------------------- MODULE Infer -------------------------------
(***************************************************************************)
(* Algorithm W over the whole expression language (types.rs: algo_w, the   *)
(* infer_* functions, type_pattern, handle_type_decl, Stmt::typecheck).    *)
(*                                                                         *)
(* A context [v, al, en, n] is a TypeContext: the polytypes of the names,  *)
(* the type aliases, the enum names and the counter of type variables.     *)
(* The code mutates a context; here every function returns it.  The result *)
(* of W is a context, a substitution, a type, and the expression with the  *)
(* type of every node in it; or Error: an error ends the whole statement,  *)
(* whose context is dropped.                                               *)
(***************************************************************************)
EXTENDS Terms

(* builtins: the runtime functions every program starts with *)
Builtin(from, to) == Mono(Fn(Con(from), Con(to)))
Builtins ==
  [print |-> Builtin("Str", "Unit"), println |-> Builtin("Str", "Unit"),
   itostr |-> Builtin("Int", "Str"), ftostr |-> Builtin("Float", "Str"),
   btostr |-> Builtin("Bool", "Str"), strtoi |-> Builtin("Str", "Int"),
   strtof |-> Builtin("Str", "Float"), strtob |-> Builtin("Str", "Bool"),
   itof |-> Builtin("Int", "Float"), ftoi |-> Builtin("Float", "Int"),
   readin |-> Builtin("Unit", "Str")]

IsBuiltin(x) == x \in DOMAIN Builtins

(* TypeContext::new *)
NewContext == [v |-> Builtins, al |-> [x \in {} |-> 0], en |-> {}, n |-> 0]

Add(c, x, p) == [c EXCEPT !.v = (x :> p) @@ c.v]
Remove(c, x) == [c EXCEPT !.v = [y \in DOMAIN c.v \ {x} |-> c.v[y]]]
ApplyCtx(c, s) == [c EXCEPT !.v = [x \in DOMAIN c.v |-> PolyApply(c.v[x], s)]]
CtxFree(c) == UNION {PolyFree(c.v[x]) : x \in DOMAIN c.v}

(* The binding x had in the context old is put back, as it was there. *)
Restore(c, x, old) == IF x \in DOMAIN old.v THEN Add(c, x, old.v[x]) ELSE Remove(c, x)

NewVar(c) == Var(TypeVar(c.n))
Allocated(c, k) == [c EXCEPT !.n = c.n + k]

(* TypeContext::generalise *)
\* Defects: variables of the context are generalised too; nothing is.
GeneraliseAll(c, t) ==
  LET g == Generalise(t, {}, c.n) IN [p |-> g.p, c |-> [c EXCEPT !.n = g.n]]
GeneraliseNothing(c, t) == [p |-> Mono(t), c |-> c]

GeneraliseIn(c, t) ==
  LET g == Generalise(t, CtxFree(c), c.n)
  IN  [p |-> g.p, c |-> [c EXCEPT !.n = g.n]]

(* Results, and what follows a step that may fail. *)
Error == [ok |-> FALSE]
Return(c, s, t) == [ok |-> TRUE, c |-> c, s |-> s, t |-> t]
Typed(c, s, t, e) == [ok |-> TRUE, c |-> c, s |-> s, t |-> t, e |-> e]
Try(r, Then(_)) == IF r.ok THEN Then(r) ELSE Error

UnifyIn(c, t1, t2) ==
  LET u == Unify(t1, t2, c.n)
  IN  [ok |-> u.ok, s |-> u.s, c |-> [c EXCEPT !.n = u.n]]

RECURSIVE Combined(_)
Combined(ss) ==  \* a.combine(b).combine(c) ...
  IF Len(ss) = 1 THEN ss[1]
  ELSE Combine(Combined(SubSeq(ss, 1, Len(ss) - 1)), ss[Len(ss)])

-----------------------------------------------------------------------------
(* expand: a written type with its holes made fresh variables and its      *)
(* aliases unfolded.  An alias may not unfold to itself.                   *)
RECURSIVE Expand(_, _, _), ExpandAll(_, _, _)

Expand(t, c, visited) ==
  IF IsVar(t) THEN Return(c, EmptySub, t)
  ELSE Try(ExpandAll(t.a, c, visited), LAMBDA args :
    CASE t.f = "Infer" -> Return(Allocated(args.c, 1), EmptySub, NewVar(args.c))
      [] t.f = "Enum" /\ t.l \in DOMAIN args.c.al ->
           LET alias == args.c.al[t.l]
           IN  IF t.l \in visited \/ Len(args.t) # Len(alias.params) THEN Error
               ELSE Expand(Instantiate(alias.rhs,
                             [p \in {alias.params[i] : i \in DOMAIN alias.params} |->
                                args.t[CHOOSE i \in DOMAIN alias.params :
                                         alias.params[i] = p]]),
                           args.c, visited \cup {t.l})
      [] OTHER -> Return(args.c, EmptySub, [t EXCEPT !.a = args.t]))

ExpandAll(ts, c, visited) ==
  IF ts = <<>> THEN Return(c, EmptySub, <<>>)
  ELSE Try(Expand(Head(ts), c, visited), LAMBDA h :
       Try(ExpandAll(Tail(ts), h.c, visited), LAMBDA r :
       Return(r.c, EmptySub, <<h.t>> \o r.t)))

TypeToTypefn(t, c) == Expand(t, c, {})

-----------------------------------------------------------------------------
(* check_exhaustive looks at the outermost nodes of the patterns only: any *)
(* name, also that of a constructor, covers everything.                    *)
IsBool(p, b) == p.e = "Literal" /\ p.lit = "Bool" /\ p.value = b
CheckExhaustive(t, cases) ==
  LET Covered(P(_)) == \E i \in DOMAIN cases : P(cases[i].pat)
  IN  \/ Covered(LAMBDA p : p.e = "Variable")
      \/ /\ t.f = "Bool"
         /\ \A b \in {0, 1} : Covered(LAMBDA p : IsBool(p, b))
      \/ /\ t.f = "List"
         /\ Covered(LAMBDA p : p.e = "List" /\ p.es = <<>>)
         /\ Covered(LAMBDA p : p.e = "Cons")

(* literal_monotype *)
LiteralType(lit) == Con(lit)

(* record_row_fields: the fields of a closed record, in order *)
RECURSIVE RowFields(_)
RowFields(row) ==
  IF row.f = "RowExt" THEN <<<<row.l, row.a[1]>>>> \o RowFields(row.a[2]) ELSE <<>>

-----------------------------------------------------------------------------
(* type_pattern: binds the pattern's variables in c, refines the type t of *)
(* the scrutinee and returns the substitution.                             *)
RECURSIVE TypePattern(_, _, _), PatternItems(_, _, _, _), PatternFields(_, _, _, _),
          ConstructorArgs(_, _, _, _)

Spine(p) ==  \* the head and the arguments of nested applications
  LET RECURSIVE F(_, _)
      F(q, args) == IF q.e = "Application" THEN F(q.e1, <<q.e2>> \o args)
                    ELSE [head |-> q, args |-> args]
  IN  F(p, <<>>)

TypePattern(c, p, t) ==
  CASE p.e = "Literal" ->
         Try(UnifyIn(c, t, LiteralType(p.lit)), LAMBDA u :
         Return(ApplyCtx(u.c, u.s), u.s, t))
    [] p.e = "Variable" -> Return(Add(c, p.x, Mono(t)), EmptySub, t)
    [] p.e = "Cons" ->
         LET alpha == NewVar(c)
         IN  Try(UnifyIn(Allocated(c, 1), t, List(alpha)), LAMBDA u0 :
             LET elem == Apply(alpha, u0.s)
             IN  Try(TypePattern(ApplyCtx(u0.c, u0.s), p.e1, elem), LAMBDA u1 :
                 Try(TypePattern(u1.c, p.e2, List(Apply(elem, u1.s))), LAMBDA u2 :
                 Return(u2.c, Combined(<<u0.s, u1.s, u2.s>>), t))))
    [] p.e = "List" ->
         LET alpha == NewVar(c)
         IN  Try(UnifyIn(Allocated(c, 1), t, List(alpha)), LAMBDA u0 :
             PatternItems(ApplyCtx(u0.c, u0.s), p.es, Apply(alpha, u0.s), u0.s))
    [] p.e = "Application" ->
         LET sp == Spine(p)
         IN  IF sp.head.e # "Variable" \/ sp.head.x \notin DOMAIN c.v THEN Error
             ELSE LET i == Instance(c.v[sp.head.x], c.n)
                  IN  Try(ConstructorArgs([c EXCEPT !.n = i.n], sp.args, i.t, EmptySub),
                        LAMBDA r :
                      Try(UnifyIn(r.c, t, r.t), LAMBDA u :
                      \* u.s is not applied to the context
                      Return(u.c, Combine(r.s, u.s), t)))
    [] p.e = "Record" ->
         LET n == Len(p.fs)
             row == Var(TypeVar(c.n))
             alphas == [i \in 1 .. n |-> Var(TypeVar(c.n + n + 1 - i))]
             RECURSIVE RowFrom(_)
             RowFrom(i) == IF i > n THEN row ELSE RowExt(p.fs[i].l, alphas[i], RowFrom(i + 1))
         IN  Try(UnifyIn(Allocated(c, n + 1), t, Rec(RowFrom(1))), LAMBDA u0 :
             PatternFields(ApplyCtx(u0.c, u0.s), p.fs, alphas, u0.s))
    [] OTHER -> Error

(* The elements of a list pattern; the element type stays as it was. *)
PatternItems(c, ps, elem, s) ==
  IF ps = <<>> THEN Return(c, s, elem)
  ELSE Try(TypePattern(c, Head(ps), elem), LAMBDA u :
       PatternItems(ApplyCtx(u.c, u.s), Tail(ps), elem, Combine(s, u.s)))

PatternFields(c, fs, alphas, s) ==
  IF fs = <<>> THEN Return(c, s, TUnit)
  ELSE Try(TypePattern(c, Head(fs).exp, Apply(Head(alphas), s)), LAMBDA u :
       PatternFields(ApplyCtx(u.c, u.s), Tail(fs), Tail(alphas), Combine(s, u.s)))

(* The arguments of a constructor of type ctor, from the first. *)
ConstructorArgs(c, args, ctor, s) ==
  IF args = <<>> THEN Return(c, s, ctor)
  ELSE IF ctor.f # "Fn" THEN Error
  ELSE Try(TypePattern(c, Head(args), Apply(ctor.a[1], s)), LAMBDA u :
       LET s2 == Combine(s, u.s)
       IN  ConstructorArgs(ApplyCtx(u.c, u.s), Tail(args), Apply(ctor.a[2], s2), s2))

-----------------------------------------------------------------------------
RECURSIVE W(_, _), WElements(_, _, _, _), WStatements(_, _, _), WCases(_, _, _, _, _),
          WFields(_, _, _, _), WDeclared(_, _, _, _, _), WUpdates(_, _, _, _)

InferVariable(c, e) ==
  IF e.x \notin DOMAIN c.v THEN Error
  ELSE LET i == Instance(c.v[e.x], c.n)
       IN  Typed([c EXCEPT !.n = i.n], EmptySub, i.t, e)

\* A defect: the parameter stays in the context.
AbstractionLeaks(c, e) ==
  Try(TypeToTypefn(e.ann, c), LAMBDA beta :
  Try(W(Add(beta.c, e.x, Mono(beta.t)), e.body), LAMBDA r :
  Typed(r.c, r.s, Apply(Fn(beta.t, r.t), r.s), [e EXCEPT !.body = r.e])))

InferAbstraction(c, e) ==
  Try(TypeToTypefn(e.ann, c), LAMBDA beta :
  Try(W(Add(beta.c, e.x, Mono(beta.t)), e.body), LAMBDA r :
  Typed(Restore(r.c, e.x, beta.c), r.s, Apply(Fn(beta.t, r.t), r.s), [e EXCEPT !.body = r.e])))

(* The two parts of a node, the second in what the first leaves. *)
Parts(c, e, Next(_, _)) ==
  Try(W(c, e.e1), LAMBDA r1 :
  Try(W(ApplyCtx(r1.c, r1.s), e.e2), LAMBDA r2 : Next(r1, r2)))
WithParts(e, r1, r2) == [e EXCEPT !.e1 = r1.e, !.e2 = r2.e]

InferApplication(c, e) ==
  Parts(c, e, LAMBDA r1, r2 :
    LET ret == NewVar(r2.c)
    IN  Try(UnifyIn(Allocated(r2.c, 1), Apply(r1.t, r2.s), Fn(r2.t, ret)), LAMBDA u :
        Typed(u.c, Combined(<<r1.s, r2.s, u.s>>), Apply(ret, u.s), WithParts(e, r1, r2))))

(* let x = e1 in e2: x is recursive in e1, and is not removed after e2. *)
InferLet(c, e) ==
  IF IsBuiltin(e.x) THEN Error
  ELSE LET recVar == NewVar(c)
       IN  Try(W(Add(Allocated(c, 1), e.x, Mono(recVar)), e.e1), LAMBDA r1 :
           Try(UnifyIn(ApplyCtx(r1.c, r1.s), r1.t, Apply(recVar, r1.s)), LAMBDA u :
             LET known == Combine(r1.s, u.s)
                 g == GeneraliseIn(Restore(ApplyCtx(u.c, known), e.x, c), Apply(r1.t, u.s))
             IN  Try(W(Add(g.c, e.x, g.p), e.e2), LAMBDA r2 :
                 Typed(r2.c, Combine(known, r2.s), r2.t, WithParts(e, r1, r2)))))

InferIfElse(c, e) ==
  Try(W(c, e.cond), LAMBDA r1 :
  Try(UnifyIn(r1.c, r1.t, TBool), LAMBDA u2 :
  Try(W(ApplyCtx(ApplyCtx(u2.c, r1.s), u2.s), e.e1), LAMBDA r3 :
  Try(W(ApplyCtx(r3.c, r3.s), e.e2), LAMBDA r4 :
  Try(UnifyIn(r4.c, Apply(r3.t, r4.s), r4.t), LAMBDA u5 :
  Typed(u5.c, Combined(<<r1.s, u2.s, r3.s, r4.s, u5.s>>),
        Apply(Apply(r3.t, r4.s), u5.s),
        [WithParts(e, r3, r4) EXCEPT !.cond = r1.e]))))))

(* A declaration in a block or at top level.  s is what has been learnt    *)
(* in the block before it; the type is that of the name.                   *)
WDeclaration(c, st, s) ==
  IF IsBuiltin(st.x) THEN Error
  ELSE Try(TypeToTypefn(st.ann, c), LAMBDA b :
       Try(W(Add(b.c, st.x, Mono(b.t)), st.exp), LAMBDA r :
         LET s1 == Combine(s, r.s)
         IN  Try(UnifyIn(ApplyCtx(r.c, r.s), Apply(b.t, s1), r.t), LAMBDA u :
               LET known == Combine(s1, u.s)
                   t == Apply(b.t, known)
                   g == GeneraliseIn(Restore(ApplyCtx(u.c, u.s), st.x, b.c), t)
               IN  Typed(Add(g.c, st.x, g.p), known, t, r.e))))

(* The statements of a block; e is the sequence of the typed statements. *)
WStatements(c, sts, s) ==
  IF sts = <<>> THEN Typed(c, s, TUnit, <<>>)
  ELSE LET st == Head(sts)
           Following(r) == Try(WStatements(r.c, Tail(sts), r.s), LAMBDA q :
                             [q EXCEPT !.e = <<[st EXCEPT !.exp = r.e]>> \o @])
       IN  IF st.k = "Decl" THEN Try(WDeclaration(c, st, s), Following)
           ELSE Try(W(c, st.exp), LAMBDA r :
                Following(Typed(ApplyCtx(r.c, r.s), Combine(s, r.s), r.t, r.e)))

(* infer_block: the names it declares are not removed after it. *)
InferBlock(c, e) ==
  Try(WStatements(c, e.sts, EmptySub), LAMBDA r1 :
  Try(W(r1.c, e.exp), LAMBDA r2 :
  Typed(r2.c, Combine(r1.s, r2.s), r2.t, [e EXCEPT !.sts = r1.e, !.exp = r2.e])))

(* infer_list: what unifying two elements teaches is not applied to the    *)
(* context in which the next element is checked.                           *)
WElements(c, es, s, elem) ==
  IF es = <<>> THEN Typed(c, s, List(elem), <<>>)
  ELSE Try(W(c, Head(es)), LAMBDA r :
       Try(UnifyIn(ApplyCtx(r.c, r.s), elem, r.t), LAMBDA u :
       Try(WElements(u.c, Tail(es), Combined(<<s, r.s, u.s>>), Apply(elem, u.s)), LAMBDA q :
       [q EXCEPT !.e = <<r.e>> \o @])))

InferList(c, e) ==
  IF e.es = <<>> THEN Typed(Allocated(c, 1), EmptySub, List(NewVar(c)), e)
  ELSE Try(W(c, Head(e.es)), LAMBDA r :
       Try(WElements(ApplyCtx(r.c, r.s), Tail(e.es), r.s, r.t), LAMBDA q :
       [q EXCEPT !.e = [e EXCEPT !.es = <<r.e>> \o q.e]]))

InferCons(c, e) ==
  Parts(c, e, LAMBDA r1, r2 :
    LET elem == Apply(r1.t, r2.s)
    IN  Try(UnifyIn(r2.c, r2.t, List(elem)), LAMBDA u :
        Typed(u.c, Combined(<<r1.s, r2.s, u.s>>), List(Apply(elem, u.s)), WithParts(e, r1, r2))))

(* infer_match: every case in a clone of the context, of which only the    *)
(* counter survives.                                                       *)
WCases(c, cases, s, t, ret) ==
  IF cases = <<>> THEN Typed(c, s, t, <<>>)
  ELSE Try(TypePattern(ApplyCtx(c, s), Head(cases).pat, t), LAMBDA p :
         LET s1 == Combine(s, p.s)
         IN  Try(W(p.c, Head(cases).exp), LAMBDA r :
               LET s2 == Combine(s1, r.s)
                   c2 == [c EXCEPT !.n = IF r.c.n > c.n THEN r.c.n ELSE c.n]
               IN  Try(UnifyIn(c2, Apply(ret, s2), Apply(r.t, s2)), LAMBDA u :
                     LET s3 == Combine(s2, u.s)
                     IN  Try(WCases(u.c, Tail(cases), s3, Apply(t, s3), ret), LAMBDA q :
                         [q EXCEPT !.e = <<[Head(cases) EXCEPT !.exp = r.e]>> \o @]))))

InferMatch(c, e) ==
  Try(W(c, e.exp), LAMBDA r :
    LET ret == NewVar(r.c)
    IN  Try(WCases(ApplyCtx(Allocated(r.c, 1), r.s), e.cases, r.s, r.t, ret), LAMBDA m :
        IF CheckExhaustive(m.t, e.cases)
        THEN Typed(m.c, m.s, Apply(ret, m.s), [e EXCEPT !.exp = r.e, !.cases = m.e])
        ELSE Error))

(* Operands of one type; an operator accepts the ground types in allowed,  *)
(* and a type variable, which it leaves as general as it is.               *)
Operands(c, e, allowed, Result(_)) ==
  Parts(c, e, LAMBDA r1, r2 :
    Try(UnifyIn(r2.c, Apply(r1.t, r2.s), r2.t), LAMBDA u :
      LET t == Apply(Apply(r1.t, r2.s), u.s)
      IN  IF IsVar(t) \/ t \in allowed
          THEN Typed(u.c, Combined(<<r1.s, r2.s, u.s>>), Result(t), WithParts(e, r1, r2))
          ELSE Error))

Numeric == {Con("Int"), Con("Float")}

InferArithmetic(c, e) ==
  Operands(c, e, IF e.op = "+" THEN Numeric \cup {Con("Str")} ELSE Numeric, LAMBDA t : t)

InferComparison(c, e) ==
  Operands(c, e, IF e.op \in {"==", "!="} THEN Numeric \cup {Con("Str"), TBool} ELSE Numeric,
           LAMBDA t : TBool)

InferLogical(c, e) ==
  Parts(c, e, LAMBDA r1, r2 :
  Try(UnifyIn(r2.c, Apply(r1.t, r2.s), r2.t), LAMBDA u3 :
  Try(UnifyIn(u3.c, Apply(Apply(r1.t, r2.s), u3.s), TBool), LAMBDA u4 :
  Typed(u4.c, Combined(<<r1.s, r2.s, u3.s, u4.s>>), TBool, WithParts(e, r1, r2)))))

InferUnary(c, e) ==
  Try(W(c, e.exp), LAMBDA r :
    LET typed == [e EXCEPT !.exp = r.e]
    IN  IF e.op = "-"
        THEN IF IsVar(r.t) \/ r.t \in Numeric
             THEN Typed(ApplyCtx(r.c, r.s), r.s, r.t, typed)
             ELSE Error
        ELSE Try(UnifyIn(r.c, r.t, TBool), LAMBDA u :
               LET s == Combine(r.s, u.s) IN Typed(ApplyCtx(u.c, s), s, TBool, typed)))

InferFieldAccess(c, e) ==
  Try(W(c, e.exp), LAMBDA r :
    LET alpha == NewVar(r.c)
        rho == NewVar(Allocated(r.c, 1))
    IN  Try(UnifyIn(ApplyCtx(Allocated(r.c, 2), r.s), Apply(r.t, r.s),
                    Rec(RowExt(e.l, alpha, rho))), LAMBDA u :
          LET s == Combine(r.s, u.s) IN Typed(u.c, s, Apply(alpha, s), [e EXCEPT !.exp = r.e])))

(* infer_anonymous_record: the row lists the last field first.  The values *)
(* of the fields are typed in place.                                       *)
WFields(c, fs, s, row) ==
  IF fs = <<>> THEN Typed(c, s, Rec(row), <<>>)
  ELSE Try(W(c, Head(fs).exp), LAMBDA r :
       Try(WFields(ApplyCtx(r.c, r.s), Tail(fs), Combine(s, r.s),
                   RowExt(Head(fs).l, Apply(r.t, r.s), Apply(row, r.s))), LAMBDA q :
       [q EXCEPT !.e = <<[Head(fs) EXCEPT !.exp = r.e]>> \o @]))

(* infer_named_record: the fields in the order they are declared in. *)
WDeclared(c, declared, fs, s, t) ==
  IF declared = <<>> THEN Typed(c, s, Apply(t, s), fs)
  ELSE LET given == {i \in DOMAIN fs : fs[i].l = Head(declared)[1]}
       IN  IF given = {} THEN Error
           ELSE LET i == CHOOSE i \in given : \A j \in given : i <= j
                IN  Try(W(c, fs[i].exp), LAMBDA r :
                      LET s1 == Combine(s, r.s)
                      IN  Try(UnifyIn(ApplyCtx(r.c, r.s), Apply(Head(declared)[2], s1), r.t),
                            LAMBDA u :
                          WDeclared(ApplyCtx(u.c, u.s), Tail(declared),
                                    [fs EXCEPT ![i].exp = r.e], Combine(s1, u.s), t)))

InferNamedRecord(c, name, fs) ==
  IF name \notin DOMAIN c.al THEN Error
  ELSE LET alias == c.al[name]
           n == Len(alias.params)
           rec == Instantiate(alias.rhs,
                    [p \in {alias.params[i] : i \in 1 .. n} |->
                       Var(TypeVar(c.n - 1 + CHOOSE i \in 1 .. n : alias.params[i] = p))])
           declared == RowFields(PeelRec(rec))
           labels == {declared[i][1] : i \in DOMAIN declared}
       IN  IF rec.f = "Rec" /\ {fs[i].l : i \in DOMAIN fs} \subseteq labels
           THEN WDeclared(Allocated(c, n), declared, fs, EmptySub, rec)
           ELSE Error

InferRecord(c, e) ==
  Try(IF e.name = "" THEN WFields(c, e.fs, EmptySub, EmptyRow)
      ELSE InferNamedRecord(c, e.name, e.fs),
      LAMBDA r : [r EXCEPT !.e = [e EXCEPT !.fs = r.e]])

(* infer_with: the record has the field, and keeps its type. *)
WUpdates(c, fs, s, t) ==
  IF fs = <<>> THEN Typed(c, s, Apply(t, s), <<>>)
  ELSE LET tau == NewVar(c)
           rho == NewVar(Allocated(c, 1))
       IN  Try(UnifyIn(Allocated(c, 2), Apply(t, s), Rec(RowExt(Head(fs).l, tau, rho))),
             LAMBDA u1 :
             LET s1 == Combine(s, u1.s)
             IN  Try(W(ApplyCtx(u1.c, u1.s), Head(fs).exp), LAMBDA r :
                   LET s2 == Combine(s1, r.s)
                   IN  Try(UnifyIn(ApplyCtx(r.c, r.s), Apply(tau, s2), r.t), LAMBDA u3 :
                       Try(WUpdates(ApplyCtx(u3.c, u3.s), Tail(fs), Combine(s2, u3.s), t),
                         LAMBDA q : [q EXCEPT !.e = <<[Head(fs) EXCEPT !.exp = r.e]>> \o @]))))

InferWith(c, e) ==
  Try(W(c, e.exp), LAMBDA r :
  Try(WUpdates(ApplyCtx(r.c, r.s), e.fs, r.s, r.t), LAMBDA q :
  [q EXCEPT !.e = [e EXCEPT !.exp = r.e, !.fs = q.e]]))

(* algo_w: the type of every node is recorded in the node. *)
W(c, e) ==
  Try(CASE e.e = "Variable" -> InferVariable(c, e)
        [] e.e = "Literal" -> Typed(c, EmptySub, LiteralType(e.lit), e)
        [] e.e = "Abstraction" -> InferAbstraction(c, e)
        [] e.e = "Application" -> InferApplication(c, e)
        [] e.e = "Let" -> InferLet(c, e)
        [] e.e = "IfElse" -> InferIfElse(c, e)
        [] e.e = "Block" -> InferBlock(c, e)
        [] e.e = "List" -> InferList(c, e)
        [] e.e = "Cons" -> InferCons(c, e)
        [] e.e = "Match" -> InferMatch(c, e)
        [] e.e = "Arithmetic" -> InferArithmetic(c, e)
        [] e.e = "Comparison" -> InferComparison(c, e)
        [] e.e = "Logical" -> InferLogical(c, e)
        [] e.e = "Unary" -> InferUnary(c, e)
        [] e.e = "FieldAccess" -> InferFieldAccess(c, e)
        [] e.e = "Record" -> InferRecord(c, e)
        [] e.e = "With" -> InferWith(c, e),
      LAMBDA r : [r EXCEPT !.e = [t |-> r.t] @@ @])

-----------------------------------------------------------------------------
(* handle_type_decl.  The parameters of the declaration become fresh       *)
(* variables, and nothing but them may occur in it (check_undeclared).     *)
Declares(fresh, t) == FreeVariables(t) \subseteq {fresh[i] : i \in DOMAIN fresh}

RECURSIVE WFieldTypes(_, _, _), WVariants(_, _, _, _, _)

(* The types of fields, from the last; m maps the parameters. *)
WFieldTypes(c, ts, m) ==
  IF ts = <<>> THEN Return(c, EmptySub, <<>>)
  ELSE Try(WFieldTypes(c, Tail(ts), m), LAMBDA r :
       Try(TypeToTypefn(Instantiate(Head(ts), m), r.c), LAMBDA h :
       Return(h.c, EmptySub, <<h.t>> \o r.t)))

(* The constructors, each with the generalised type of a function from its *)
(* fields to the enum.                                                     *)
WVariants(c, variants, m, enum, fresh) ==
  IF variants = <<>> THEN Return(c, EmptySub, TUnit)
  ELSE Try(WFieldTypes(c, Head(variants).fields, m), LAMBDA r :
         LET RECURSIVE FnFrom(_)
             FnFrom(ts) == IF ts = <<>> THEN enum ELSE Fn(Head(ts), FnFrom(Tail(ts)))
             ctor == FnFrom(r.t)
             g == GeneraliseIn(r.c, ctor)
         IN  IF Declares(fresh, ctor)
             THEN WVariants(Add(g.c, Head(variants).x, g.p), Tail(variants), m, enum, fresh)
             ELSE Error)

AddAlias(c, name, fresh, t) ==
  [c EXCEPT !.al = (name :> [params |-> fresh, rhs |-> t]) @@ c.al]

WTypeDecl(c, st) ==
  LET fresh == [i \in DOMAIN st.params |-> TypeVar(c.n + i - 1)]
      m == [p \in {st.params[i] : i \in DOMAIN st.params} |->
              Var(fresh[CHOOSE i \in DOMAIN fresh : st.params[i] = p])]
      start == Allocated(c, Len(st.params))
  IN  IF st.name \in DOMAIN c.al \cup c.en THEN Error
      ELSE CASE st.dec = "Enum" ->
                  WVariants([start EXCEPT !.en = c.en \cup {st.name}], st.variants, m,
                            Enum(st.name, [i \in DOMAIN fresh |-> Var(fresh[i])]), fresh)
             [] st.dec = "Record" ->
                  Try(WFieldTypes(start, [i \in DOMAIN st.fs |-> st.fs[i].t], m), LAMBDA r :
                    LET RECURSIVE RowFrom(_)
                        RowFrom(i) == IF i > Len(st.fs) THEN EmptyRow
                                      ELSE RowExt(st.fs[i].l, r.t[i], RowFrom(i + 1))
                    IN  IF \A i \in DOMAIN r.t : Declares(fresh, r.t[i])
                        THEN Return(AddAlias(r.c, st.name, fresh, Rec(RowFrom(1))),
                                    EmptySub, TUnit)
                        ELSE Error)
             [] st.dec = "Alias" ->
                  LET rhs == Instantiate(st.rhs, m)
                  IN  IF Declares(fresh, rhs)
                      THEN Return(AddAlias(start, st.name, fresh, rhs), EmptySub, TUnit)
                      ELSE Error

(* Stmt::typecheck: the context the program goes on with and the statement *)
(* with what has been learnt applied to its types, or Error.               *)
Typecheck(c, st) ==
  LET Resolved(r) == [r EXCEPT !.e = [st EXCEPT !.exp = ResolveTypes(r.e, r.s)]]
  IN  CASE st.k = "Decl" -> Try(WDeclaration(c, st, EmptySub), Resolved)
        [] st.k = "Expr" -> Try(W(c, st.exp), LAMBDA r :
                            Resolved(Typed(ApplyCtx(r.c, r.s), r.s, r.t, r.e)))
        [] st.k = "Type" -> Try(WTypeDecl(c, st), LAMBDA r : Typed(r.c, r.s, r.t, st))

=============================================================================
