------------------------------ MODULE Runtime ------------------------------
(***************************************************************************)
(* The runtime functions every module starts with (stmt.rs, from           *)
(* register_runtime_builtins to emit_readin): functions of the module      *)
(* around calls of the C library, registered as symbols with parameters.   *)
(*                                                                         *)
(* A C function that fills a buffer yields the filled buffer here.         *)
(***************************************************************************)
EXTENDS Emission
LOCAL INSTANCE Integers
LOCAL INSTANCE SequencesExt

(* A builtin of one argument, appended to the module and registered. *)
BuiltinFunction(m, name, in, out, Body(_, _)) ==
  LET arg == Arguments(m, <<in>>)
      r == Body(arg[1], WithArguments(m, <<in>>))
  IN  [AddFunction(r.m, name, arg, out, Returning(r))
       EXCEPT !.syms = (name :> FuncType(<<in>>, out)) @@ @]

EmitPrint(m) == BuiltinFunction(m, "print", Ptr, I32, LAMBDA s, m1 :
  Then(PtrToInt(s, m1), LAMBDA p : CallExtern(p.m, "printf", <<p.v>>, I32)))

EmitPrintln(m) == BuiltinFunction(m, "println", Ptr, I32, LAMBDA s, m1 :
  Then(PtrToInt(s, m1), LAMBDA p : CallExtern(p.m, "puts", <<p.v>>, I32)))

(* A number is widened to a double and written to a buffer of size bytes.  *)
Formatted(n, widen, size, format, m) ==
  Then(Emit(m, widen, <<n>>, F64, "", <<>>), LAMBDA x :
  Then(MallocCall(size, x.m), LAMBDA buf :
  Then(LowerString(format, buf.m), LAMBDA fmt :
  Then(PtrToInt(buf.v, fmt.m), LAMBDA to :
  Then(PtrToInt(fmt.v, to.m), LAMBDA by :
  Then(CallExtern(by.m, "sprintf", <<to.v, by.v, x.v>>, I64), LAMBDA s :
    IntToPtr(s.v, s.m)))))))

EmitItostr(m) == BuiltinFunction(m, "itostr", I32, Ptr, LAMBDA n, m1 :
  Formatted(n, "sitofp", 12, "%.0f", m1))

EmitFtostr(m) == BuiltinFunction(m, "ftostr", F32, Ptr, LAMBDA x, m1 :
  Formatted(x, "extf", 32, "%.7g", m1))

EmitBtostr(m) == BuiltinFunction(m, "btostr", I1, Ptr, LAMBDA b, m1 :
  Then(LowerString("true", m1), LAMBDA t :
  Then(LowerString("false", t.m), LAMBDA f : Emit(f.m, "select", <<b, t.v, f.v>>, Ptr, "", <<>>))))

EmitStrtoi(m) == BuiltinFunction(m, "strtoi", Ptr, I32, LAMBDA s, m1 :
  Then(PtrToInt(s, m1), LAMBDA p : CallExtern(p.m, "atoi", <<p.v>>, I32)))

EmitStrtof(m) == BuiltinFunction(m, "strtof", Ptr, F32, LAMBDA s, m1 :
  Then(PtrToInt(s, m1), LAMBDA p :
  Then(CallExtern(p.m, "atof", <<p.v>>, F64), LAMBDA x : Emit(x.m, "truncf", <<x.v>>, F32, "", <<>>))))

EmitStrtob(m) == BuiltinFunction(m, "strtob", Ptr, I1, LAMBDA s, m1 :
  Then(PtrToInt(s, m1), LAMBDA p :
  Then(LowerString("true", p.m), LAMBDA t :
  Then(PtrToInt(t.v, t.m), LAMBDA q :
  Then(CallExtern(q.m, "strcmp", <<p.v, q.v>>, I32), LAMBDA c :
  Then(IntegerConstant(0, I32, c.m), LAMBDA zero :
    Emit(zero.m, "cmpi", <<c.v, zero.v>>, I1, "==", <<>>)))))))

EmitItof(m) == BuiltinFunction(m, "itof", I32, F32, LAMBDA n, m1 :
  Emit(m1, "sitofp", <<n>>, F32, "", <<>>))

EmitFtoi(m) == BuiltinFunction(m, "ftoi", F32, I32, LAMBDA x, m1 :
  Emit(m1, "fptosi", <<x>>, I32, "", <<>>))

(* One read of up to 1023 bytes; what follows the first newline is cut off *)
(* by strcspn.  Storing the two NULs is part of cut.                       *)
EmitReadin(m) == BuiltinFunction(m, "readin", I32, Ptr, LAMBDA u, m1 :
  Then(MallocCall(1024, m1), LAMBDA buf :
  Then(PtrToInt(buf.v, buf.m), LAMBDA p :
  Then(IntegerConstant(0, I32, p.m), LAMBDA fd :
  Then(IntegerConstant(1023, I64, fd.m), LAMBDA count :
  Then(CallExtern(count.m, "read", <<fd.v, p.v, count.v>>, I64), LAMBDA read :
  Then(LowerString("\n", read.m), LAMBDA nl :
  Then(PtrToInt(nl.v, nl.m), LAMBDA q :
  Then(CallExtern(q.m, "strcspn", <<read.v, q.v>>, I64), LAMBDA end :
    IntToPtr(end.v, end.m))))))))))

(* register_runtime_builtins, on the module that lower starts with *)
RegisterRuntimeBuiltins(m) ==
  LET m1 == EnsureExtern(EnsureExtern(m, "printf", <<I64>>, I32), "puts", <<I64>>, I32)
      m2 == EmitItostr(EmitPrintln(EmitPrint(m1)))
      m3 == EmitStrtoi(EmitBtostr(EmitFtostr(m2)))
      m4 == EmitItof(EmitStrtob(EmitStrtof(m3)))
  IN  EmitReadin(EmitFtoi(m4))
InitialModule == RegisterRuntimeBuiltins(EmptyModule)

(* The part of lower_arith that concatenates two strings: a buffer of      *)
(* their lengths and one for the NUL, filled by strcpy and strcat.         *)
Concatenate(a, b, m) ==
  Then(PtrToInt(a, m), LAMBDA p :
  Then(PtrToInt(b, p.m), LAMBDA q :
  Then(CallExtern(q.m, "strlen", <<p.v>>, I64), LAMBDA j :
  Then(CallExtern(j.m, "strlen", <<q.v>>, I64), LAMBDA k :
  Then(Emit(k.m, "+", <<j.v, k.v>>, I64, "", <<>>), LAMBDA total :
  Then(IntegerConstant(1, I64, total.m), LAMBDA one :
  Then(Emit(one.m, "+", <<total.v, one.v>>, I64, "", <<>>), LAMBDA length :
  Then(CallExtern(length.m, "malloc", <<length.v>>, I64), LAMBDA buf :
  Then(CallExtern(buf.m, "strcpy", <<buf.v, p.v>>, I64), LAMBDA dest :
  Then(CallExtern(dest.m, "strcat", <<dest.v, q.v>>, I64), LAMBDA s : IntToPtr(s.v, s.m)))))))))))

=============================================================================
