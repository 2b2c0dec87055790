----------------------------- MODULE Compiler -----------------------------
(***************************************************************************)
(* The code generator of internal/codegen: trees of the parser to          *)
(* instructions <<op, operand, ...>>.  Each compile function of the code   *)
(* is an operator from generators to generators.  An index of the code is  *)
(* one more than in Go, as sequences start at 1.                           *)
(*                                                                         *)
(* spawn and channels are in Fibers; the decimals of Write are left out,   *)
(* as reals are.                                                           *)
(***************************************************************************)
EXTENDS Types

Emit(g, ins) == [g EXCEPT !.code = Append(@, ins)]
Here(g) == Len(g.code) + 1
Patch(g, at, target) == [g EXCEPT !.code[at][2] = target]
PatchAll(g, ats, target) == FoldLeft(LAMBDA g1, at : Patch(g1, at, target), g, ats)
\* A jump whose target is patched.
EmitJump(g, op) == Emit(g, <<op, 0>>)
\* One step after the other: g is worked out before the step from it begins, so
\* that long programs do not become deep terms.
InTurn(Step(_, _), g, steps) ==
  FoldLeft(LAMBDA g1, s : CHOOSE g3 \in {Step(g2, s) : g2 \in {g1}} : TRUE, g, steps)
\* What a call leaves is dropped where the call is a statement.
DiscardNothing(g, asStmt) == g
Discard(g, asStmt) == IF asStmt THEN Emit(g, <<"Pop">>) ELSE g

\* The functions that compile what nests in each other, by name.
RECURSIVE Compiling(_, _, _)
CompileExpr(g, e) == Compiling("expression", g, <<e>>)
CompileAddr(g, e) == Compiling("address", g, <<e>>)
CompileStmt(g, s) == Compiling("statement", g, <<s>>)
CompileCall(g, f, args, asStmt) == Compiling("call", g, <<f, args, asStmt>>)
CompileValueFor(g, ti, e) == Compiling("value", g, <<ti, e>>)
AssignToVar(g, n, ti, v) == Compiling("assignment", g, <<n, ti, v>>)
LoadVar(g, n) == Compiling("variable", g, <<n>>)
CompileMatch(g, m, isExpr) == Compiling("match", g, <<m, isExpr>>)
EmitArm(p, arm, scrut, isExpr) == Compiling("arm", p, <<arm, scrut, isExpr>>)
CompileCase(g, s) == Compiling("case", g, <<s>>)
CompileAnonFunc(g, e) == Compiling("function", g, <<e>>)
CompileBody(g, r) == Compiling("routine", g, <<r>>)
DeclareGlobal(g, d) == Compiling("global", g, <<d>>)
LoadUnit(g, n) == Compiling("unit", g, <<n>>)
CompileProgram(g, prog) == Compiling("program", g, <<prog>>)
RECURSIVE TypeOf(_, _), ExprType(_, _), MethodOwner(_, _, _)

---------------------------------------------------------------------------
(* What is known of an expression. *)

\* The type of an lvalue.  A property with a getter method has none: methods
\* have no signature in funcs, where methodResultType looks.
TypeOf(g, e) ==
  LET base == TypeOf(g, e[2])
      n == e[3][1]
      f == BackingField(base, n)
  IN  CASE IsIdent(e) -> IF IsDefined(g, NameOf(e)) THEN Deref(g, Lookup(g, NameOf(e)).ti) ELSE NoType
        [] IsTree(e, "field") ->
             IF HasProp(base, n) /\ HasMethod(base, base.props[n].read) THEN NoType
             ELSE IF HasField(base, f) THEN Deref(g, FieldType(base, f)) ELSE NoType
        [] IsTree(e, "index") -> IF base.kind = "array" THEN Deref(g, base.elem) ELSE NoType
        [] IsTree(e, "deref") -> PointerElem(g, base)
        [] OTHER -> NoType

IsUnary(e) == Len(e) = 2 /\ e[1] \in {"+", "-", "not"}
IsBinary(e) == Len(e) = 3 /\ e[1] \in BinaryOps \cup CompareOps
ExprType(g, e) ==
  LET n == NameOf(e) IN
  CASE IsTree(e, "lit") -> LiteralValue[n][1]
    [] IsIdent(e) -> IF n \in {"true", "false"} THEN "bool"
                     ELSE IF ~IsDefined(g, n) THEN "unknown"
                     ELSE LET vi == Lookup(g, n)
                          IN  IF vi.kind = "const" THEN vi.typ ELSE Vt(Deref(g, vi.ti))
    [] IsBinary(e) -> IF e[1] \in CompareOps \cup {"and", "or"} THEN "bool" ELSE "int"
    [] IsUnary(e) -> IF e[1] = "not" THEN "bool" ELSE ExprType(g, e[2])
    [] IsTree(e, "call") -> IF IsIdent(e[2]) /\ NameOf(e[2]) \in DOMAIN g.funcs
                            THEN g.funcs[NameOf(e[2])].resultType ELSE "unknown"
    [] e[1] \in {"field", "index", "deref"} -> Vt(TypeOf(g, e))
    [] OTHER -> "unknown"

\* A class named where no variable has the name.
NamesClass(g, e) ==
  /\ IsIdent(e)
  /\ NameOf(e) \in DOMAIN g.types
  /\ IsObject(g.types[NameOf(e)]) /\ g.types[NameOf(e)].isClass
  /\ ~IsDefined(g, NameOf(e))
HelperMethod(g, ti, m) ==
  IF <<ti.name, m>> \in DOMAIN g.helpers THEN g.helpers[<<ti.name, m>>] ELSE ""
OperatorKey(op, left, right) == <<op, left, right>>
OperatorFor(g, e) ==
  LET key == OperatorKey(e[1], TypeOf(g, e[2]).name, TypeOf(g, e[3]).name)
  IN  IF key[2] # "" /\ key[3] # "" /\ key \in DOMAIN g.operators THEN g.operators[key] ELSE ""

---------------------------------------------------------------------------
(* Variables. *)

\* A bare name that is no variable may be a field of a record of with, of the
\* innermost that has it, or of Self.
IsWithField(g, n) == \E k \in DOMAIN g.withs : HasField(g.withs[k].ti, n)
WithFieldAddr(g, n) ==
  LET k == CHOOSE k \in DOMAIN g.withs :
             /\ HasField(g.withs[k].ti, n)
             /\ \A j \in k + 1..Len(g.withs) : ~HasField(g.withs[j].ti, n)
  IN  Emit(CompileAddr(g, g.withs[k].expr), <<"FieldAddr", n>>)
IsSelfField(g, n) == g.obj # "" /\ HasField(g.types[g.obj], n)
SelfFieldAddr(g, n) == Emit(Emit(g, <<"LoadLocal", 1>>), <<"FieldAddr", n>>)

IsBareField(g, n) == ~IsDefined(g, n) /\ (IsWithField(g, n) \/ IsSelfField(g, n))
BareFieldAddr(g, n) == IF IsWithField(g, n) THEN WithFieldAddr(g, n) ELSE SelfFieldAddr(g, n)

\* A literal of another category than the scalar it is assigned to.
CategoryOf == [s \in {"int", "currency", "str", "char", "bool", "unknown"} |->
  CASE s \in {"int", "currency"} -> 1 [] s \in {"str", "char"} -> 2 [] s = "bool" -> 3 [] OTHER -> 0]
CheckAssignable(g, ti, e) ==
  IF /\ ti.kind \in {"scalar", "string"} /\ IsTree(e, "lit")
     /\ CategoryOf[Vt(ti)] \notin {0, CategoryOf[ExprType(g, e)]}
  THEN Failed(g) ELSE g
ValueCode(g, ti, e) ==
  LET g1 == CompileExpr(CheckAssignable(g, ti, e), e)
  IN  IF ti.kind = "scalar" /\ ti.scalar = "currency" THEN Emit(g1, <<"ToCurrency">>) ELSE g1

\* The value to store: an expression, or <<"step", op, variable, by>> for
\* Inc, Dec and the step of a loop.
Generate(g, ti, v) ==
  IF IsTree(v, "step") THEN Emit(CompileExpr(LoadVar(g, v[3]), v[4]), <<"Binary", v[2]>>)
  ELSE CompileValueFor(g, ti, v)

AssignCode(g, n, ti, v) ==
  LET vi == Lookup(g, n)
      val == Generate(g, ti, v)
  IN  IF IsBareField(g, n) THEN Emit(Generate(BareFieldAddr(g, n), ti, v), <<"StoreRef">>)
      ELSE IF ~IsDefined(g, n) \/ vi.imm THEN Failed(g)
      ELSE CASE vi.kind = "global" -> Emit(val, <<"StoreGlobal", vi.at>>)
             [] vi.kind \in {"local", "param"} -> Emit(val, <<"StoreLocal", vi.at>>)
             [] vi.kind = "varparam" ->
                  Emit(Generate(Emit(g, <<"LoadLocal", vi.at>>), ti, v), <<"StoreRef">>)
             [] vi.kind = "result" -> Emit(val, <<"SetResult">>)
             [] vi.kind = "const" -> Failed(g)

CompileArgs(g, args) == FoldLeft(CompileExpr, g, args)

\* Self: the reference in the first slot.
CompileSelfMethodCall(g, m, args, asStmt) ==
  Discard(Emit(CompileArgs(Emit(g, <<"LoadLocal", 1>>), args),
               <<"CallMethod", m, Len(args) + 1>>), asStmt)
IsSelfMethod(g, n) == g.obj # "" /\ HasMethod(g.types[g.obj], n)

\* A name that is no variable is a field or a routine called without parentheses.
LoadCode(g, n) ==
  LET vi == Lookup(g, n) IN
  IF IsBareField(g, n) THEN Emit(BareFieldAddr(g, n), <<"LoadRef">>)
  ELSE IF g.modern /\ n = "recover" /\ n \notin DOMAIN g.funcs /\ ~IsDefined(g, n) THEN Emit(g, <<"Recover">>)
  ELSE IF ~IsDefined(g, n)
  THEN IF n \in DOMAIN g.adtCtors /\ g.adtCtors[n] = 0 /\ n \notin DOMAIN g.funcs
       THEN Emit(g, <<"MkTagged", n, 0>>)
       ELSE IF IsSelfMethod(g, n) THEN CompileSelfMethodCall(g, n, <<>>, FALSE)
       ELSE IF n \in DOMAIN g.funcs /\ g.funcs[n].params = <<>> THEN Emit(g, <<"Call", n, 0>>)
       ELSE IF n \in g.externals THEN Emit(g, <<"CallBuiltin", n, 0>>)
       ELSE Failed(g)
  ELSE CASE vi.kind = "const" -> Emit(g, <<"Push", vi.at>>)
         [] vi.kind = "global" -> Emit(g, <<"LoadGlobal", vi.at>>)
         [] vi.kind \in {"local", "param"} -> Emit(g, <<"LoadLocal", vi.at>>)
         [] vi.kind = "varparam" -> Emit(Emit(g, <<"LoadLocal", vi.at>>), <<"LoadRef">>)
         [] vi.kind = "result" -> Emit(g, <<"LoadResult">>)

CompileIdent(g, n) ==
  CASE n \in {"true", "false"} -> Emit(g, <<"Push", BoolVal(n = "true")>>)
    [] n = "nil" -> Emit(g, <<"Push", NilValue>>)
    [] OTHER -> LoadVar(g, n)

CompileAddrIdent(g, n) ==
  LET vi == Lookup(g, n) IN
  IF IsBareField(g, n) THEN BareFieldAddr(g, n)
  ELSE IF ~IsDefined(g, n) THEN Failed(g)
  ELSE CASE vi.kind = "global" -> Emit(g, <<"AddrGlobal", vi.at>>)
         [] vi.kind \in {"local", "param"} -> Emit(g, <<"AddrLocal", vi.at>>)
         [] vi.kind = "varparam" -> Emit(g, <<"LoadLocal", vi.at>>)
         [] vi.kind = "result" -> Emit(g, <<"AddrResult">>)
         [] vi.kind = "const" -> Failed(g)

\* The object an access goes through: a class variable is a reference already.
CompileReceiver(g, recv) ==
  LET ti == TypeOf(g, recv)
  IN  IF IsObject(ti) /\ ti.isClass THEN CompileExpr(g, recv) ELSE CompileAddr(g, recv)
CompileFieldAddr(g, recv, f) == Emit(CompileReceiver(g, recv), <<"FieldAddr", f>>)

\* Indexes count from 0 in the machine.
CompileElemAddrUnbased(g, e) ==
  Emit(CompileExpr(CompileAddr(g, e[2]), e[3]), <<"ElemAddr">>)
CompileElemAddr(g, e) ==
  LET ti == TypeOf(g, e[2])
      g1 == CompileExpr(CompileAddr(g, e[2]), e[3])
      based == Emit(Emit(g1, <<"Push", IntVal(ti.lo)>>), <<"Binary", "-">>)
  IN  Emit(IF ti.kind = "array" /\ ti.lo # 0 THEN based ELSE g1, <<"ElemAddr">>)

AddrCode(g, e) ==
  CASE IsIdent(e) -> CompileAddrIdent(g, NameOf(e))
    [] IsTree(e, "field") -> CompileFieldAddr(g, e[2], BackingField(TypeOf(g, e[2]), e[3][1]))
    [] IsTree(e, "index") -> CompileElemAddr(g, e)
    [] IsTree(e, "deref") -> CompileExpr(g, e[2])
    [] OTHER -> Failed(g)

---------------------------------------------------------------------------
(* Expressions. *)

\* and, or on Booleans jump over their right side.  Every and, or is Boolean to
\* ExprType, so one of integers is one too on the left of another.
CompileBinary(g, e) ==
  LET op == e[1]
      left == CompileExpr(g, e[2])
      both == CompileExpr(left, e[3])
      right == CompileExpr(EmitJump(left, IF op = "and" THEN "JumpIfFalse" ELSE "JumpIfTrue"), e[3])
      known == Emit(Patch(EmitJump(right, "Jump"), Here(left), Here(right) + 1),
                    <<"Push", BoolVal(op = "or")>>)
      own == OperatorFor(g, e)
  IN  IF own # "" THEN Emit(both, <<"Call", own, 2>>)
      ELSE IF op \in CompareOps THEN Emit(both, <<"Compare", op>>)
      ELSE IF op \in {"and", "or"} /\ ExprType(g, e[2]) = "bool"
      THEN Patch(known, Here(right), Here(known))
      ELSE Emit(both, <<"Binary", op>>)

\* A range in a set must be constant.
CompileElement(g, e) ==
  LET lo == ConstValue(g, e[2])
      hi == ConstValue(g, e[3])
  IN  IF ~IsTree(e, "range") THEN CompileExpr(g, e)
      ELSE IF Undefined \in {lo, hi} THEN Failed(g)
      ELSE [g EXCEPT !.code = @ \o [k \in 1..(IF hi[2] < lo[2] THEN 0 ELSE hi[2] - lo[2] + 1) |->
                                      <<"Push", IntVal(lo[2] + k - 1)>>]]
ElementCount(g, e) ==
  LET lo == ConstInt(g, e[2])
      hi == ConstInt(g, e[3])
  IN  IF IsTree(e, "range") THEN (IF hi < lo THEN 0 ELSE hi - lo + 1) ELSE 1
CompileSet(g, es) ==
  Emit(FoldLeft(CompileElement, g, es),
       <<"MkSet", FoldLeft(LAMBDA n, e : n + ElementCount(g, e), 0, es)>>)

\* T.Create: a new instance, its constructor run on it, and the reference left.
CompileClassCreate(g, ct, ctor, args, asStmt) ==
  LET new == Emit(Emit(g, <<"PushZero", RecordTemplate(g, ct, <<ct.name>>)>>), <<"HeapAlloc">>)
      run == CompileArgs(Emit(new, <<"Dup">>), args)
      done == Emit(Emit(run, <<"CallMethod", ctor, Len(args) + 1>>), <<"Pop">>)
  IN  Discard(IF HasMethod(ct, ctor) THEN done ELSE new, asStmt)

\* Free of a class without a method of the name is no code at all.
CompileMethodCall(g, recv, m, args, asStmt) ==
  LET ti == TypeOf(g, recv)
      self == CompileReceiver(g, recv)
      pushed == CompileArgs(self, args)
  IN  IF IsObject(ti) /\ m \in {"free", "destroy"} /\ ~HasMethod(ti, m) THEN g
      ELSE Discard(Emit(pushed, <<"CallMethod", m, Len(args) + 1>>), asStmt)
CompileHelperCall(g, recv, fn, args, asStmt) ==
  LET pushed == CompileArgs(CompileReceiver(g, recv), args)
  IN  Discard(Emit(pushed, <<"Call", fn, Len(args) + 1>>), asStmt)

\* r.f read: a constructor, a property, a method without arguments, or a field.
CompileField(g, e) ==
  LET recv == e[2]
      n == e[3][1]
      ti == TypeOf(g, recv)
      read == ti.props[n].read
      helper == HelperMethod(g, ti, n)
  IN  IF NamesClass(g, recv) THEN CompileClassCreate(g, g.types[NameOf(recv)], n, <<>>, FALSE)
      ELSE IF IsObject(ti) /\ HasProp(ti, n) /\ read # ""
      THEN IF HasMethod(ti, read) THEN CompileMethodCall(g, recv, read, <<>>, FALSE)
           ELSE Emit(CompileFieldAddr(g, recv, read), <<"LoadRef">>)
      ELSE IF IsObject(ti) /\ HasMethod(ti, n) THEN CompileMethodCall(g, recv, n, <<>>, FALSE)
      ELSE IF helper # "" THEN CompileHelperCall(g, recv, helper, <<>>, FALSE)
      ELSE Emit(CompileAddr(g, e), <<"LoadRef">>)

\* s[i] is a character of a string.
CompileIndex(g, e) ==
  IF TypeOf(g, e[2]).kind = "string"
  THEN Emit(CompileExpr(CompileExpr(g, e[2]), e[3]), <<"StrChar">>)
  ELSE Emit(CompileAddr(g, e), <<"LoadRef">>)

\* @Routine is a procedural value.
CompileAt(g, e) ==
  IF IsIdent(e) /\ ~IsDefined(g, NameOf(e)) /\ NameOf(e) \in DOMAIN g.funcs
  THEN Emit(g, <<"MakeClosure", NameOf(e), 0>>) ELSE CompileAddr(g, e)

ExprCode(g, e) ==
  CASE IsTree(e, "lit") -> Emit(g, <<"Push", LiteralValue[NameOf(e)]>>)
    [] IsIdent(e) -> CompileIdent(g, NameOf(e))
    [] IsUnary(e) -> Emit(CompileExpr(g, e[2]), <<"Unary", e[1]>>)
    [] IsBinary(e) -> CompileBinary(g, e)
    [] IsTree(e, "in") -> Emit(CompileExpr(CompileExpr(g, e[2]), e[3]), <<"In">>)
    [] IsTree(e, "set") -> CompileSet(g, Children(e))
    [] IsTree(e, "call") -> CompileCall(g, e[2], SubSeq(e, 3, Len(e)), FALSE)
    [] IsTree(e, "field") -> CompileField(g, e)
    [] IsTree(e, "index") -> CompileIndex(g, e)
    [] IsTree(e, "deref") -> Emit(CompileExpr(g, e[2]), <<"LoadRef">>)
    [] IsTree(e, "@") -> CompileAt(g, e[2])
    [] IsTree(e, "anon") -> CompileAnonFunc(g, e)
    [] IsTree(e, "match") -> CompileMatch(g, e, TRUE)
    [] OTHER -> Failed(g)

---------------------------------------------------------------------------
(* Calls. *)

\* The functions of the System unit that the programs call.
BuiltinFuncs == {"length", "high", "low", "ord", "chr", "odd", "abs", "succ", "pred",
                 "eof", "seek", "filepos", "filesize"}
FileOps == {"assign", "reset", "rewrite", "append", "close", "erase", "rename"}
AddressedArgs == {"new", "dispose", "setlength"}

\* AssertTrue, AssertFalse and AssertEqual, unless a routine has the name: what
\* jumps over the failure, which is raised.
IsAssertion(g, n) == n \in {"asserttrue", "assertfalse", "assertequal"} /\ n \notin DOMAIN g.funcs
RaiseStr(g, text) == Emit(Emit(g, <<"Push", StrVal(<<text>>)>>), <<"Raise", 1>>)
CompileAssertion(g, n, args) ==
  LET operands == FoldLeft(CompileExpr, g, SubSeq(args, 1, IF n = "assertequal" THEN 2 ELSE 1))
      tested == IF n = "assertequal" THEN Emit(operands, <<"Compare", "=">>) ELSE operands
      met == EmitJump(tested, IF n = "assertfalse" THEN "JumpIfFalse" ELSE "JumpIfTrue")
      failure == RaiseStr(met, "assertion failed")
  IN  IF Len(args) < (IF n = "assertequal" THEN 2 ELSE 1) THEN g
      ELSE Patch(failure, Len(met.code), Here(failure))
CompilePanic(g, args) ==
  IF args = <<>> THEN RaiseStr(g, "panic") ELSE Emit(CompileExpr(g, args[1]), <<"Raise", 1>>)

\* What a called name stands for: the first of these it can.
CallKind(g, n) ==
  LET fresh == n \notin DOMAIN g.funcs /\ ~IsDefined(g, n)
      kinds == << <<"tocurrency", n = "tocurrency" /\ fresh>>,
                  <<"assertion", IsAssertion(g, n)>>,
                  <<n, n \in {"panic", "recover"} /\ g.modern /\ fresh>>,
                  <<"constructor", n \in DOMAIN g.adtCtors /\ fresh>>,
                  <<"method", IsSelfMethod(g, n) /\ ~IsDefined(g, n)>>,
                  <<"value", IsDefined(g, n) /\ Deref(g, Lookup(g, n).ti).kind = "func">>,
                  <<"fileop", n \in FileOps>>,
                  <<"write", n \in {"write", "writeln"}>>,
                  <<"read", n \in {"read", "readln"}>>,
                  <<"step", n \in {"inc", "dec"}>>,
                  <<n, n \in AddressedArgs>>,
                  <<"routine", n \in DOMAIN g.funcs>>,
                  <<"builtin", n \in BuiltinFuncs \cup g.externals>>,
                  <<"unknown", TRUE>> >>
  IN  kinds[CHOOSE k \in DOMAIN kinds : kinds[k][2] /\ \A j \in 1..k - 1 : ~kinds[j][2]][1]

\* Files: an operation is given the address of its file, Read those of all its
\* arguments.
CompileAddrs(g, es) == FoldLeft(CompileAddr, g, es)
CompileFileOp(g, n, args, asStmt) ==
  IF args = <<>> THEN Failed(g)
  ELSE Discard(Emit(CompileArgs(CompileAddr(g, args[1]), Tail(args)), <<"CallBuiltin", n, Len(args)>>), asStmt)

IsFileExpr(g, args) == args # <<>> /\ TypeOf(g, args[1]).kind = "file"
IsTypedFileExpr(g, args) == IsFileExpr(g, args) /\ TypeOf(g, args[1]).elem # NoType

\* The width of a value is -1 where none is given; so are its decimals.
CompileWriteArg(g, e) ==
  LET sized == CompileExpr(CompileExpr(g, e[2]), e[3])
      full == IF Len(e) > 3 THEN CompileExpr(sized, e[4]) ELSE Emit(sized, <<"Push", IntVal(-1)>>)
  IN  IF IsTree(e, "writearg") THEN Emit(full, <<"CallBuiltin", "__writefmt", 3>>) ELSE CompileExpr(g, e)
\* Write and Read of a typed file are a call for each value.
CompileTypedWrite(g, f, e) ==
  Emit(Emit(CompileExpr(CompileAddr(g, f), e), <<"CallBuiltin", "__fwritetyped", 2>>), <<"Pop">>)
CompileTypedRead(g, f, e) ==
  Emit(Emit(CompileAddr(CompileAddr(g, f), e), <<"CallBuiltin", "__freadtyped", 2>>), <<"Pop">>)
CompileWrite(g, n, args, asStmt) ==
  LET isFile == IsFileExpr(g, args)
      written == FoldLeft(CompileWriteArg, IF isFile THEN CompileAddr(g, args[1]) ELSE g,
                          IF isFile THEN Tail(args) ELSE args)
  IN  IF IsTypedFileExpr(g, args)
      THEN FoldLeft(LAMBDA g1, e : CompileTypedWrite(g1, args[1], e), g, Tail(args))
      ELSE Discard(Emit(written, <<"CallBuiltin", IF isFile THEN "__f" \o n ELSE n, Len(args)>>), asStmt)
CompileRead(g, n, args, asStmt) ==
  IF IsTypedFileExpr(g, args)
  THEN FoldLeft(LAMBDA g1, e : CompileTypedRead(g1, args[1], e), g, Tail(args))
  ELSE Discard(Emit(CompileAddrs(g, args),
                    <<"CallBuiltin", IF IsFileExpr(g, args) THEN "__f" \o n ELSE n, Len(args)>>), asStmt)

\* A var parameter is given the address of its argument.
CompileRoutineCall(g, n, args, asStmt) ==
  LET vars == g.funcs[n].params
      arg(g1, k) == IF k <= Len(vars) /\ vars[k] THEN CompileAddr(g1, args[k]) ELSE CompileExpr(g1, args[k])
      pushed == FoldLeft(arg, IF Len(args) = Len(vars) THEN g ELSE Failed(g), [k \in DOMAIN args |-> k])
  IN  Discard(Emit(pushed, <<"Call", n, Len(args)>>), asStmt)

\* Inc and Dec of a variable only: not of a field or an element.
CompileIncDec(g, op, args) ==
  LET by == IF Len(args) > 1 THEN args[2] ELSE <<"lit", <<"1">> >>
  IN  IF args = <<>> \/ ~IsIdent(args[1]) THEN Failed(g)
      ELSE AssignToVar(g, NameOf(args[1]), NoType, <<"step", op, NameOf(args[1]), by>>)

PushZero(g, ti) == Emit(g, <<"PushZero", ZeroTemplate(g, ti)>>)
CompileNew(g, p) ==
  Emit(Emit(PushZero(CompileAddr(g, p), PointerElem(g, TypeOf(g, p))), <<"HeapAlloc">>), <<"StoreRef">>)
CompileSetLength(g, a, n) ==
  LET ti == TypeOf(g, a)
  IN  Emit(PushZero(CompileExpr(CompileAddr(g, a), n), IF ti.kind = "array" THEN ti.elem ELSE NoType),
           <<"SetLength">>)

CallCode(g, f, args, asStmt) ==
  LET n == NameOf(f)
      recv == f[2]
      m == f[3][1]
      ti == TypeOf(g, recv)
      builtin == Discard(Emit(CompileArgs(g, args), <<"CallBuiltin", n, Len(args)>>), asStmt)
      kind == CallKind(g, n)
  IN  CASE IsTree(f, "field") ->
             IF NamesClass(g, recv) THEN CompileClassCreate(g, g.types[NameOf(recv)], m, args, asStmt)
             ELSE IF HelperMethod(g, ti, m) # "" /\ ~(IsObject(ti) /\ HasMethod(ti, m))
             THEN CompileHelperCall(g, recv, HelperMethod(g, ti, m), args, asStmt)
             ELSE CompileMethodCall(g, recv, m, args, asStmt)
        [] ~IsIdent(f) /\ ~IsTree(f, "field") -> Failed(g)
        [] IsIdent(f) /\ kind = "tocurrency" -> Discard(Emit(CompileArgs(g, args), <<"ToCurrency">>), asStmt)
        [] IsIdent(f) /\ kind = "assertion" -> CompileAssertion(g, n, args)
        [] IsIdent(f) /\ kind = "panic" -> CompilePanic(g, args)
        [] IsIdent(f) /\ kind = "recover" -> Discard(Emit(g, <<"Recover">>), asStmt)
        [] IsIdent(f) /\ kind = "constructor" ->
             Discard(Emit(CompileArgs(g, args), <<"MkTagged", n, Len(args)>>), asStmt)
        [] IsIdent(f) /\ kind = "method" -> CompileSelfMethodCall(g, n, args, asStmt)
        [] IsIdent(f) /\ kind = "value" ->
             Discard(Emit(CompileArgs(LoadVar(g, n), args), <<"CallValue", Len(args)>>), asStmt)
        [] IsIdent(f) /\ kind = "fileop" -> CompileFileOp(g, n, args, asStmt)
        [] IsIdent(f) /\ kind = "write" -> CompileWrite(g, n, args, asStmt)
        [] IsIdent(f) /\ kind = "read" -> CompileRead(g, n, args, asStmt)
        [] IsIdent(f) /\ kind = "builtin" -> builtin
        [] IsIdent(f) /\ kind = "step" -> CompileIncDec(g, IF n = "inc" THEN "+" ELSE "-", args)
        [] IsIdent(f) /\ kind = "new" -> IF Len(args) = 1 THEN CompileNew(g, args[1]) ELSE Failed(g)
        [] IsIdent(f) /\ kind = "dispose" ->
             Emit(Emit(CompileAddr(g, args[1]), <<"Push", NilValue>>), <<"StoreRef">>)
        [] IsIdent(f) /\ kind = "setlength" ->
             IF Len(args) >= 2 THEN CompileSetLength(g, args[1], args[2]) ELSE Failed(g)
        [] IsIdent(f) /\ kind = "routine" -> CompileRoutineCall(g, n, args, asStmt)
        [] IsIdent(f) /\ kind = "unknown" -> Failed(g)

\* The nearest type upwards with a body compiled so far.
MethodName(typ, m) == typ \o "." \o m
MethodOwner(g, typ, m) ==
  IF typ = "" \/ MethodName(typ, m) \in DOMAIN g.mod THEN typ
  ELSE MethodOwner(g, g.types[typ].parent, m)

\* inherited alone is no code.
CompileInherited(g, call) ==
  LET parent == g.types[g.obj].parent
      m == NameOf(call[2])
      owner == MethodOwner(g, parent, m)
      args == SubSeq(call, 3, Len(call))
      pushed == CompileArgs(Emit(g, <<"LoadLocal", 1>>), args)
  IN  IF g.obj = "" \/ parent = "" THEN Failed(g)
      ELSE IF IsNil(call) THEN g
      ELSE IF owner = "" THEN Failed(g)
      ELSE Emit(Emit(pushed, <<"Call", MethodName(owner, m), Len(args) + 1>>), <<"Pop">>)

---------------------------------------------------------------------------
(* Statements. *)

\* A generator, and the jumps in its code that are still to be patched.
Pending(g, ats) == [gen |-> g, at |-> ats]

CompileAssign(g, dest, e) ==
  LET recv == dest[2]
      ti == TypeOf(g, recv)
      n == dest[3][1]
      write == ti.props[n].write
      store(g1) == Emit(CompileValueFor(g1, TypeOf(g, dest), e), <<"StoreRef">>)
  IN  CASE IsIdent(dest) -> AssignToVar(g, NameOf(dest), TypeOf(g, dest), e)
        [] IsTree(dest, "field") ->
             IF IsObject(ti) /\ HasProp(ti, n) /\ write # ""
             THEN IF HasMethod(ti, write) THEN CompileMethodCall(g, recv, write, <<e>>, TRUE)
                  ELSE store(CompileFieldAddr(g, recv, write))
             ELSE store(CompileAddr(g, dest))
        [] IsTree(dest, "index") ->
             IF ti.kind = "string"
             THEN Emit(CompileExpr(CompileExpr(CompileAddr(g, recv), dest[3]), e), <<"StrCharStore">>)
             ELSE store(CompileAddr(g, dest))
        [] OTHER -> store(CompileAddr(g, dest))

CompileIf(g, s) ==
  LET test == EmitJump(CompileExpr(g, s[2]), "JumpIfFalse")
      then == CompileStmt(test, s[3])
      over == EmitJump(then, "Jump")
      other == CompileStmt(Patch(over, Len(test.code), Here(over)), s[4])
  IN  IF IsNil(s[4]) THEN Patch(then, Len(test.code), Here(then))
      ELSE Patch(other, Len(over.code), Here(other))

CompileWhile(g, s) ==
  LET test == EmitJump(CompileExpr(g, s[2]), "JumpIfFalse")
      body == Emit(CompileStmt(test, s[3]), <<"Jump", Here(g)>>)
  IN  Patch(body, Len(test.code), Here(body))

CompileRepeat(g, s) == Emit(CompileExpr(CompileStmt(g, s[2]), s[3]), <<"JumpIfFalse", Here(g)>>)

IntGlobal(g, n) ==
  DefineGlobal([g EXCEPT !.globals = Put(@, n, IntVal(0))], n, Variable("global", n, Scalar("int")))

\* The bound is evaluated again before each round.  An embedder may have the
\* variable of a loop declared by the loop.
CompileFor(g, v, lo, hi, body, down) ==
  LET declared == IF g.autoLoop /\ ~IsDefined(g, v) THEN IntGlobal(g, v) ELSE g
      start == AssignToVar(declared, v, NoType, lo)
      test == EmitJump(Emit(CompileExpr(LoadVar(start, v), hi), <<"Compare", IF down THEN ">=" ELSE "<=">>),
                       "JumpIfFalse")
      step == AssignToVar(CompileStmt(test, body), v, NoType,
                          <<"step", IF down THEN "-" ELSE "+", v, <<"lit", <<"1">> >> >>)
      again == Emit(step, <<"Jump", Here(start)>>)
  IN  Patch(again, Len(test.code), Here(again))

\* What a global holds before the program runs.
GlobalDefault(ti) == IF Vt(ti) = "str" THEN StrVal(<<>>) ELSE ZeroScalar(Vt(ti))
AddGlobal(g, n, storage, ti) ==
  Define([g EXCEPT !.globals = Put(@, storage, GlobalDefault(Deref(g, ti)))], n, Variable("global", storage, ti))

\* Storage of its own: a global in the body of the program, else a local.
DeclareBinding(g, n, ti) ==
  LET g1 == [g EXCEPT !.tmp = @ + 1]
  IN  IF Len(g.scope) = 1 THEN AddGlobal(g1, n, "$b" \o ToString(g1.tmp), ti)
      ELSE Define([g1 EXCEPT !.slots = @ + 1], n, Variable("local", g.slots + 1, ti))

\* for x in a counts a global of its own from 0 to High(a), or along a string
\* from 1 to Length, and assigns x := a[i].
CompileForIn(g, s) ==
  LET i == "$tmp" \o ToString(g.tmp)
      counted == IntGlobal([g EXCEPT !.tmp = @ + 1], i)
      text == TypeOf(g, s[3]).kind = "string"
      elem == <<":=", <<"id", s[2]>>, <<"index", s[3], <<"id", <<i>> >> >> >>
  IN  CompileFor(counted, i, <<"lit", <<IF text THEN "1" ELSE "0">> >>,
                 <<"call", <<"id", <<IF text THEN "length" ELSE "high">> >>, s[3]>>,
                 <<"body", elem, s[4]>>, FALSE)

\* The selector stays on the stack until a branch is taken.
CaseTest(p, v) ==
  LET t == EmitJump(Emit(CompileExpr(Emit(p.gen, <<"Dup">>), v), <<"Compare", "=">>), "JumpIfTrue")
  IN  Pending(t, Append(p.at, Len(t.code)))
CompileBranch(p, br) ==
  LET tests == FoldLeft(CaseTest, Pending(p.gen, <<>>), Children(br[2]))
      skip == EmitJump(tests.gen, "Jump")
      body == EmitJump(CompileStmt(Emit(PatchAll(skip, tests.at, Here(skip)), <<"Pop">>), br[3]), "Jump")
  IN  Pending(Patch(body, Len(skip.code), Here(body)), Append(p.at, Len(body.code)))
CaseCode(g, s) ==
  LET branches == FoldLeft(CompileBranch, Pending(CompileExpr(g, s[2]), <<>>), ChildrenOf(s, {"branch"}))
      none == Emit(branches.gen, <<"Pop">>)
      other == IF HasChild(s, "else") THEN CompileStmt(none, Child(s, "else")[2]) ELSE none
  IN  PatchAll(other, branches.at, Here(other))

\* The record is found again at each use of one of its fields.
CompileWith(g, rec, body) ==
  LET ti == TypeOf(g, rec)
      inner == [g EXCEPT !.withs = Append(@, [expr |-> rec, ti |-> ti])]
  IN  IF ti.kind \notin {"record", "object"} THEN Failed(g)
      ELSE [CompileStmt(inner, body) EXCEPT !.withs = g.withs]

\* The statements of a finally block are compiled twice: for the body's end, and
\* for an exception, which goes on after them.  A block without statements is
\* no finally block.
EnterTry(g, isFinally) == Emit(g, <<"EnterTry", 0, isFinally>>)
CompileTry(g, body, except, finally) ==
  LET enter == EnterTry(g, finally # <<>>)
      tried == Emit(FoldLeft(CompileStmt, enter, body), <<"PopTry">>)
      over == EmitJump(FoldLeft(CompileStmt, tried, finally), "Jump")
      handler == Patch(over, Len(enter.code), Here(over))
      handled == IF finally # <<>> THEN Emit(FoldLeft(CompileStmt, handler, finally), <<"Reraise">>)
                 ELSE FoldLeft(CompileStmt, handler, except)
  IN  Patch(handled, Len(over.code), Here(handled))
StatementsOf(s, tag) == IF HasChild(s, tag) THEN Children(Child(s, tag)) ELSE <<>>
TryStatement(g, s) ==
  CompileTry(g, StatementsOf(s, "body"), StatementsOf(s, "except"), StatementsOf(s, "finally"))

\* The defer statements of a body in their order; those in a for-in are missed.
RECURSIVE CollectDefers(_)
SubStatements(s) ==
  CASE s[1] \in {"body", "except", "finally", "try", "else"} -> Children(s)
    [] IsTree(s, "if") -> <<s[3], s[4]>>
    [] s[1] \in {"while", "with", "branch", "arm"} -> <<Last(s)>>
    [] s[1] \in {"for", "fordown"} -> <<s[5]>>
    [] IsTree(s, "repeat") -> <<s[2]>>
    [] s[1] \in {"case", "match"} -> ChildrenOf(s, {"branch", "arm", "else"})
    [] OTHER -> <<>>
CollectDefers(s) ==
  IF IsTree(s, "defer") THEN <<s>>
  ELSE FlattenSeq([k \in DOMAIN SubStatements(s) |-> CollectDefers(SubStatements(s)[k])])

\* A defer has a flag that says whether it was reached, and runs in a finally
\* block around the body, the last defer first.  (Defers are told apart by
\* what they defer: a body does not defer the same twice.)
SetFlag(g, flag, reached) == AssignToVar(g, flag, NoType, <<"id", <<IF reached THEN "true" ELSE "false">> >>)
DeclareFlag(g, d) ==
  LET flag == "$defer" \o ToString(g.tmp)
      known == [DeclareBinding(g, flag, Scalar("bool")) EXCEPT !.deferFlags = Put(@, d, flag)]
  IN  SetFlag(known, flag, FALSE)
CompileBodyWithDefers(g, body) ==
  LET defers == Reverse(CollectDefers(body))
      flagged == FoldLeft(DeclareFlag, g, defers)
      cleanup == [k \in DOMAIN defers |-> <<"if", <<"id", <<flagged.deferFlags[defers[k]]>> >>, defers[k][2], NoTree>>]
  IN  IF defers = <<>> THEN CompileStmt(g, body) ELSE CompileTry(flagged, Children(body), <<>>, cleanup)
CompileDefer(g, d) == IF d \in DOMAIN g.deferFlags THEN SetFlag(g, g.deferFlags[d], TRUE) ELSE Failed(g)

\* A test writes that its statements came to their end, or that they raised;
\* here true or false for PASS or FAIL.
CompileTestBlock(g, tb) ==
  LET report(passed) == <<"callstmt", <<"call", <<"id", <<"writeln">> >>,
                                        <<"id", <<IF passed THEN "true" ELSE "false">> >>, <<"lit", tb[2]>> >> >>
  IN  CompileTry(g, Children(tb[3]) \o <<report(TRUE)>>, <<report(FALSE)>>, <<>>)

PatchGotos(g) ==
  FoldLeft(LAMBDA g1, r : IF r.label \in DOMAIN g1.labels THEN Patch(g1, r.at, g1.labels[r.label])
                          ELSE Failed(g1), g, g.gotos)

StmtCode(g, s) ==
  CASE IsNil(s) -> g
    [] IsTree(s, "body") -> InTurn(CompileStmt, g, Children(s))
    [] IsTree(s, ":=") -> CompileAssign(g, s[2], s[3])
    [] IsTree(s, "callstmt") ->
         IF IsTree(s[2], "call") THEN CompileCall(g, s[2][2], SubSeq(s[2], 3, Len(s[2])), TRUE)
         ELSE CompileCall(g, s[2], <<>>, TRUE)
    [] IsTree(s, "if") -> CompileIf(g, s)
    [] IsTree(s, "while") -> CompileWhile(g, s)
    [] IsTree(s, "repeat") -> CompileRepeat(g, s)
    [] s[1] \in {"for", "fordown"} -> CompileFor(g, NameOf(s), s[3], s[4], s[5], s[1] = "fordown")
    [] IsTree(s, "forin") -> CompileForIn(g, s)
    [] IsTree(s, "case") -> CompileCase(g, s)
    [] IsTree(s, "inherited") -> CompileInherited(g, s[2])
    [] IsTree(s, "with") -> CompileWith(g, s[2], s[3])
    [] IsTree(s, "match") -> CompileMatch(g, s, FALSE)
    [] IsTree(s, "try") -> TryStatement(g, s)
    [] IsTree(s, "defer") -> CompileDefer(g, s)
    [] IsTree(s, "raise") ->
         IF IsNil(s[2]) THEN Emit(g, <<"Raise", 0>>) ELSE Emit(CompileExpr(g, s[2]), <<"Raise", 1>>)
    [] IsTree(s, "label") -> [g EXCEPT !.labels = Put(@, NameOf(s), Here(g))]
    [] IsTree(s, "goto") ->
         [EmitJump(g, "Jump") EXCEPT !.gotos = Append(@, [at |-> Here(g), label |-> NameOf(s)])]
    [] IsTree(s, "halt") ->
         Emit(Emit(IF IsNil(s[2]) THEN Emit(g, <<"Push", IntVal(0)>>) ELSE CompileExpr(g, s[2]),
                   <<"SetResult">>), <<"Return">>)
    [] OTHER -> Failed(g)

---------------------------------------------------------------------------
(* match. *)

\* The type of a variable that has a value but no type.
ScalarOf(v) == CASE v = "str" -> StringType [] v \in {"bool", "char"} -> Scalar(v) [] OTHER -> Scalar("int")
InferType(g, e) == IF TypeOf(g, e) # NoType THEN TypeOf(g, e) ELSE ScalarOf(ExprType(g, e))

TagTest(g, scrut, ctor) ==
  Emit(Emit(CompileExpr(g, <<"field", <<"id", <<scrut>> >>, <<"__tag">> >>), <<"Push", StrVal(<<ctor>>)>>),
       <<"Compare", "=">>)
\* The payload of a constructor is in fields __0, __1, ...
BindPayload(g, scrut, n, k) ==
  AssignToVar(DeclareBinding(g, n, Scalar("unknown")), n, NoType,
              <<"field", <<"id", <<scrut>> >>, <<"__" \o ToString(k)>> >>)
PatternTest(p, scrut, v) ==
  LET equal == Emit(CompileExpr(CompileExpr(p.gen, <<"id", <<scrut>> >>), v), <<"Compare", "=">>)
      t == EmitJump(IF IsIdent(v) /\ NameOf(v) \in DOMAIN p.gen.adtCtors
                    THEN TagTest(p.gen, scrut, NameOf(v)) ELSE equal, "JumpIfTrue")
  IN  Pending(t, Append(p.at, Len(t.code)))

\* The pattern, with the jumps taken where it does not match.
CompilePattern(g, pat, scrut) ==
  LET hit == EmitJump(TagTest(g, scrut, NameOf(pat)), "JumpIfFalse")
      bind(g1, k) == BindPayload(g1, scrut, pat[k + 2][1], k - 1)
      tests == FoldLeft(LAMBDA p, v : PatternTest(p, scrut, v), Pending(g, <<>>), Children(pat))
      miss == EmitJump(tests.gen, "Jump")
  IN  CASE IsTree(pat, "any") -> Pending(g, <<>>)
        [] IsTree(pat, "ctor") ->
             Pending(FoldLeft(bind, hit, [k \in 1..Len(pat) - 2 |-> k]), <<Len(hit.code)>>)
        [] IsTree(pat, "values") -> Pending(PatchAll(miss, tests.at, Here(miss)), <<Len(miss.code)>>)

ArmCode(p, arm, scrut, isExpr) ==
  LET pat == CompilePattern(p.gen, arm[2], scrut)
      guard == EmitJump(CompileExpr(pat.gen, Child(arm, "when")[2]), "JumpIfFalse")
      tested == IF HasChild(arm, "when") THEN Pending(guard, Append(pat.at, Len(guard.code))) ELSE pat
      body == EmitJump(IF isExpr THEN CompileExpr(tested.gen, Last(arm)) ELSE CompileStmt(tested.gen, Last(arm)),
                       "Jump")
  IN  Pending(PatchAll(body, tested.at, Here(body)), Append(p.at, Len(body.code)))

\* Nothing after an unguarded wildcard is compiled.
IsTerminal(arm) == IsTree(arm[2], "any") /\ ~HasChild(arm, "when")
MatchCode(g, m, isExpr) ==
  LET scrut == "$match" \o ToString(g.tmp)
      start == AssignToVar(DeclareBinding(g, scrut, InferType(g, m[2])), scrut, NoType, m[2])
      all == ChildrenOf(m, {"arm"})
      used == SelectInSeq(all, IsTerminal)
      arms == FoldLeft(LAMBDA p, arm : EmitArm(p, arm, scrut, isExpr), Pending(start, <<>>),
                       IF used = 0 THEN all ELSE SubSeq(all, 1, used))
      raise == Emit(Emit(arms.gen, <<"Push", StrVal(<<"match: no matching arm">>)>>), <<"Raise", 1>>)
      other == IF ~HasChild(m, "else") THEN raise
               ELSE IF isExpr THEN CompileExpr(arms.gen, Child(m, "else")[2])
               ELSE FoldLeft(CompileStmt, arms.gen, Children(Child(m, "else")))
  IN  PatchAll(other, arms.at, Here(other))

---------------------------------------------------------------------------
(* Declarations. *)

DeclareConst(g, d) ==
  IF ConstValue(g, d[4]) = Undefined THEN Failed(g)
  ELSE Define(g, NameOf(d), Constant(ConstValue(g, d[4]), ExprType(g, d[4])))

\* var names: T, with an initial value or without, and let name = value.
DeclaredNames(d) == IF IsTree(d, "let") THEN d[2] ELSE TextsOf(d[2])
HasInit(d) == Len(d) = 4
DeclType(g, d) == CASE ~IsNil(d[3]) -> ResolveType(g, d[3])
                    [] IsNil(d[3]) /\ HasInit(d) -> InferType(g, d[4])
                    [] OTHER -> Scalar("int")
InitialValue(g, d, ti) == IF HasInit(d) THEN CompileValueFor(g, Deref(g, ti), d[4]) ELSE PushZero(g, ti)

DeclareGlobals(g, d, ti) ==
  LET one(g1, n) ==
        LET known == Define([g1 EXCEPT !.globals = Put(@, n, GlobalDefault(Deref(g, ti)))], n,
                            [Variable("global", n, ti) EXCEPT !.imm = IsTree(d, "let")])
        IN  IF HasInit(d) \/ (NeedsInit(Deref(g, ti)) /\ n \notin g.presets)
            THEN Emit(InitialValue(known, d, ti), <<"StoreGlobal", n>>) ELSE known
  IN  FoldLeft(one, g, DeclaredNames(d))
GlobalCode(g, d) == DeclareGlobals(g, d, DeclType(g, d))

\* The locals get their slots first and their values then.
DeclareLocals(g, d, ti) ==
  LET one(g1, n) == Define([g1 EXCEPT !.slots = @ + 1], n,
                           [Variable("local", g1.slots + 1, ti) EXCEPT !.imm = IsTree(d, "let")])
  IN  FoldLeft(one, g, DeclaredNames(d))
DeclareLocal(g, d) == DeclareLocals(g, d, DeclType(g, d))
InitLocal(g, d) ==
  LET one(g1, n) ==
        LET vi == Lookup(g1, n)
        IN  IF HasInit(d) \/ NeedsInit(Deref(g1, vi.ti))
            THEN Emit(InitialValue(g1, d, vi.ti), <<"StoreLocal", vi.at>>) ELSE g1
  IN  FoldLeft(one, g, DeclaredNames(d))

DeclareParams(g, params) ==
  LET one(g1, p) ==
        LET ti == ResolveType(g1, Last(p))
            kind == IF HasChild(p, "var") THEN "varparam" ELSE "param"
        IN  FoldLeft(LAMBDA g2, n : Define([g2 EXCEPT !.slots = @ + 1], n, Variable(kind, g2.slots + 1, ti)),
                     g1, TextsOf(Child(p, "names")))
  IN  FoldLeft(one, g, Children(params))

\* The parts of a routine: its name, parameters, result and declarations.
ParamsAt(r) == CHOOSE k \in 2..Len(r) : IsTree(r[k], "params")
IsFunction(r) == r[1] \in {"function", "operator"}
ResultOf(r) == LET t == r[ParamsAt(r) + 1]
               IN  IF IsTree(r, "operator") /\ ~IsTree(t, "typeref") THEN NoTree ELSE t
HasBody(r) == HasChild(r, "body")
TypeTextOf(t) == IF Len(t) > 1 THEN NameOf(t) ELSE ""
OperandType(r, k) == LET ps == Children(r[ParamsAt(r)])
                     IN  IF ps = <<>> THEN "" ELSE TypeTextOf(Last(ps[IF k > Len(ps) THEN Len(ps) ELSE k]))
IsMethod(r) == ~IsTree(r, "operator") /\ Len(r[2]) > 2
OwnName(r) == IF IsMethod(r) THEN TextsOf(r[2])[2] ELSE r[2][2][1]
RoutineName(r) == IF IsTree(r, "operator")
                  THEN "$op_" \o NameOf(r) \o "_" \o OperandType(r, 1) \o "_" \o OperandType(r, 2)
                  ELSE OwnName(r)

VtOfTree(t) == CASE IsTree(t, "ordtype") -> OrdType(NameOf(t)).scalar
                 [] IsTree(t, "stringtype") -> "str"
                 [] IsTree(t, "typeref") ->
                      CASE NameOf(t) = "string" -> "str"
                        [] NameOf(t) \in {"char", "boolean"} -> OrdType(NameOf(t)).scalar
                        [] NameOf(t) \in IntNames \ {"int64"} -> "int"
                        [] OTHER -> "unknown"
                 [] OTHER -> "unknown"

\* Which parameters are var parameters, and the coarse type of the result.
RegisterSignature(g, r) ==
  IF IsMethod(r) THEN g
  ELSE [g EXCEPT !.funcs = Put(@, RoutineName(r),
          [params |-> FlattenSeq([k \in 1..Len(r[ParamsAt(r)]) - 1 |->
                        LET p == r[ParamsAt(r)][k + 1]
                        IN  [j \in DOMAIN TextsOf(Child(p, "names")) |-> HasChild(p, "var")]]),
           resultType |-> VtOfTree(ResultOf(r))])]

\* operator + (a, b: T) is the routine that a + b of two T calls.
RegisterOperator(g, r) ==
  LET left == OperandType(r, 1)
      right == OperandType(r, 2)
  IN  IF ~IsTree(r, "operator") \/ "" \in {left, right} THEN g
      ELSE [g EXCEPT !.operators = Put(@, OperatorKey(NameOf(r), left, right), RoutineName(r))]

\* The generator for a function of its own, and the return to the code it is
\* declared in; only the global scope keeps what was added meanwhile.
Enter(g, scope, obj) ==
  [g EXCEPT !.code = <<>>, !.slots = 0, !.scope = scope, !.obj = obj, !.labels = <<>>, !.gotos = <<>>]
Leave(g, done, name) ==
  LET fn == PatchGotos(Emit(done, <<"Return">>))
  IN  [fn EXCEPT !.code = g.code, !.slots = g.slots, !.scope = [g.scope EXCEPT ![1] = fn.scope[1]],
                 !.obj = g.obj, !.labels = g.labels, !.gotos = g.gotos,
                 !.mod = Put(@, name, [code |-> fn.code, slots |-> fn.slots])]

DefineResult(g, names, ti) ==
  LET named == FoldLeft(LAMBDA g1, n : Define(g1, n, Variable("result", 0, ti)), g, names)
  IN  IF NeedsInit(Deref(g, ti)) THEN Emit(PushZero(named, ti), <<"SetResult">>) ELSE named
DeclareResult(g, names, t) == DefineResult(g, names, ResolveType(g, t))

\* A routine, or, with self a type, a method: its first slot refers to Self.  The
\* routines declared inside are not compiled.
DeclareSelf(g, self) ==
  IF self = "" THEN g ELSE Define([g EXCEPT !.slots = 1], "self", Variable("varparam", 1, g.types[self]))
DeclareHeading(g, r, name) ==
  LET names == <<IF IsTree(r, "operator") THEN name ELSE OwnName(r), "result">>
  IN  IF IsFunction(r) THEN DeclareResult(DeclareParams(g, r[ParamsAt(r)]), names, ResultOf(r))
      ELSE DeclareParams(g, r[ParamsAt(r)])
DeclareOwn(g, nested) ==
  LET section(words) == SelectSeq(nested, LAMBDA d : d[1] \in words)
      consts == FoldLeft(DeclareConst, RegisterTypes(g, section({"type"})), section({"const"}))
  IN  FoldLeft(InitLocal, FoldLeft(DeclareLocal, consts, section({"var", "let"})), section({"var", "let"}))
CompileRoutine(g, r, name, self) ==
  LET entered == DeclareSelf(Enter(g, Append(g.scope, <<>>), self), self)
      ready == DeclareOwn(DeclareHeading(entered, r, name), SubSeq(r, ParamsAt(r) + 2, Len(r)))
  IN  Leave(g, CompileBodyWithDefers(ready, Child(r, "body")), name)

\* Self of a helper's method has the type that is helped.
CompileMethod(g, r) ==
  LET typ == TextsOf(r[2])[1]
      self == IF g.types[typ].helperFor \in DOMAIN g.types THEN g.types[typ].helperFor ELSE typ
  IN  IF typ \notin DOMAIN g.types \/ ~IsObject(g.types[typ]) THEN Failed(g)
      ELSE CompileRoutine(g, r, MethodName(typ, OwnName(r)), self)
BodyCode(g, r) == CASE ~HasBody(r) -> g
                       [] HasBody(r) /\ IsMethod(r) -> CompileMethod(g, r)
                       [] OTHER -> CompileRoutine(g, r, RoutineName(r), "")

\* An anonymous function is given references to every variable of the routines
\* around it, as leading var parameters.
CapturedKinds == {"local", "param", "varparam"}
Visible(g) == {n \in UNION {DOMAIN g.scope[k] : k \in 2..Len(g.scope)} :
                 \E k \in 2..Len(g.scope) : n \in DOMAIN g.scope[k] /\ g.scope[k][n].kind \in CapturedKinds}
Captured(g, n) == g.scope[CHOOSE k \in 2..Len(g.scope) :
  LET captures(j) == n \in DOMAIN g.scope[j] /\ g.scope[j][n].kind \in CapturedKinds
  IN  captures(k) /\ \A j \in k + 1..Len(g.scope) : ~captures(j)][n]
AnonCode(g, e) ==
  LET names == SetToSeq(Visible(g))
      capture(g1, n) == Emit(g1, <<IF Captured(g, n).kind = "varparam" THEN "LoadLocal" ELSE "AddrLocal",
                                   Captured(g, n).at>>)
      name == "$anon" \o ToString(g.anon)
      made == Emit(FoldLeft(capture, [g EXCEPT !.anon = @ + 1], names), <<"MakeClosure", name, Len(names)>>)
      entered == Enter(made, <<g.scope[1], <<>> >>, "")
      bind(g1, n) == Define([g1 EXCEPT !.slots = @ + 1], n, Variable("varparam", g1.slots + 1, Captured(g, n).ti))
      params == DeclareParams(FoldLeft(bind, entered, names), e[2])
      result == Define(params, "result", Variable("result", 0, ResolveType(g, e[3])))
  IN  Leave(made, CompileStmt(result, e[4]), name)

---------------------------------------------------------------------------
(* Units and programs. *)

RtlUnits == {"system", "crt", "dos", "strings", "windos", "printer", "graph", "graph3", "overlay", "turbo3"}
\* What the unit Crt adds to the names of the program.
RtlExports == [n \in RtlUnits |-> IF n = "crt" THEN {"clrscr"} ELSE {}]

DeclsOf(decls, words) == SelectSeq(decls, LAMBDA d : d[1] \in words)
ProcessUnitDecls(g, decls) ==
  LET routines == DeclsOf(decls, Routines)
      types == RegisterTypes(g, DeclsOf(decls, {"type"}))
      consts == FoldLeft(DeclareConst, types, DeclsOf(decls, {"const"}))
      globals == FoldLeft(DeclareGlobal, consts, DeclsOf(decls, {"var"}))
  IN  FoldLeft(CompileBody, FoldLeft(RegisterSignature, globals, routines), routines)

\* The statements of a unit's initialization are a function of their own; its
\* gotos are left to whoever patches next, which never happens.
CompileUnitInit(g, n, body) ==
  LET name == "__init_" \o n
      done == Emit(CompileStmt([g EXCEPT !.code = <<>>], body), <<"Return">>)
  IN  [done EXCEPT !.code = g.code, !.mod = Put(@, name, [code |-> done.code, slots |-> 0]),
                   !.inits = Append(@, name)]

\* A unit is loaded once, after the units it uses; its declarations join the
\* program's.
RECURSIVE UseUnit(_, _)
UsesOf(t) == IF IsNil(t) THEN <<>> ELSE TextsOf(t)
UnitCode(g, n) ==
  LET u == g.units[n]
      used == FoldLeft(UseUnit, [g EXCEPT !.loaded = @ \cup {n}], UsesOf(u[3][2]) \o UsesOf(u[4][2]))
      decls == ProcessUnitDecls(used, SubSeq(u[3], 3, Len(u[3])) \o SubSeq(u[4], 3, Len(u[4])))
  IN  IF n \in g.loaded THEN g
      ELSE IF n \notin DOMAIN g.units THEN Failed([g EXCEPT !.loaded = @ \cup {n}])
      ELSE IF IsNil(u[5]) THEN decls ELSE CompileUnitInit(decls, n, u[5])
UseUnit(g, n) ==
  IF n \in RtlUnits THEN [g EXCEPT !.externals = @ \cup RtlExports[n]] ELSE LoadUnit(g, n)

\* Of every object type, the function that each of its methods is.
BuildVtables(g) ==
  [g EXCEPT !.vtables =
     [t \in {u \in DOMAIN g.types : IsObject(g.types[u])} |->
        LET ti == g.types[t]
        IN  [m \in {n \in ti.methods : MethodOwner(g, ti.name, n) # ""} |->
               MethodName(MethodOwner(g, ti.name, m), m)]]]

MainDone(g) == [g EXCEPT !.mod = Put(@, "main", [code |-> g.code, slots |-> g.slots])]
CallInits(g) ==
  FoldLeft(LAMBDA g1, n : Emit(Emit(g1, <<"Call", n, 0>>), <<"Pop">>), [g EXCEPT !.labels = <<>>, !.gotos = <<>>],
           g.inits)
ProgramCode(g, prog) ==
  LET decls(k) == Children(prog[4][k + 1])
      routines == decls(5)
      used == FoldLeft(UseUnit, g, UsesOf(prog[3]))
      types == FoldLeft(DeclareConst, RegisterTypes(used, decls(3)), decls(2))
      signed == FoldLeft(LAMBDA g1, r : RegisterSignature(RegisterOperator(RegisterTypeParams(g1, r), r), r),
                         types, routines)
      compiled == BuildVtables(InTurn(CompileBody, FoldLeft(DeclareGlobal, signed, decls(4)), routines))
      body == CompileBodyWithDefers(CallInits(compiled), prog[5])
      main == Emit(PatchGotos(FoldLeft(CompileTestBlock, body, decls(6))), <<"Halt">>)
  IN  MainDone(main)

Compiling(what, g, x) ==
  CASE what = "expression" -> ExprCode(g, x[1])
    [] what = "address" -> AddrCode(g, x[1])
    [] what = "statement" -> StmtCode(g, x[1])
    [] what = "call" -> CallCode(g, x[1], x[2], x[3])
    [] what = "value" -> ValueCode(g, x[1], x[2])
    [] what = "assignment" -> AssignCode(g, x[1], x[2], x[3])
    [] what = "variable" -> LoadCode(g, x[1])
    [] what = "match" -> MatchCode(g, x[1], x[2])
    [] what = "arm" -> ArmCode(g, x[1], x[2], x[3])
    [] what = "case" -> CaseCode(g, x[1])
    [] what = "function" -> AnonCode(g, x[1])
    [] what = "routine" -> BodyCode(g, x[1])
    [] what = "global" -> GlobalCode(g, x[1])
    [] what = "unit" -> UnitCode(g, x[1])
    [] what = "program" -> ProgramCode(g, x[1])

\* What a program is compiled to, or that it was not.
ModuleOf(g) == [ok |-> g.errs = 0, funcs |-> g.mod, vtables |-> g.vtables, globals |-> g.globals]
Compile(prog, modern, options, units) ==
  ModuleOf(CompileProgram(GenNew(modern, options, units), prog))
=============================================================================
