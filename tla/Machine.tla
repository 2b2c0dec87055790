------------------------------ MODULE Machine ------------------------------
(***************************************************************************)
(* The data instructions of the machine in internal/ir/vm.go, one action   *)
(* per instruction, running what Compiler makes of a program.  The memory  *)
(* is a sequence of cells; a reference is the index of a cell, an array    *)
(* and a record have the cells of their elements and fields.  Go's memory  *)
(* is collected: a cell nobody reaches stays here and means nothing.       *)
(*                                                                         *)
(* Channels are in Fibers, the pool frames come from in Frames, the limits *)
(* of a run in Engine: here there is one fiber, and no reference to a      *)
(* local outlives its call.  Exceptions is about every program, this about *)
(* the code of some.  Reals are left out; what is written on the console is*)
(* kept as values, not as their text.                                      *)
(***************************************************************************)
EXTENDS Files

CONSTANTS Modules,      \* programs: a name, what Compile made of it, and the lines
                        \* of its input
          MaxCallDepth  \* frames there may be; 0 for any number

VARIABLES prog,     \* the program that runs
          frames,   \* calls, innermost last: function, next instruction,
                    \* the cells of its locals and of its result
          stack,    \* operands
          mem,      \* cells
          globals,  \* name to cell
          handlers, \* try statements, innermost last: the instruction that
                    \* handles, and the operands and frames to go back to
          exc,      \* the exception raised last, and whether it is active
          out,      \* values written
          io,       \* the input not read yet, and the files
          stop      \* <<>>, or at the end <<error, exit code>>
vars == <<prog, frames, stack, mem, globals, handlers, exc, out, io, stop>>
fixed == <<prog, globals, io>>
trying == <<handlers, exc>>

Module == prog.module
Frame == Last(frames)
Code == Module.funcs[Frame.fn].code
Ins == Code[Frame.pc]
Fetch(op) == stop = <<>> /\ ~(MaxCallDepth > 0 /\ Len(frames) > MaxCallDepth) /\ Ins[1] = op

---------------------------------------------------------------------------
(* Values in cells. *)

RECURSIVE Freeze(_, _), Build(_, _), BuildCells(_, _)
\* What a value holds, whatever cells it is in.
Freeze(m, v) ==
  CASE v[1] = "arr" -> <<"arr", [k \in DOMAIN v[2] |-> Freeze(m, m[v[2][k]])]>>
    [] v[1] = "rec" -> <<"rec", [k \in DOMAIN v[2] |-> <<v[2][k][1], Freeze(m, m[v[2][k][2]])>>]>>
    [] OTHER -> v
\* The value in cells of its own, and the memory that has them.
Build(m, t) ==
  LET cells == BuildCells(m, IF t[1] = "arr" THEN t[2] ELSE [k \in DOMAIN t[2] |-> t[2][k][2]])
  IN  CASE t[1] = "arr" -> [mem |-> cells.mem, val |-> <<"arr", cells.at>>]
        [] t[1] = "rec" -> [mem |-> cells.mem,
                            val |-> <<"rec", [k \in DOMAIN t[2] |-> <<t[2][k][1], cells.at[k]>>]>>]
        [] OTHER -> [mem |-> m, val |-> t]
BuildCells(m, ts) ==
  FoldLeft(LAMBDA c, t : LET b == Build(c.mem, t)
                         IN  [mem |-> Append(b.mem, b.val), at |-> Append(c.at, Len(b.mem) + 1)],
           [mem |-> m, at |-> <<>>], ts)
DeepCopyShared(m, v) == [mem |-> m, val |-> v]
DeepCopy(m, v) == Build(m, Freeze(m, v))

\* The cell of a field, 0 if there is none.
FieldCell(v, n) == LET k == SelectInSeq(v[2], LAMBDA f : f[1] = n) IN IF k = 0 THEN 0 ELSE v[2][k][2]
IsRef(v, kind) == v[1] = "ptr" /\ mem[v[2]][1] = kind

ToInt(v) == CASE v[1] = "int" -> v[2] [] v[1] = "char" -> v[2]
              [] v[1] = "bool" -> IF v[2] THEN 1 ELSE 0 [] OTHER -> 0
Truthy(v) == CASE v[1] = "bool" -> v[2] [] v[1] \in {"int", "char"} -> v[2] # 0
               [] v[1] = "str" -> v[2] # <<>> [] OTHER -> v[1] = "ptr"
StringOf(v) == CASE v[1] = "str" -> v[2] [] v[1] = "char" -> <<v[2]>> [] OTHER -> <<v[2]>>

Scaled(v) == IF v[1] = "currency" THEN v[2] ELSE IF v[1] = "int" THEN v[2] * CurrencyScale ELSE 0
ToCurrencyValue(v) == MoneyVal(Scaled(v))
\* Money times money is scaled back; money times a number is not scaled at all.
Factor(v) == IF v[1] \in {"int", "char"} THEN v[2] ELSE 0
CurrencyOp(op, a, b) ==
  CASE op = "+" -> MoneyVal(Scaled(a) + Scaled(b))
    [] op = "-" -> MoneyVal(Scaled(a) - Scaled(b))
    [] op = "*" -> MoneyVal(IF a[1] = "currency" /\ b[1] = "currency" THEN Quotient(a[2] * b[2], CurrencyScale)
                            ELSE IF a[1] = "currency" THEN a[2] * Factor(b) ELSE Factor(a) * b[2])
    [] OTHER -> MoneyVal(0)
SetOp(op, a, b) ==
  <<"set", CASE op = "+" -> a[2] \cup b[2] [] op = "-" -> a[2] \ b[2] [] op = "*" -> a[2] \cap b[2] [] OTHER -> {}>>
IntOp(op, x, y) ==
  IntVal(CASE op = "+" -> x + y [] op = "-" -> x - y [] op = "*" -> x * y
           [] op = "div" -> IF y = 0 THEN 0 ELSE Quotient(x, y)
           [] op = "mod" -> IF y = 0 THEN 0 ELSE Remainder(x, y)
           [] op = "shl" -> x * 2 ^ y [] op = "shr" -> x \div 2 ^ y
           [] OTHER -> Bits(op, x, y))
BinaryOp(op, a, b) ==
  IF "currency" \in {a[1], b[1]} THEN CurrencyOp(op, a, b)
  ELSE IF a[1] = "set" /\ b[1] = "set" THEN SetOp(op, a, b)
  ELSE IF op = "+" /\ "str" \in {a[1], b[1]} THEN StrVal(StringOf(a) \o StringOf(b))
  ELSE IntOp(op, ToInt(a), ToInt(b))

\* -1, 0 or 1, by the bytes.
Order(s, t) ==
  LET k == SelectInSeq([j \in 1..(IF Len(s) < Len(t) THEN Len(s) ELSE Len(t)) |-> s[j] # t[j]], LAMBDA d : d)
  IN  IF k = 0 THEN Len(s) - Len(t) ELSE s[k] - t[k]
CompareSets(op, a, b) == CASE op = "=" -> a = b [] op = "<>" -> a # b [] op = "<=" -> a \subseteq b
                           [] op = ">=" -> b \subseteq a [] OTHER -> FALSE
CompareRefs(op, a, b) ==
  LET same == IF "nil" \in {a[1], b[1]} THEN a[1] = b[1] ELSE a = b
  IN  CASE op = "=" -> same [] op = "<>" -> ~same [] OTHER -> FALSE
CompareStrings(op, s, t) ==
  CASE op = "=" -> s = t [] op = "<>" -> s # t [] OTHER -> Compares(op, Order(s, t), 0)
CompareOp(op, a, b) ==
  LET kinds == {a[1], b[1]} IN
  BoolVal(IF "currency" \in kinds THEN Compares(op, Scaled(a), Scaled(b))
          ELSE IF kinds \cap {"ptr", "nil"} # {} THEN CompareRefs(op, a, b)
          ELSE IF kinds = {"set"} THEN CompareSets(op, a[2], b[2])
          ELSE IF "str" \in kinds THEN CompareStrings(op, StringOf(a), StringOf(b))
          ELSE Compares(op, ToInt(a), ToInt(b)))
UnaryOp(op, a) == CASE op = "-" -> IntVal(-ToInt(a)) [] op = "not" -> BoolVal(~Truthy(a)) [] OTHER -> a

\* The functions of the System unit.
MinInteger == -32768
MaxInteger == 32767
BuiltinOp(n, a) ==
  CASE n = "length" -> IntVal(IF a[1] = "arr" THEN Len(a[2]) ELSE Len(StringOf(a)))
    [] n = "high" -> IF a[1] = "arr" THEN IntVal(Len(a[2]) - 1) ELSE IF a[1] = "int" THEN IntVal(MaxInteger) ELSE a
    [] n = "low" -> IF a[1] = "arr" THEN IntVal(0) ELSE IF a[1] = "int" THEN IntVal(MinInteger) ELSE a
    [] n = "ord" -> IntVal(ToInt(a))
    [] n = "chr" -> CharVal(ToInt(a) % 256)
    [] n = "odd" -> BoolVal(ToInt(a) % 2 # 0)
    [] n = "abs" -> IntVal(Abs(ToInt(a)))
    [] n \in {"succ", "pred"} -> LET d == IF n = "succ" THEN 1 ELSE -1
                                 IN  IF a[1] = "int" THEN IntVal(a[2] + d)
                                     ELSE IF a[1] = "char" THEN CharVal((a[2] + d) % 256) ELSE a
    [] OTHER -> NilValue

---------------------------------------------------------------------------
(* The operand stack. *)

\* The k-th operand from the top; popping an empty stack gives nil and ends the run.
Arg(k) == IF k <= Len(stack) THEN stack[Len(stack) + 1 - k] ELSE NilValue
Rest(n) == SubSeq(stack, 1, Len(stack) - n)
LastArgs(n) == SubSeq(stack, IF n < Len(stack) THEN Len(stack) - n + 1 ELSE 1, Len(stack))
Underflow(n) == IF Len(stack) < n THEN <<204, 0>> ELSE <<>>

Goto(pc) == frames' = [frames EXCEPT ![Len(frames)].pc = pc]
Proceed == Goto(Frame.pc + 1)

\* The instruction takes n operands and leaves these values.
Leaves(n, vals) ==
  /\ stack' = Rest(n) \o vals
  /\ stop' = Underflow(n)
  /\ Proceed
  /\ UNCHANGED <<fixed, trying, out>>
\* It does so, or ends the run with an error.
LeavesOr(n, fine, vals, error) ==
  IF fine THEN Leaves(n, vals)
  ELSE /\ stack' = Rest(n)
       /\ stop' = <<error, 0>>
       /\ Proceed
       /\ UNCHANGED <<fixed, trying, out>>

---------------------------------------------------------------------------
(* Constants, variables and references. *)

Push == Fetch("Push") /\ Leaves(0, <<Ins[2]>>) /\ UNCHANGED mem
PushZero ==
  /\ Fetch("PushZero")
  /\ LET b == Build(mem, Ins[2]) IN Leaves(0, <<b.val>>) /\ mem' = b.mem

LoadGlobal == Fetch("LoadGlobal") /\ Leaves(0, <<mem[globals[Ins[2]]]>>) /\ UNCHANGED mem
StoreGlobal ==
  /\ Fetch("StoreGlobal")
  /\ Leaves(1, <<>>)
  /\ LET b == DeepCopy(mem, Arg(1)) IN mem' = [b.mem EXCEPT ![globals[Ins[2]]] = b.val]
AddrGlobal == Fetch("AddrGlobal") /\ Leaves(0, << <<"ptr", globals[Ins[2]]>> >>) /\ UNCHANGED mem

LoadLocal == Fetch("LoadLocal") /\ Leaves(0, <<mem[Frame.at[Ins[2]]]>>) /\ UNCHANGED mem
\* What is stored in a local is not copied.
StoreLocal == Fetch("StoreLocal") /\ Leaves(1, <<>>) /\ mem' = [mem EXCEPT ![Frame.at[Ins[2]]] = Arg(1)]
AddrLocal == Fetch("AddrLocal") /\ Leaves(0, << <<"ptr", Frame.at[Ins[2]]>> >>) /\ UNCHANGED mem

LoadResult == Fetch("LoadResult") /\ Leaves(0, <<mem[Frame.res]>>) /\ UNCHANGED mem
SetResult == Fetch("SetResult") /\ Leaves(1, <<>>) /\ mem' = [mem EXCEPT ![Frame.res] = Arg(1)]
AddrResult == Fetch("AddrResult") /\ Leaves(0, << <<"ptr", Frame.res>> >>) /\ UNCHANGED mem

LoadRef ==
  /\ Fetch("LoadRef")
  /\ LeavesOr(1, Arg(1)[1] = "ptr", <<mem[Arg(1)[2]]>>, 204)
  /\ UNCHANGED mem
StoreRef ==
  /\ Fetch("StoreRef")
  /\ LeavesOr(2, Arg(2)[1] = "ptr", <<>>, 204)
  /\ LET b == DeepCopy(mem, Arg(1))
     IN  mem' = IF Arg(2)[1] = "ptr" THEN [b.mem EXCEPT ![Arg(2)[2]] = b.val] ELSE mem

\* A field the record lacks is added to it.
FieldAddr ==
  /\ Fetch("FieldAddr")
  /\ LET r == Arg(1)
         known == FieldCell(mem[r[2]], Ins[2])
         cell == IF known # 0 THEN known ELSE Len(mem) + 1
     IN  /\ LeavesOr(1, IsRef(r, "rec"), << <<"ptr", cell>> >>, 204)
         /\ mem' = IF ~IsRef(r, "rec") \/ known # 0 THEN mem
                   ELSE Append([mem EXCEPT ![r[2]] = <<"rec", Append(@[2], <<Ins[2], cell>>)>>], IntVal(0))
ElemAddr ==
  /\ Fetch("ElemAddr")
  /\ LET r == Arg(2)
         cells == mem[r[2]][2]
         i == ToInt(Arg(1)) + 1
     IN  IF IsRef(r, "arr") THEN LeavesOr(2, i \in DOMAIN cells, << <<"ptr", cells[i]>> >>, 201)
         ELSE LeavesOr(2, FALSE, <<>>, 204)
  /\ UNCHANGED mem
HeapAlloc ==
  /\ Fetch("HeapAlloc")
  /\ Leaves(1, << <<"ptr", Len(mem) + 1>> >>)
  /\ mem' = Append(mem, Arg(1))

\* Shorter keeps the cells; longer has new ones, the old values as they are.
SetLength ==
  /\ Fetch("SetLength")
  /\ Leaves(3, <<>>)
  /\ LET n == IF ToInt(Arg(2)) < 0 THEN 0 ELSE ToInt(Arg(2))
         r == Arg(3)
         cells == mem[r[2]][2]
         grown == FoldLeft(LAMBDA c, k : LET b == DeepCopy(c.mem, Arg(1))
                                         IN  [mem |-> Append(b.mem, b.val), at |-> Append(c.at, Len(b.mem) + 1)],
                           [mem |-> mem \o [k \in DOMAIN cells |-> mem[cells[k]]],
                            at |-> [k \in DOMAIN cells |-> Len(mem) + k]],
                           [k \in 1..n - Len(cells) |-> k])
     IN  mem' = IF ~IsRef(r, "arr") THEN mem
                ELSE IF n <= Len(cells) THEN [mem EXCEPT ![r[2]] = <<"arr", SubSeq(cells, 1, n)>>]
                ELSE [grown.mem EXCEPT ![r[2]] = <<"arr", grown.at>>]

StrChar ==
  /\ Fetch("StrChar")
  /\ LET i == ToInt(Arg(1))
         s == Arg(2)
     IN  Leaves(2, <<CharVal(IF s[1] = "str" /\ i \in DOMAIN s[2] THEN s[2][i] ELSE 0)>>)
  /\ UNCHANGED mem
StrCharStore ==
  /\ Fetch("StrCharStore")
  /\ Leaves(3, <<>>)
  /\ LET v == Arg(1)
         i == ToInt(Arg(2))
         r == Arg(3)
         c == IF v[1] = "str" THEN (IF v[2] = <<>> THEN 0 ELSE Head(v[2])) ELSE ToInt(v)
     IN  mem' = IF IsRef(r, "str") /\ i \in DOMAIN mem[r[2]][2] THEN [mem EXCEPT ![r[2]][2][i] = c] ELSE mem

\* The payload is taken as it is on the stack.
MkTagged ==
  /\ Fetch("MkTagged")
  /\ LET vals == <<StrVal(<<Ins[2]>>)>> \o LastArgs(Ins[3])
         name(k) == IF k = 1 THEN "__tag" ELSE "__" \o ToString(k - 2)
     IN  /\ Leaves(Ins[3], << <<"rec", [k \in DOMAIN vals |-> <<name(k), Len(mem) + k>>]>> >>)
         /\ mem' = mem \o vals

---------------------------------------------------------------------------
(* Operators. *)

Binary == Fetch("Binary") /\ Leaves(2, <<BinaryOp(Ins[2], Arg(2), Arg(1))>>) /\ UNCHANGED mem
Compare == Fetch("Compare") /\ Leaves(2, <<CompareOp(Ins[2], Arg(2), Arg(1))>>) /\ UNCHANGED mem
Unary == Fetch("Unary") /\ Leaves(1, <<UnaryOp(Ins[2], Arg(1))>>) /\ UNCHANGED mem
ToCurrency == Fetch("ToCurrency") /\ Leaves(1, <<ToCurrencyValue(Arg(1))>>) /\ UNCHANGED mem
In == /\ Fetch("In")
      /\ Leaves(2, <<BoolVal(Arg(1)[1] = "set" /\ ToInt(Arg(2)) \in Arg(1)[2])>>)
      /\ UNCHANGED mem
\* A set has members from 0 to 255.
MkSet == /\ Fetch("MkSet")
         /\ Leaves(Ins[2], << <<"set", {ToInt(Arg(k)) : k \in 1..Ins[2]} \cap 0..255>> >>)
         /\ UNCHANGED mem
Dup == Fetch("Dup") /\ LeavesOr(0, stack # <<>>, <<Arg(1)>>, 204) /\ UNCHANGED mem
Pop == Fetch("Pop") /\ Leaves(1, <<>>) /\ UNCHANGED mem

---------------------------------------------------------------------------
(* Exceptions. *)

\* The handler taken is spent; an except block ends the exception, a finally
\* block runs while it is still active.
Unwound(h, val) == [value |-> val, active |-> h.isFinally]

\* The instruction takes n operands and raises val: on at the innermost handler,
\* in its frame and with its operands; without a handler the run is over.
Unwind(n, val) ==
  LET h == Last(handlers) IN
  /\ UNCHANGED <<prog, globals>>
  /\ IF handlers = <<>>
     THEN /\ stop' = <<217, 0>>
          /\ stack' = Rest(n)
          /\ exc' = [value |-> val, active |-> TRUE]
          /\ Proceed
          /\ UNCHANGED handlers
     ELSE /\ stop' = Underflow(n)
          /\ stack' = SubSeq(Rest(n), 1, h.operands)
          /\ exc' = Unwound(h, val)
          /\ frames' = [SubSeq(frames, 1, h.depth) EXCEPT ![h.depth].pc = h.pc]
          /\ handlers' = Front(handlers)

EnterTry ==
  /\ Fetch("EnterTry")
  /\ handlers' = Append(handlers, [pc |-> Ins[2], operands |-> Len(stack), depth |-> Len(frames),
                                   isFinally |-> Ins[3]])
  /\ Proceed
  /\ UNCHANGED <<fixed, exc, stack, mem, out, stop>>
PopTry ==
  /\ Fetch("PopTry")
  /\ handlers' = IF handlers = <<>> THEN handlers ELSE Front(handlers)
  /\ Proceed
  /\ UNCHANGED <<fixed, exc, stack, mem, out, stop>>
\* raise alone raises again what was raised last.
Raise ==
  /\ Fetch("Raise")
  /\ Unwind(Ins[2], IF Ins[2] = 0 THEN exc.value ELSE Arg(1))
  /\ UNCHANGED <<mem, out, io>>
Reraise ==
  /\ Fetch("Reraise")
  /\ IF exc.active THEN Unwind(0, exc.value)
     ELSE Proceed /\ UNCHANGED <<prog, globals, trying, stack, stop>>
  /\ UNCHANGED <<mem, out, io>>
Recover ==
  /\ Fetch("Recover")
  /\ stack' = Append(stack, IF exc.active THEN exc.value ELSE NilValue)
  /\ exc' = [exc EXCEPT !.active = FALSE]
  /\ Proceed
  /\ UNCHANGED <<fixed, handlers, mem, out, stop>>

---------------------------------------------------------------------------
(* Builtins, jumps, calls and the end. *)

\* A character is written as the string of it.
Shown(v) == IF v[1] = "char" THEN StrVal(<<v[2]>>) ELSE v
EndOfLine == <<"eol">>
\* Whatever it does, a builtin called while an exception is active unwinds.
CallBuiltin ==
  /\ Fetch("CallBuiltin")
  /\ LET n == Ins[3]
         args == [k \in 1..n |-> Arg(n + 1 - k)]
         writes == Ins[2] \in {"write", "writeln"}
         file == CallFile(io, mem, Ins[2], args)
         result == CASE writes -> NilValue
                     [] Ins[2] \in FileBuiltins -> file.val
                     [] Ins[2] = "__writefmt" -> StrVal(FormatField(args[1], args[2][2]))
                     [] OTHER -> BuiltinOp(Ins[2], args[1])
     IN  /\ IF exc.active THEN Unwind(n, exc.value)
            ELSE /\ stack' = Rest(n) \o <<result>>
                 /\ stop' = Underflow(n)
                 /\ Proceed
                 /\ UNCHANGED <<prog, globals, trying>>
         /\ IF Ins[2] \in FileBuiltins THEN io' = file.io /\ mem' = file.mem ELSE UNCHANGED <<io, mem>>
         /\ out' = IF writes THEN out \o [k \in 1..n |-> Shown(args[k])]
                                      \o (IF Ins[2] = "writeln" THEN <<EndOfLine>> ELSE <<>>)
                   ELSE out

Jump == Fetch("Jump") /\ Goto(Ins[2]) /\ UNCHANGED <<fixed, trying, stack, mem, out, stop>>
JumpIf(op, holds) ==
  /\ Fetch(op)
  /\ stack' = Rest(1)
  /\ stop' = Underflow(1)
  /\ Goto(IF holds THEN Ins[2] ELSE Frame.pc + 1)
  /\ UNCHANGED <<fixed, trying, mem, out>>
JumpIfFalse == JumpIf("JumpIfFalse", ~Truthy(Arg(1)))
JumpIfTrue == JumpIf("JumpIfTrue", Truthy(Arg(1)))

\* A new frame: references among the arguments are kept, values are copied; a
\* slot without an argument, and the result, hold the integer 0.
NewFrame(m, fn, args) ==
  LET slots == Module.funcs[fn].slots
      cells == BuildCells(m, [k \in 1..slots |-> IF k <= Len(args) THEN Freeze(m, args[k]) ELSE IntVal(0)]
                             \o <<IntVal(0)>>)
  IN  [mem |-> cells.mem, frame |-> [fn |-> fn, pc |-> 1, at |-> Front(cells.at), res |-> Last(cells.at)]]
Enter(fn, args, drop) ==
  LET new == NewFrame(mem, fn, args)
  IN  /\ frames' = Append([frames EXCEPT ![Len(frames)].pc = @ + 1], new.frame)
      /\ mem' = new.mem
      /\ stack' = Rest(drop)
      /\ UNCHANGED <<fixed, trying, out, stop>>
Fail(error) ==
  /\ stop' = <<error, 0>>
  /\ Proceed
  /\ UNCHANGED <<fixed, trying, stack, mem, out>>

Call == Fetch("Call") /\ Enter(Ins[2], LastArgs(Ins[3]), Ins[3])

\* The tag of the receiver, itself or what it refers to, has the method's function.
TypeTag(v) ==
  LET rec == IF v[1] = "ptr" THEN mem[v[2]] ELSE v
      tag == IF rec[1] = "rec" THEN FieldCell(rec, "__type") ELSE 0
  IN  IF tag = 0 THEN "" ELSE mem[tag][2][1]
CallMethod ==
  /\ Fetch("CallMethod")
  /\ LET typ == TypeTag(Arg(Ins[3]))
         found == typ \in DOMAIN Module.vtables /\ Ins[2] \in DOMAIN Module.vtables[typ]
     IN  IF Len(stack) < Ins[3] THEN Fail(204)
         ELSE IF ~found THEN Fail(210)
         ELSE Enter(Module.vtables[typ][Ins[2]], LastArgs(Ins[3]), Ins[3])

MakeClosure == /\ Fetch("MakeClosure")
               /\ Leaves(Ins[3], << <<"func", Ins[2], LastArgs(Ins[3])>> >>)
               /\ UNCHANGED mem
CallValue ==
  /\ Fetch("CallValue")
  /\ LET f == Arg(Ins[2] + 1)
     IN  IF Len(stack) > Ins[2] /\ f[1] = "func" THEN Enter(f[2], f[3] \o LastArgs(Ins[2]), Ins[2] + 1)
         ELSE Fail(204)

\* The handlers of the frame go with it: the innermost, as those of a frame are
\* above those of its callers.
DropHandlers == handlers' = SelectSeq(handlers, LAMBDA h : h.depth < Len(frames))
Return ==
  /\ Fetch("Return")
  /\ LET v == mem[Frame.res]
     IN  IF Len(frames) = 1
         THEN /\ stop' = <<0, IF v[1] \in {"int", "currency"} THEN v[2] ELSE 0>>
              /\ UNCHANGED <<frames, stack, handlers>>
         ELSE /\ frames' = Front(frames)
              /\ stack' = Append(stack, v)
              /\ DropHandlers
              /\ UNCHANGED stop
  /\ UNCHANGED <<fixed, exc, mem, out>>

Halt == Fetch("Halt") /\ stop' = <<0, 0>> /\ UNCHANGED <<fixed, trying, frames, stack, mem, out>>
TooDeep ==
  /\ stop = <<>>
  /\ MaxCallDepth > 0 /\ Len(frames) > MaxCallDepth
  /\ stop' = <<202, 0>>
  /\ UNCHANGED <<fixed, trying, frames, stack, mem, out>>

Init ==
  /\ prog \in Modules
  /\ Module.ok
  /\ LET all == FoldSet(LAMBDA n, c : LET b == Build(c.mem, Module.globals[n])
                                      IN  [mem |-> Append(b.mem, b.val), at |-> Append(c.at, <<n, Len(b.mem) + 1>>)],
                        [mem |-> <<>>, at |-> <<>>], DOMAIN Module.globals)
         main == NewFrame(all.mem, "main", <<>>)
     IN  /\ globals = [n \in DOMAIN Module.globals |-> (CHOOSE p \in ToSet(all.at) : p[1] = n)[2]]
         /\ mem = main.mem
         /\ frames = <<main.frame>>
  /\ stack = <<>>
  /\ handlers = <<>>
  /\ exc = [value |-> IntVal(0), active |-> FALSE]
  /\ out = <<>>
  /\ io = StartIO(prog.input)
  /\ stop = <<>>

Next ==
  \/ Push \/ PushZero \/ LoadGlobal \/ StoreGlobal \/ AddrGlobal \/ LoadLocal \/ StoreLocal \/ AddrLocal
  \/ LoadResult \/ SetResult \/ AddrResult \/ LoadRef \/ StoreRef \/ FieldAddr \/ ElemAddr \/ HeapAlloc
  \/ SetLength \/ StrChar \/ StrCharStore \/ MkTagged \/ Binary \/ Compare \/ Unary \/ ToCurrency \/ In
  \/ MkSet \/ Dup \/ Pop \/ CallBuiltin \/ Jump \/ JumpIfFalse \/ JumpIfTrue \/ Call \/ CallMethod
  \/ MakeClosure \/ CallValue \/ Return \/ EnterTry \/ PopTry
  \/ Raise \/ Reraise \/ Recover \/ Halt \/ TooDeep
Spec == Init /\ [][Next]_vars /\ WF_vars(Next)
=============================================================================
