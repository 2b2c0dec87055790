------------------------------- MODULE Source -------------------------------
(***************************************************************************)
(* What a program means, told from its tree alone: a definition to hold    *)
(* the code generator and the machine against.  Names are bound to places, *)
(* values are whole - an array is a function of its indexes, a record one  *)
(* of its fields - and an assignment replaces a value in a place.  There   *)
(* are no instructions, no operand stack and no references inside values   *)
(* but the pointers of the program.                                        *)
(*                                                                         *)
(* A place is <<location, path>>, the path a sequence of indexes and field *)
(* names.                                                                  *)
(***************************************************************************)
EXTENDS Types

---------------------------------------------------------------------------
(* A computation ends with a state and a value; one that has ended the     *)
(* program, with an error or by halt, stays where it is.                   *)

Done(s, v) == [s |-> s, v |-> v]
Then(r, F(_, _)) == IF r.s.end # <<>> THEN r ELSE F(r.s, r.v)
Going == -1   \* not an error: a goto on the way to its label
Raised == -2  \* nor this: an exception on the way to its handler
Raises(s, v) == Done([s EXCEPT !.end = <<Raised, v>>], NilValue)
IsRaised(r) == r.s.end # <<>> /\ Head(r.s.end) = Raised
Fails(s, error) == Done([s EXCEPT !.end = <<error, 0>>], NilValue)

RECURSIVE Within(_, _), Replace(_, _, _)
Within(v, path) == IF path = <<>> THEN v ELSE Within(v[2][Head(path)], Tail(path))
Get(s, at) == Within(s.store[at[1]], at[2])
Replace(v, path, x) ==
  IF path = <<>> THEN x ELSE [v EXCEPT ![2][Head(path)] = Replace(@, Tail(path), x)]
\* A number becomes money where money is expected.
Coerce(old, x) == IF old[1] = "currency" /\ x[1] = "int" THEN MoneyVal(x[2] * CurrencyScale) ELSE x
Assign(s, at, x) ==
  Done([s EXCEPT !.store[at[1]] = Replace(@, at[2], Coerce(Get(s, at), x))], NilValue)
\* The value is in a place of its own.
Alloc(s, x) == Done([s EXCEPT !.store = Append(@, x)], <<Len(s.store) + 1, <<>> >>)

\* Bind a name to a place of a type.
Bound(c, n, at, ti) == [c EXCEPT !.env = Put(@, n, [at |-> at, ti |-> ti])]

---------------------------------------------------------------------------
(* Types. *)

ConstOf(c, e) == IF IsTree(e, "lit") THEN LiteralValue[NameOf(e)][2] ELSE c.consts[NameOf(e)][2]
Declared(c, t) == IsTree(t, "typeref") /\ NameOf(t) \in DOMAIN c.types
Parent(c, n) == LET t == c.types[n] IN IF HasChild(t, "parents") THEN Child(t, "parents")[2][1] ELSE "nil"
IsDeclared(c, n) == n \in DOMAIN c.types

FieldPairs(groups) ==
  FlattenSeq([k \in DOMAIN groups |->
    [j \in DOMAIN TextsOf(groups[k][2]) |-> <<TextsOf(groups[k][2])[j], groups[k][3]>>]])
VariantPairs(v) ==
  (IF IsNil(v[2]) THEN <<>> ELSE << <<NameOf(v[2]), v[3]>> >>)
  \o FlattenSeq([k \in 1..Len(v) - 3 |-> FieldPairs(ChildrenOf(v[k + 3], {"field"}))])
RECURSIVE FieldsIn(_, _)
\* The fields and their types, the inherited ones first.
FieldsIn(c, t) ==
  (IF HasChild(t, "parents") /\ IsDeclared(c, Child(t, "parents")[2][1])
   THEN FieldsIn(c, c.types[Child(t, "parents")[2][1]]) ELSE <<>>)
  \o FieldPairs(ChildrenOf(t, {"field"}))
  \o (IF HasChild(t, "variant") THEN VariantPairs(Child(t, "variant")) ELSE <<>>)

RECURSIVE Zero(_, _), ZeroArray(_, _, _)
Instance(c, t, name) ==
  LET fields == FieldsIn(c, t)
      names == {fields[k][1] : k \in DOMAIN fields}
  IN  <<"rec", [f \in names |-> Zero(c, (CHOOSE p \in ToSet(fields) : p[1] = f)[2])], name>>
ZeroArray(c, t, dim) ==
  IF dim = Len(t) THEN Zero(c, t[dim])
  ELSE <<"arr", [k \in ConstOf(c, t[dim][2])..ConstOf(c, t[dim][3]) |-> ZeroArray(c, t, dim + 1)]>>
\* What a variable of the type holds before it is assigned.
Zero(c, t) ==
  LET shape == IF Declared(c, t) THEN c.types[NameOf(t)] ELSE t
      name == IF Declared(c, t) THEN NameOf(t) ELSE ""
      n == NameOf(shape)
  IN  CASE shape[1] \in {"record", "object"} -> Instance(c, shape, name)
        [] shape[1] \in {"class", "interface", "pointer", "proctype"} -> NilValue
        [] IsTree(shape, "array") -> ZeroArray(c, shape, 2)
        [] IsTree(shape, "arrayof") -> <<"arr", <<>> >>
        [] IsTree(shape, "setof") -> <<"set", {}>>
        [] IsTree(shape, "stringtype") -> StrVal(<<>>)
        [] shape[1] \in {"textfile", "fileof"} ->
             <<"file", [name |-> <<>>, mode |-> "closed", at |-> 0, typed |-> Len(shape) > 1]>>
        [] shape[1] \in {"ordtype", "typeref"} ->
             (CASE n = "boolean" -> BoolVal(FALSE) [] n = "char" -> CharVal(0)
                [] n = "currency" -> MoneyVal(0) [] n = "string" -> StrVal(<<>>)
                [] OTHER -> IF Declared(c, shape) THEN Zero(c, shape) ELSE IntVal(0))
        [] OTHER -> IntVal(0)

RECURSIVE StaticType(_, _)
\* The type a place is declared with.
StaticType(c, e) ==
  LET base == StaticType(c, e[2])
      t == CASE IsIdent(e) -> c.env[NameOf(e)].ti
             [] IsTree(e, "field") -> (CHOOSE p \in ToSet(FieldsIn(c, base)) : p[1] = e[3][1])[2]
             [] OTHER -> Last(base)
  IN  IF Declared(c, t) THEN c.types[NameOf(t)] ELSE t

RECURSIVE Accessor(_, _, _, _), FindMethod(_, _, _)
\* The field or method a property is read or written by; another name stands for itself.
Accessor(c, typ, n, way) ==
  IF ~IsDeclared(c, typ) THEN n
  ELSE LET own == SelectSeq(ChildrenOf(c.types[typ], {"property"}), LAMBDA p : NameOf(p) = n)
       IN  IF own = <<>> THEN Accessor(c, Parent(c, typ), n, way) ELSE NameOf(Child(own[1], way))
\* The routine a message means for an object of the type: its own, its
\* parents', its helper's.
FindMethod(c, typ, m) ==
  IF ~IsDeclared(c, typ) THEN <<>>
  ELSE IF <<typ, m>> \in DOMAIN c.routines THEN <<typ, m>>
  ELSE IF FindMethod(c, Parent(c, typ), m) # <<>> THEN FindMethod(c, Parent(c, typ), m)
  ELSE IF typ \in DOMAIN c.helpers /\ <<c.helpers[typ], m>> \in DOMAIN c.routines
  THEN <<c.helpers[typ], m>> ELSE <<>>

---------------------------------------------------------------------------
(* Operators on values. *)

Number(v) == IF v[1] = "bool" THEN (IF v[2] THEN 1 ELSE 0) ELSE v[2]
Money(v) == IF v[1] = "currency" THEN v[2] ELSE v[2] * CurrencyScale
Text(v) == IF v[1] = "char" THEN <<v[2]>> ELSE v[2]
RECURSIVE Before(_, _)
Before(s, t) ==
  t # <<>> /\ (s = <<>> \/ Head(s) < Head(t) \/ (Head(s) = Head(t) /\ Before(Tail(s), Tail(t))))
Sign(less, same) == IF less THEN -1 ELSE IF same THEN 0 ELSE 1

Related(op, a, b) ==
  LET kinds == {a[1], b[1]} IN
  CASE kinds \cap {"nil", "ptr", "adt"} # {} -> (op = "=") = (a = b)
    [] kinds = {"set"} -> (CASE op = "=" -> a = b [] op = "<>" -> a # b
                             [] op = "<=" -> a[2] \subseteq b[2] [] OTHER -> b[2] \subseteq a[2])
    [] "currency" \in kinds -> Compares(op, Money(a), Money(b))
    [] "str" \in kinds -> Compares(op, Sign(Before(Text(a), Text(b)), Text(a) = Text(b)), 0)
    [] OTHER -> Compares(op, Number(a), Number(b))

Logic(op, x, y) == CASE op = "and" -> x /\ y [] op = "or" -> x \/ y [] OTHER -> x # y
Combined(op, a, b) ==
  LET kinds == {a[1], b[1]} IN
  CASE kinds = {"bool"} -> BoolVal(Logic(op, a[2], b[2]))
    [] kinds = {"set"} -> <<"set", CASE op = "+" -> a[2] \cup b[2] [] op = "-" -> a[2] \ b[2]
                                     [] OTHER -> a[2] \cap b[2]>>
    [] "str" \in kinds -> StrVal(Text(a) \o Text(b))
    [] kinds = {"currency"} /\ op = "*" -> MoneyVal(Quotient(a[2] * b[2], CurrencyScale))
    [] "currency" \in kinds /\ op = "*" -> MoneyVal(a[2] * b[2])
    [] "currency" \in kinds /\ op = "+" -> MoneyVal(Money(a) + Money(b))
    [] "currency" \in kinds /\ op = "-" -> MoneyVal(Money(a) - Money(b))
    [] op = "+" -> IntVal(a[2] + b[2])
    [] op = "-" -> IntVal(a[2] - b[2])
    [] op = "*" -> IntVal(a[2] * b[2])
    [] op = "div" -> IntVal(Quotient(a[2], b[2]))
    [] op = "mod" -> IntVal(Remainder(a[2], b[2]))
    [] op = "shl" -> IntVal(a[2] * 2 ^ b[2])
    [] op = "shr" -> IntVal(a[2] \div 2 ^ b[2])
    [] OTHER -> IntVal(Bits(op, a[2], b[2]))

Standard == {"length", "high", "low", "ord", "chr", "odd", "abs", "succ", "pred"}
Apply(n, a) ==
  LET by(d) == IF a[1] = "char" THEN CharVal((a[2] + d) % 256) ELSE IntVal(Number(a) + d)
  IN  CASE n = "length" -> IntVal(IF a[1] = "arr" THEN Cardinality(DOMAIN a[2]) ELSE Len(Text(a)))
        [] n = "high" -> IntVal(IF a[2] = <<>> THEN -1 ELSE Max(DOMAIN a[2]))
        [] n = "low" -> IntVal(IF a[2] = <<>> THEN 0 ELSE Min(DOMAIN a[2]))
        [] n = "ord" -> IntVal(Number(a))
        [] n = "chr" -> CharVal(a[2])
        [] n = "odd" -> BoolVal(a[2] % 2 = 1)
        [] n = "abs" -> IntVal(Abs(a[2]))
        [] OTHER -> by(IF n = "succ" THEN 1 ELSE -1)

---------------------------------------------------------------------------
(* Expressions and places. *)

RECURSIVE Does(_, _, _, _)  \* what is evaluated or executed, where, in which state
Eval(c, s, e) == Does("value", c, s, <<e>>)
Place(c, s, e) == Does("place", c, s, <<e>>)
Exec(c, s, t) == Does("statement", c, s, <<t>>)
ExecAll(c, s, stmts) == Does("statements", c, s, <<stmts>>)
MatchArms(c, s, v, arms, isExpr) == Does("arms", c, s, <<v, arms, isExpr>>)
Invoke(c, s, r, key, ats) == Does("routine", c, s, <<r, key, ats>>)
CallMethod(c, s, obj, key, args) == Does("method", c, s, <<obj, key, args>>)
CallNamed(c, s, n, args) == Does("named", c, s, <<n, args>>)
CaseOf(c, s, v, branches) == Does("case", c, s, <<v, branches>>)
While(c, s, test, body) == Does("while", c, s, <<test, body>>)
Send(c, s, recv, m, args) == Does("send", c, s, <<recv, m, args>>)
EvalAll(c, s, es) == Does("values", c, s, <<es>>)


EvalAllRule(c, s, es) ==
  FoldLeft(LAMBDA r, e : Then(r, LAMBDA s1, vs :
             Then(Eval(c, s1, e), LAMBDA s2, v : Done(s2, Append(vs, v)))),
           Done(s, <<>>), es)

\* An object is named by a variable that holds it or that refers to it.
Object(s, at) ==
  LET v == Get(s, at)
  IN  IF v[1] = "nil" THEN Fails(s, 204) ELSE Done(s, IF v[1] = "ptr" THEN Tail(v) ELSE at)

PlaceRule(c, s, e) ==
  CASE IsIdent(e) -> Done(s, c.env[NameOf(e)].at)
    [] IsTree(e, "field") ->
         Then(Place(c, s, e[2]), LAMBDA s1, at : Then(Object(s1, at), LAMBDA s2, obj :
           Done(s2, <<obj[1], Append(obj[2], Accessor(c, Get(s2, obj)[3], e[3][1], "read"))>>)))
    [] IsTree(e, "index") ->
         Then(Place(c, s, e[2]), LAMBDA s1, at : Then(Eval(c, s1, e[3]), LAMBDA s2, i :
           IF Number(i) \in DOMAIN Get(s2, at)[2] THEN Done(s2, <<at[1], Append(at[2], Number(i))>>)
           ELSE Fails(s2, 201)))
    [] OTHER -> Then(Eval(c, s, e[2]), LAMBDA s1, p :
                  IF p[1] = "ptr" THEN Done(s1, Tail(p)) ELSE Fails(s1, 204))
Contents(c, s, e) == Then(Place(c, s, e), LAMBDA s1, at : Done(s1, Get(s1, at)))

\* Parameters one by one: name, whether it is a var parameter, type.
ParamsOf(r) ==
  FlattenSeq([k \in 1..Len(r) - 1 |->
    [j \in DOMAIN TextsOf(Child(r[k + 1], "names")) |->
       [name |-> TextsOf(Child(r[k + 1], "names"))[j], isVar |-> HasChild(r[k + 1], "var"),
        ti |-> Last(r[k + 1])]]])
ParamsTree(r) == Child(r, "params")
AfterParams(r, k) == LET at == CHOOSE j \in 2..Len(r) : IsTree(r[j], "params") IN SubSeq(r, at + k, Len(r))

\* The places of the arguments: a var parameter is its argument, another one is
\* a new variable.
Arguments(c, s, r, args) ==
  LET ps == ParamsOf(ParamsTree(r))
      own(s1, v, k) == Alloc(s1, Coerce(Zero(c, ps[k].ti), v))
  IN  FoldLeft(LAMBDA done, k : Then(done, LAMBDA s1, ats :
                 Then(IF ps[k].isVar THEN Place(c, s1, args[k])
                      ELSE Then(Eval(c, s1, args[k]), LAMBDA s2, v : own(s2, v, k)),
                      LAMBDA s3, at : Done(s3, Append(ats, at)))),
               Done(s, <<>>), [k \in DOMAIN args |-> k])

CallRoutine(c, s, key, args) ==
  Then(Arguments(c, s, c.routines[key], args),
       LAMBDA s1, ats : Invoke([c EXCEPT !.env = c.globals, !.owner = ""], s1, c.routines[key], key, ats))
\* A method with the fields of its object in view.
CallMethodRule(c, s, obj, key, args) ==
  LET r == c.routines[key]
      fields == Get(s, obj)[2]
      inside == [n \in DOMAIN c.globals \cup DOMAIN fields \cup {"self"} |->
                   IF n = "self" THEN [at |-> obj, ti |-> NoTree]
                   ELSE IF n \in DOMAIN fields THEN [at |-> <<obj[1], Append(obj[2], n)>>, ti |-> NoTree]
                   ELSE c.globals[n]]
  IN  Then(Arguments(c, s, r, args), LAMBDA s1, ats :
             Invoke([c EXCEPT !.env = inside, !.owner = key[1]], s1, r, key, ats))
SendRule(c, s, recv, m, args) ==
  Then(Place(c, s, recv), LAMBDA s1, at : Then(Object(s1, at), LAMBDA s2, obj :
    LET key == FindMethod(c, Get(s2, obj)[3], m)
    IN  IF key # <<>> THEN CallMethod(c, s2, obj, key, args)
        ELSE IF m \in {"free", "destroy"} THEN Done(s2, NilValue) ELSE Fails(s2, 210)))

CallValue(c, s, f, args) ==
  CASE f[1] = "routine" -> CallRoutine(c, s, <<f[2]>>, args)
    [] f[1] = "closure" ->
         Then(Arguments(c, s, f[2], args), LAMBDA s1, ats :
           Invoke([c EXCEPT !.env = [n \in DOMAIN c.globals \cup DOMAIN f[3] |->
                                       IF n \in DOMAIN f[3] THEN f[3][n] ELSE c.globals[n]]],
                  s1, f[2], <<"result">>, ats))
    [] OTHER -> Fails(s, 204)

\* A class asked for an instance: a new object, its constructor run on it.
Create(c, s, typ, ctor, args) ==
  LET new == Alloc(s, Instance(c, c.types[typ], typ))
      key == FindMethod(c, typ, ctor)
      ref == Done(new.s, <<"ptr">> \o new.v)
  IN  IF key = <<>> THEN ref
      ELSE Then(CallMethod(c, new.s, new.v, key, args), LAMBDA s1, v : Done(s1, ref.v))
IsClassName(c, e) == IsIdent(e) /\ NameOf(e) \notin DOMAIN c.env /\ IsDeclared(c, NameOf(e))

OwnMethod(c, s, n) ==
  IF "self" \notin DOMAIN c.env THEN <<>> ELSE FindMethod(c, Get(s, c.env["self"].at)[3], n)
Stepped(c, s, dest, by, op) ==
  Then(Eval(c, s, dest), LAMBDA s1, v : Then(Eval(c, s1, by), LAMBDA s2, d :
    Then(Place(c, s2, dest), LAMBDA s3, at : Assign(s3, at, Combined(op, v, d)))))
Resized(c, s, e, n) ==
  LET elem == Zero(c, Last(StaticType(c, e)))
  IN  Then(Place(c, s, e), LAMBDA s1, at : Then(Eval(c, s1, n), LAMBDA s2, k :
        Assign(s2, at, <<"arr", [j \in 0..k[2] - 1 |->
                                  IF j \in DOMAIN Get(s2, at)[2] THEN Get(s2, at)[2][j] ELSE elem]>>)))
Shown(v) == IF v[1] = "char" THEN StrVal(<<v[2]>>) ELSE v
Written(s, vs, end) == Done([s EXCEPT !.out = @ \o [k \in DOMAIN vs |-> Shown(vs[k])] \o end], NilValue)

---------------------------------------------------------------------------
(* Input and files.  A text is the sequence of its lines, the last one not  *)
(* ended yet; another file is the sequence of its values.  A file variable  *)
(* has a name and, while it is open, a place in the file.                   *)

RECURSIVE Numeral(_), Padded(_, _)
Numeral(n) == IF n < 0 THEN <<45>> \o Numeral(-n) ELSE IF n > 9 THEN Numeral(n \div 10) \o Numeral(n % 10) ELSE <<48 + n>>
Printed(v) ==
  CASE v[1] = "int" -> Numeral(v[2])
    [] v[1] = "bool" -> IF v[2] THEN <<84, 82, 85, 69>> ELSE <<70, 65, 76, 83, 69>>
    [] OTHER -> Text(v)
Padded(t, width) == IF Len(t) >= width THEN t ELSE Padded(<<32>> \o t, width)

\* The longest runs of what is no blank, and the number one of them is written as.
WordsOf(line) ==
  LET black(k) == k \in DOMAIN line /\ line[k] # 32
      runs == {p \in (DOMAIN line) \X (DOMAIN line) : (\A k \in p[1]..p[2] : black(k)) /\ p[1] <= p[2]
                                                   /\ ~black(p[1] - 1) /\ ~black(p[2] + 1)}
      inOrder == SetToSortSeq(runs, LAMBDA p, q : p[1] < q[1])
  IN  [k \in DOMAIN inOrder |-> SubSeq(line, inOrder[k][1], inOrder[k][2])]
MaxNumber == 99
NumberOf(word) == IF \E n \in -MaxNumber..MaxNumber : Numeral(n) = word
                  THEN CHOOSE n \in -MaxNumber..MaxNumber : Numeral(n) = word ELSE 0
\* One string takes a line, a character the first of it, the others a word each
\* while there are words.
Taken(s, line, ats) ==
  LET kind(k) == Get(s, ats[k])[1]
      nth(k) == Cardinality({j \in 1..k : kind(j) # "char"})
      word(k) == WordsOf(line)[nth(k)]
      whole == Len(ats) = 1 /\ kind(1) = "str"
      has(k) == whole \/ IF kind(k) = "char" THEN line # <<>> ELSE nth(k) <= Len(WordsOf(line))
      val(k) == CASE whole -> StrVal(line) [] kind(k) = "char" -> CharVal(Head(line))
                  [] kind(k) = "str" /\ ~whole -> StrVal(word(k)) [] OTHER -> IntVal(NumberOf(word(k)))
  IN  FoldLeft(LAMBDA r, k : Then(r, LAMBDA s1, v : IF has(k) THEN Assign(s1, ats[k], val(k)) ELSE r),
               Done(s, NilValue), [k \in DOMAIN ats |-> k])
Places(c, s, es) ==
  FoldLeft(LAMBDA r, e : Then(r, LAMBDA s1, ats : Then(Place(c, s1, e), LAMBDA s2, at : Done(s2, Append(ats, at)))),
           Done(s, <<>>), es)

FileAt(s, at) == Get(s, at)[2]
SetFile(s, at, f) == Assign(s, at, <<"file", f>>)
Empty(f) == IF f.typed THEN <<>> ELSE << <<>> >>
OnDisk(s, f) == f.name \in DOMAIN s.disk
WithDisk(s, f, d) == [s EXCEPT !.disk = Put(@, f.name, d)]
Held(s, f) == s.disk[f.name]
Value(c, s, e) == IF IsIdent(e) /\ NameOf(e) \in DOMAIN c.env THEN Get(s, c.env[NameOf(e)].at) ELSE NilValue
FileOf(c, s, e) ==
  LET rec == Value(c, s, e[2]) IN
  IF IsTree(e, "field") THEN rec[1] = "rec" /\ e[3][1] \in DOMAIN rec[2] /\ rec[2][e[3][1]][1] = "file"
  ELSE Value(c, s, e)[1] = "file"
IsFileVar(c, s, args) == args # <<>> /\ FileOf(c, s, args[1])

\* A file that is not there cannot be opened to be read.
Manage(c, s, n, at, args) ==
  LET f == FileAt(s, at)
      made == WithDisk(s, f, Empty(f))
      opened(mode) == [f EXCEPT !.mode = mode, !.at = 0]
  IN  CASE n = "assign" -> Then(Eval(c, s, args[2]), LAMBDA s1, v : SetFile(s1, at, [opened("closed") EXCEPT !.name = Text(v)]))
        [] n = "reset" -> SetFile(s, at, opened(IF OnDisk(s, f) THEN "reading" ELSE "closed"))
        [] n = "rewrite" -> SetFile(made, at, opened("writing"))
        [] n = "append" -> SetFile(IF OnDisk(s, f) THEN s ELSE made, at, opened("writing"))
        [] n = "close" -> SetFile(s, at, opened("closed"))
        [] n = "erase" -> Done([s EXCEPT !.disk = Restrict(@, DOMAIN @ \ {f.name})], NilValue)

\* Text goes to the end; a value to where the file is.
PutText(s, at, vs, ended) ==
  LET f == FileAt(s, at)
      d == Held(s, f)
      line == Last(d) \o FlattenSeq([k \in DOMAIN vs |-> Printed(vs[k])])
  IN  Done(IF f.mode # "writing" THEN s
           ELSE WithDisk(s, f, Append(Front(d), line) \o IF ended THEN << <<>> >> ELSE <<>>), NilValue)
PutValue(s, at, v) ==
  LET f == FileAt(s, at)
      d == Held(s, f)
  IN  IF f.mode # "writing" THEN Done(s, NilValue)
      ELSE SetFile(WithDisk(s, f, IF f.at = Len(d) THEN Append(d, v) ELSE [d EXCEPT ![f.at + 1] = v]), at,
                   [f EXCEPT !.at = @ + 1])
WriteFile(c, s, n, args) ==
  Then(Place(c, s, args[1]), LAMBDA s1, at :
    IF FileAt(s1, at).typed
    THEN FoldLeft(LAMBDA r, e : Then(r, LAMBDA s2, u : Then(Eval(c, s2, e), LAMBDA s3, v : PutValue(s3, at, v))),
                  Done(s1, NilValue), Tail(args))
    ELSE Then(EvalAll(c, s1, Tail(args)), LAMBDA s2, vs : PutText(s2, at, vs, n = "writeln")))

TakeValue(s, at, to) ==
  LET f == FileAt(s, at)
  IN  IF f.mode = "closed" \/ f.at >= Len(Held(s, f)) THEN Done(s, NilValue)
      ELSE Then(Assign(s, to, Held(s, f)[f.at + 1]), LAMBDA s1, v : SetFile(s1, at, [f EXCEPT !.at = @ + 1]))
TakeLine(s, at, ats) ==
  LET f == FileAt(s, at)
      d == Held(s, f)
      next == SetFile(s, at, [f EXCEPT !.at = @ + 1])
  IN  CASE f.mode = "closed" -> Done(s, NilValue)
        [] f.mode # "closed" /\ f.at < Len(d) -> Taken(next.s, d[f.at + 1], ats)
        [] f.mode # "closed" /\ f.at >= Len(d) -> Taken(s, <<>>, ats)
ReadFile(c, s, args) ==
  Then(Places(c, s, args), LAMBDA s1, ats :
    LET at == Head(ats) IN
    IF FileAt(s1, at).typed
    THEN FoldLeft(LAMBDA r, to : Then(r, LAMBDA s2, v : TakeValue(s2, at, to)), Done(s1, NilValue), Tail(ats))
    ELSE TakeLine(s1, at, Tail(ats)))
\* A line for each Read, whatever is left of it; none after the last.
ReadInput(c, s, args) ==
  Then(Places(c, s, args), LAMBDA s1, ats :
    IF s1.input = <<>> THEN Taken(s1, <<>>, ats) ELSE Taken([s1 EXCEPT !.input = Tail(@)], Head(s1.input), ats))

AskFile(c, s, n, args) ==
  Then(Place(c, s, args[1]), LAMBDA s1, at :
    LET f == FileAt(s1, at)
        d == IF f.mode = "closed" THEN <<>> ELSE Held(s1, f)
        all == Len(IF f.typed \/ d = <<>> \/ Last(d) # <<>> THEN d ELSE Front(d))
    IN  CASE n = "eof" -> Done(s1, BoolVal(f.mode = "closed" \/ f.at >= all))
          [] n = "filepos" -> Done(s1, IntVal(f.at))
          [] n = "filesize" -> Done(s1, IntVal(all))
          [] n = "seek" -> Then(Eval(c, s1, args[2]), LAMBDA s2, v :
                             IF f.mode = "closed" THEN Done(s2, NilValue) ELSE SetFile(s2, at, [f EXCEPT !.at = v[2]])))

---------------------------------------------------------------------------
Asserted(s, holds) == IF holds THEN Done(s, NilValue) ELSE Raises(s, StrVal(<<"assertion failed">>))

CallNamedRule(c, s, n, args) ==
  CASE n \in DOMAIN c.env /\ Get(s, c.env[n].at)[1] \in {"nil", "routine", "closure"} ->
         CallValue(c, s, Get(s, c.env[n].at), args)
    [] n \in DOMAIN c.ctors -> Then(EvalAll(c, s, args), LAMBDA s1, vs : Done(s1, <<"adt", n, vs>>))
    [] OwnMethod(c, s, n) # <<>> -> CallMethod(c, s, c.env["self"].at, OwnMethod(c, s, n), args)
    [] n \in {"assign", "reset", "rewrite", "append", "close", "erase"} ->
         Then(Place(c, s, args[1]), LAMBDA s1, at : Manage(c, s1, n, at, args))
    [] n \in {"write", "writeln"} /\ IsFileVar(c, s, args) -> WriteFile(c, s, n, args)
    [] n \in {"read", "readln"} -> IF IsFileVar(c, s, args) THEN ReadFile(c, s, args) ELSE ReadInput(c, s, args)
    [] n \in {"eof", "seek", "filepos", "filesize"} -> AskFile(c, s, n, args)
    [] n = "write" -> Then(EvalAll(c, s, args), LAMBDA s1, vs : Written(s1, vs, <<>>))
    [] n = "writeln" -> Then(EvalAll(c, s, args), LAMBDA s1, vs : Written(s1, vs, << <<"eol">> >>))
    [] n \in {"inc", "dec"} ->
         Stepped(c, s, args[1], IF Len(args) > 1 THEN args[2] ELSE <<"lit", <<"1">> >>,
                 IF n = "inc" THEN "+" ELSE "-")
    [] n = "new" -> Then(Place(c, s, args[1]), LAMBDA s1, at :
                      LET cell == Alloc(s1, Zero(c, Last(StaticType(c, args[1]))))
                      IN  Assign(cell.s, at, <<"ptr">> \o cell.v))
    [] n = "dispose" -> Then(Place(c, s, args[1]), LAMBDA s1, at : Assign(s1, at, NilValue))
    [] n = "setlength" -> Resized(c, s, args[1], args[2])
    [] n = "tocurrency" -> Then(Eval(c, s, args[1]), LAMBDA s1, v : Done(s1, MoneyVal(Money(v))))
    [] n = "panic" -> IF args = <<>> THEN Raises(s, StrVal(<<n>>)) ELSE Then(Eval(c, s, args[1]), Raises)
    [] n = "recover" -> Done([s EXCEPT !.panic = <<>>], IF s.panic = <<>> THEN NilValue ELSE s.panic[1])
    [] n \in {"asserttrue", "assertfalse"} -> Then(Eval(c, s, args[1]), LAMBDA s1, b : Asserted(s1, b[2] = (n = "asserttrue")))
    [] n = "assertequal" -> Then(EvalAll(c, s, args), LAMBDA s1, vs : Asserted(s1, Related("=", vs[1], vs[2])))
    [] <<n>> \in DOMAIN c.routines -> CallRoutine(c, s, <<n>>, args)
    [] n \in Standard -> Then(Eval(c, s, args[1]), LAMBDA s1, v : Done(s1, Apply(n, v)))
    [] OTHER -> Then(EvalAll(c, s, args), LAMBDA s1, vs : Done(s1, NilValue))

EvalIdent(c, s, n) ==
  CASE n \in {"true", "false"} -> Done(s, BoolVal(n = "true"))
    [] n = "nil" -> Done(s, NilValue)
    [] n \in DOMAIN c.env -> Done(s, Get(s, c.env[n].at))
    [] n \in DOMAIN c.consts -> Done(s, c.consts[n])
    [] OTHER -> CallNamed(c, s, n, <<>>)

\* and, or of Booleans look at the right side only where it matters.
EvalBinary(c, s, e) ==
  Then(Eval(c, s, e[2]), LAMBDA s1, a :
    IF a[1] = "bool" /\ e[1] \in {"and", "or"} /\ a[2] = (e[1] = "or") THEN Done(s1, a)
    ELSE Then(Eval(c, s1, e[3]), LAMBDA s2, b :
      LET key == IF {a[1], b[1]} = {"rec"} THEN <<e[1], a[3], b[3]>> ELSE <<>> IN
      IF key \in DOMAIN c.routines
      THEN LET at == Alloc(s2, a)
               bt == Alloc(at.s, b)
           IN  Invoke([c EXCEPT !.env = c.globals], bt.s, c.routines[key], key, <<at.v, bt.v>>)
      ELSE Done(s2, IF e[1] \in CompareOps THEN BoolVal(Related(e[1], a, b)) ELSE Combined(e[1], a, b))))
Inverted(op, v) == IF op = "-" THEN <<v[1], -v[2]>> ELSE IF v[1] = "bool" THEN BoolVal(~v[2]) ELSE IntVal(-v[2] - 1)

Members(c, e, vs) ==
  UNION {IF IsTree(e[k + 1], "range") THEN ConstOf(c, e[k + 1][2])..ConstOf(c, e[k + 1][3]) ELSE {Number(vs[k])}
         : k \in DOMAIN vs}
EvalSet(c, s, e) ==
  Then(EvalAll(c, s, [k \in 1..Len(e) - 1 |-> IF IsTree(e[k + 1], "range") THEN e[k + 1][2] ELSE e[k + 1]]),
       LAMBDA s1, vs : Done(s1, <<"set", Members(c, e, vs)>>))

\* r.f is a constructor, a field, or a method called without arguments.
EvalField(c, s, e) ==
  IF IsClassName(c, e[2]) THEN Create(c, s, NameOf(e[2]), e[3][1], <<>>)
  ELSE Then(Place(c, s, e[2]), LAMBDA s1, at : Then(Object(s1, at), LAMBDA s2, obj :
    LET n == Accessor(c, Get(s2, obj)[3], e[3][1], "read")
    IN  IF n \in DOMAIN Get(s2, obj)[2] THEN Done(s2, Get(s2, obj)[2][n])
        ELSE Send(c, s2, e[2], n, <<>>)))

EvalRule(c, s, e) ==
  CASE IsTree(e, "lit") -> Done(s, LiteralValue[NameOf(e)])
    [] IsIdent(e) -> EvalIdent(c, s, NameOf(e))
    [] Len(e) = 2 /\ e[1] \in {"+", "-", "not"} ->
         Then(Eval(c, s, e[2]), LAMBDA s1, v : Done(s1, IF e[1] = "+" THEN v ELSE Inverted(e[1], v)))
    [] Len(e) = 3 /\ e[1] \in BinaryOps \cup CompareOps -> EvalBinary(c, s, e)
    [] IsTree(e, "in") -> Then(EvalAll(c, s, Tail(e)), LAMBDA s1, vs : Done(s1, BoolVal(Number(vs[1]) \in vs[2][2])))
    [] IsTree(e, "set") -> EvalSet(c, s, e)
    [] IsTree(e, "writearg") ->
         Then(EvalAll(c, s, Tail(e)), LAMBDA s1, vs : Done(s1, StrVal(Padded(Printed(vs[1]), vs[2][2]))))
    [] IsTree(e, "call") ->
         IF IsIdent(e[2]) THEN CallNamed(c, s, NameOf(e[2]), SubSeq(e, 3, Len(e)))
         ELSE IF IsClassName(c, e[2][2]) THEN Create(c, s, NameOf(e[2][2]), e[2][3][1], SubSeq(e, 3, Len(e)))
         ELSE Send(c, s, e[2][2], e[2][3][1], SubSeq(e, 3, Len(e)))
    [] IsTree(e, "field") -> EvalField(c, s, e)
    [] IsTree(e, "index") ->
         Then(Contents(c, s, e[2]), LAMBDA s1, a :
           IF a[1] # "str" THEN Contents(c, s1, e)
           ELSE Then(Eval(c, s1, e[3]), LAMBDA s2, i :
                  Done(s2, CharVal(IF i[2] \in DOMAIN a[2] THEN a[2][i[2]] ELSE 0))))
    [] IsTree(e, "deref") -> Contents(c, s, e)
    [] IsTree(e, "@") ->
         IF IsIdent(e[2]) /\ NameOf(e[2]) \notin DOMAIN c.env THEN Done(s, <<"routine", NameOf(e[2])>>)
         ELSE Then(Place(c, s, e[2]), LAMBDA s1, at : Done(s1, <<"ptr">> \o at))
    [] IsTree(e, "anon") -> Done(s, <<"closure", e, c.env>>)
    [] IsTree(e, "match") ->
         Then(Eval(c, s, e[2]), LAMBDA s1, v : MatchArms(c, s1, v, SubSeq(e, 3, Len(e)), TRUE))

---------------------------------------------------------------------------
(* Statements. *)

\* A goto ends what is around it up to the statements that have its label.
ExecAllRule(c, s, stmts) ==
  LET r == FoldLeft(LAMBDA q, t : Then(q, LAMBDA s1, v : Exec(c, s1, t)), Done(s, NilValue), stmts)
      mark == <<"label", <<Last(r.s.end)>> >>
      at == SelectInSeq(stmts, LAMBDA t : t = mark \/ (IsTree(t, "body") /\ Len(t) > 1 /\ t[2] = mark))
  IN  IF r.s.end # <<>> /\ Head(r.s.end) = Going /\ at # 0
      THEN ExecAll(c, [r.s EXCEPT !.end = <<>>], SubSeq(stmts, at, Len(stmts))) ELSE r

\* The first arm whose pattern and guard hold, with what the pattern binds.
MatchArmsRule(c, s, v, arms, isExpr) ==
  LET arm == Head(arms)
      pat == arm[2]
      names == Tail(Tail(pat))
      next(s1) == MatchArms(c, s1, v, Tail(arms), isExpr)
      run(c1, s1) == IF isExpr THEN Eval(c1, s1, Last(arm)) ELSE Exec(c1, s1, Last(arm))
      guarded(c1, s1) ==
        IF ~HasChild(arm, "when") THEN run(c1, s1)
        ELSE Then(Eval(c1, s1, Child(arm, "when")[2]), LAMBDA s2, b : IF b[2] THEN run(c1, s2) ELSE next(s2))
      bind(r, k) == Then(r, LAMBDA s1, c1 : Then(Alloc(s1, v[3][k]), LAMBDA s2, at :
                      Done(s2, Bound(c1, names[k][1], at, NoTree))))
  IN  IF arms = <<>> THEN Raises(s, StrVal(<<"match: no matching arm">>))
      ELSE IF IsTree(arm, "else")
      THEN IF isExpr THEN Eval(c, s, arm[2]) ELSE ExecAll(c, s, Children(arm))
      ELSE CASE IsTree(pat, "any") -> guarded(c, s)
             [] IsTree(pat, "ctor") ->
                  IF v[2] # NameOf(pat) THEN next(s)
                  ELSE Then(FoldLeft(bind, Done(s, c), [k \in DOMAIN names |-> k]),
                            LAMBDA s1, c1 : guarded(c1, s1))
             [] OTHER -> Then(EvalAll(c, s, Children(pat)), LAMBDA s1, vs :
                           IF \E k \in DOMAIN vs : Related("=", v, vs[k]) THEN guarded(c, s1) ELSE next(s1))

\* The values a loop's variable takes, one after the other.
Loop(c, s, at, vals, body) ==
  FoldLeft(LAMBDA r, v : Then(r, LAMBDA s1, u : Then(Assign(s1, at, v), LAMBDA s2, w : Exec(c, s2, body))),
           Done(s, NilValue), vals)
WhileRule(c, s, test, body) ==
  Then(Eval(c, s, test), LAMBDA s1, b :
    IF ~b[2] THEN Done(s1, NilValue)
    ELSE Then(Exec(c, s1, body), LAMBDA s2, v : While(c, s2, test, body)))
Counted(lo, hi, down) ==
  IF down THEN [k \in 1..lo - hi + 1 |-> IntVal(lo + 1 - k)] ELSE [k \in 1..hi - lo + 1 |-> IntVal(lo + k - 1)]
For(c, s, t) ==
  Then(EvalAll(c, s, <<t[3], t[4]>>), LAMBDA s1, b :
    LET var == IF NameOf(t) \in DOMAIN c.env THEN Done(s1, c.env[NameOf(t)].at) ELSE Alloc(s1, IntVal(0))
    IN  Loop(Bound(c, NameOf(t), var.v, NoTree), var.s, var.v,
             Counted(b[1][2], b[2][2], t[1] = "fordown"), t[5]))
Elements(a) == IF a[1] = "str" THEN [k \in DOMAIN a[2] |-> CharVal(a[2][k])]
               ELSE IF a[2] = <<>> THEN <<>>
               ELSE [k \in 1..Cardinality(DOMAIN a[2]) |-> a[2][Min(DOMAIN a[2]) + k - 1]]

CaseOfRule(c, s, v, branches) ==
  LET b == Head(branches) IN
  IF branches = <<>> THEN Done(s, NilValue)
  ELSE IF IsTree(b, "else") THEN Exec(c, s, b[2])
  ELSE Then(EvalAll(c, s, Children(b[2])), LAMBDA s1, vs :
         IF \E k \in DOMAIN vs : Related("=", v, vs[k]) THEN Exec(c, s1, b[3])
         ELSE CaseOf(c, s1, v, Tail(branches)))

With(c, s, t) ==
  Then(Place(c, s, t[2]), LAMBDA s1, at : Then(Object(s1, at), LAMBDA s2, obj :
    LET fields == DOMAIN Get(s2, obj)[2]
    IN  Exec([c EXCEPT !.env = [n \in DOMAIN @ \cup fields |->
               IF n \in fields THEN [at |-> <<obj[1], Append(obj[2], n)>>, ti |-> NoTree] ELSE @[n]]],
             s2, t[3])))

\* A place is found before the value for it; the names of variables need no search.
Store(c, s, dest, e) ==
  LET recv == dest[2] IN
  IF IsTree(dest, "field")
  THEN Then(Place(c, s, recv), LAMBDA s1, at : Then(Object(s1, at), LAMBDA s2, obj :
    LET n == Accessor(c, Get(s2, obj)[3], dest[3][1], "write")
    IN  IF n \notin DOMAIN Get(s2, obj)[2] THEN Send(c, s2, recv, n, <<e>>)
        ELSE Then(Eval(c, s2, e), LAMBDA s3, v : Assign(s3, <<obj[1], Append(obj[2], n)>>, v))))
  ELSE IF IsTree(dest, "index") /\ Contents(c, s, recv).v[1] = "str"
  THEN Then(Place(c, s, recv), LAMBDA s1, at : Then(EvalAll(c, s1, <<dest[3], e>>), LAMBDA s2, w :
    IF w[1][2] \in DOMAIN Get(s2, at)[2]
    THEN Assign(s2, at, StrVal([Get(s2, at)[2] EXCEPT ![w[1][2]] = Head(Text(w[2]))])) ELSE Done(s2, NilValue)))
  ELSE Then(Place(c, s, dest), LAMBDA s1, at : Then(Eval(c, s1, e), LAMBDA s2, v : Assign(s2, at, v)))

Inherited(c, s, call) ==
  IF IsNil(call) THEN Done(s, NilValue)
  ELSE LET key == FindMethod(c, Parent(c, c.owner), NameOf(call[2]))
       IN  CallMethod(c, s, c.env["self"].at, key, SubSeq(call, 3, Len(call)))

\* An exception that comes out of the body ends at an except block, which may
\* raise it again.
TryExcept(c, s, body, except) ==
  LET r == ExecAll(c, s, body)
  IN  IF IsRaised(r) THEN ExecAll([c EXCEPT !.caught = r.s.end[2]], [r.s EXCEPT !.end = <<>>, !.panic = s.panic], except)
      ELSE r
\* What must be done after a body is done after it and when an exception comes
\* out of it, which then goes on unless it was recovered.
Cleanup(c, r, stmts) ==
  LET q == ExecAll(c, [r.s EXCEPT !.end = <<>>, !.panic = <<r.s.end[2]>>], stmts)
  IN  IF r.s.end = <<>> THEN ExecAll(c, r.s, stmts)
      ELSE IF ~IsRaised(r) THEN r
      ELSE IF q.s.end # <<>> \/ q.s.panic = <<>> THEN [q EXCEPT !.s.panic = r.s.panic]
      ELSE Raises([q.s EXCEPT !.panic = r.s.panic], q.s.panic[1])
\* The deferred statements of a body, once each, are its cleanup: the last first.
Defer(s, t) == Done(IF t \in ToSet(s.deferred) THEN s ELSE [s EXCEPT !.deferred = Append(@, t)], NilValue)
ExecBody(c, s, body) ==
  LET r == Exec(c, [s EXCEPT !.deferred = <<>>], body)
      q == Cleanup(c, r, Reverse(r.s.deferred))
  IN  [q EXCEPT !.s.deferred = s.deferred]
\* A test fails with the exception that comes out of it.
Test(c, s, t) ==
  LET r == ExecAll(c, s, Children(t[3]))
      passed == ~IsRaised(r)
      named == <<BoolVal(passed), LiteralValue[NameOf(t)]>>
  IN  IF r.s.end # <<>> /\ passed THEN r ELSE Written([r.s EXCEPT !.end = <<>>], named, << <<"eol">> >>)

ExecRule(c, s, t) ==
  CASE IsTree(t, "body") -> ExecAll(c, s, Children(t))
    [] IsTree(t, ":=") -> Store(c, s, t[2], t[3])
    [] IsTree(t, "callstmt") ->
         IF IsIdent(t[2]) THEN CallNamed(c, s, NameOf(t[2]), <<>>) ELSE Eval(c, s, t[2])
    [] IsTree(t, "if") ->
         Then(Eval(c, s, t[2]), LAMBDA s1, b : IF b[2] THEN Exec(c, s1, t[3]) ELSE Exec(c, s1, t[4]))
    [] IsTree(t, "while") -> While(c, s, t[2], t[3])
    [] IsTree(t, "repeat") ->
         Then(Exec(c, s, t[2]), LAMBDA s1, v : While(c, s1, <<"not", t[3]>>, t[2]))
    [] t[1] \in {"for", "fordown"} -> For(c, s, t)
    [] IsTree(t, "forin") ->
         Then(Contents(c, s, t[3]), LAMBDA s1, a : Loop(c, s1, c.env[NameOf(t)].at, Elements(a), t[4]))
    [] IsTree(t, "case") -> Then(Eval(c, s, t[2]), LAMBDA s1, v : CaseOf(c, s1, v, SubSeq(t, 3, Len(t))))
    [] IsTree(t, "with") -> With(c, s, t)
    [] IsTree(t, "inherited") -> Inherited(c, s, t[2])
    [] IsTree(t, "match") ->
         Then(Eval(c, s, t[2]), LAMBDA s1, v : MatchArms(c, s1, v, SubSeq(t, 3, Len(t)), FALSE))
    [] IsTree(t, "try") ->
         IF HasChild(t, "except") THEN TryExcept(c, s, Children(t[2]), Children(t[3]))
         ELSE Cleanup(c, ExecAll(c, s, Children(t[2])), Children(t[3]))
    [] IsTree(t, "main") -> ExecBody(c, s, t[2])
    [] IsTree(t, "test") -> Test(c, s, t)
    [] IsTree(t, "defer") -> Defer(s, t[2])
    [] IsTree(t, "raise") -> IF IsNil(t[2]) THEN Raises(s, c.caught) ELSE Then(Eval(c, s, t[2]), Raises)
    [] IsTree(t, "goto") -> Done([s EXCEPT !.end = <<Going, NameOf(t)>>], NilValue)
    [] IsTree(t, "halt") ->
         Then(IF IsNil(t[2]) THEN Done(s, IntVal(0)) ELSE Eval(c, s, t[2]),
              LAMBDA s1, v : Done([s1 EXCEPT !.end = <<0, v[2]>>], NilValue))
    [] OTHER -> Done(s, NilValue)

---------------------------------------------------------------------------
(* Routines and programs. *)

DeclareVar(r, d) ==
  LET names == IF IsTree(d, "let") THEN d[2] ELSE TextsOf(d[2])
      one(q, n) ==
        Then(q, LAMBDA s, c :
          Then(IF Len(d) = 4 THEN Eval(c, s, d[4]) ELSE Done(s, NilValue), LAMBDA s1, v :
            Then(Alloc(s1, IF IsNil(d[3]) THEN v
                           ELSE IF Len(d) = 4 THEN Coerce(Zero(c, d[3]), v) ELSE Zero(c, d[3])),
                 LAMBDA s2, at : Done(s2, Bound(c, n, at, d[3])))))
  IN  FoldLeft(one, r, names)
ConstantOf(c, e) ==
  CASE IsTree(e, "lit") -> LiteralValue[NameOf(e)]
    [] IsIdent(e) -> IF NameOf(e) \in {"true", "false"} THEN BoolVal(NameOf(e) = "true") ELSE c.consts[NameOf(e)]
    [] OTHER -> IntVal(-ConstOf(c, e[2]))
DeclareConst(c, d) == [c EXCEPT !.consts = Put(@, NameOf(d), ConstantOf(c, Last(d)))]

\* The parameters and the result are variables of the call.
InvokeRule(c, s, r, key, ats) ==
  LET ps == ParamsOf(ParamsTree(r))
      t == AfterParams(r, 1)[1]
      withParams == FoldLeft(LAMBDA c1, k : Bound(c1, ps[k].name, ats[k], ps[k].ti), c, [k \in DOMAIN ps |-> k])
      res == Alloc(s, Zero(c, t))
      returns == r[1] \in {"function", "operator", "anon"}
      named == IF returns THEN Bound(Bound(withParams, "result", res.v, t), Last(key), res.v, t) ELSE withParams
      parts == AfterParams(r, 2)
      sections(words) == SelectSeq(parts, LAMBDA d : d[1] \in words)
      known == FoldLeft(DeclareConst, named, sections({"const"}))
      ready == FoldLeft(DeclareVar, Done(res.s, known), sections({"var", "let"}))
  IN  Then(ready, LAMBDA s1, c1 : Then(ExecBody(c1, s1, Last(r)), LAMBDA s2, v : Done(s2, Get(s2, res.v))))

---------------------------------------------------------------------------
Does(what, c, s, x) ==
  CASE what = "value" -> EvalRule(c, s, x[1])
    [] what = "place" -> PlaceRule(c, s, x[1])
    [] what = "statement" -> ExecRule(c, s, x[1])
    [] what = "statements" -> ExecAllRule(c, s, x[1])
    [] what = "arms" -> MatchArmsRule(c, s, x[1], x[2], x[3])
    [] what = "routine" -> InvokeRule(c, s, x[1], x[2], x[3])
    [] what = "method" -> CallMethodRule(c, s, x[1], x[2], x[3])
    [] what = "named" -> CallNamedRule(c, s, x[1], x[2])
    [] what = "case" -> CaseOfRule(c, s, x[1], x[2])
    [] what = "while" -> WhileRule(c, s, x[1], x[2])
    [] what = "send" -> SendRule(c, s, x[1], x[2], x[3])
    [] what = "values" -> EvalAllRule(c, s, x[1])

\* The declarations of the program and, before them, of its units.
RECURSIVE UnitsOf(_, _, _)
UsedBy(t) == IF IsNil(t) THEN <<>> ELSE TextsOf(t)
UnitsOf(units, names, seen) ==
  FoldLeft(LAMBDA done, n :
             IF n \notin DOMAIN units \/ n \in ToSet(done) THEN done
             ELSE Append(UnitsOf(units, UsedBy(units[n][3][2]) \o UsedBy(units[n][4][2]), done), n),
           seen, names)
UnitDecls(u) == SubSeq(u[3], 3, Len(u[3])) \o SubSeq(u[4], 3, Len(u[4]))
ProgramDecls(p) == FlattenSeq([k \in 1..6 |-> Children(p[4][k + 1])])

TypeName(t) == IF IsTree(t, "typeref") THEN NameOf(t) ELSE ""
RoutineKey(r) ==
  LET ps == ParamsOf(ParamsTree(r))
  IN  IF IsTree(r, "operator") THEN <<NameOf(r), TypeName(ps[1].ti), TypeName(Last(ps).ti)>> ELSE TextsOf(r[2])
DeclareType(c, d) ==
  LET n == NameOf(d)
      t == Last(d)
      names == TextsOf(t)
      c1 == [c EXCEPT !.types = Put(@, n, t)]
  IN  CASE IsTree(t, "enumtype") ->
             FoldLeft(LAMBDA c0, k : [c0 EXCEPT !.consts = Put(@, names[k], IntVal(k - 1))], c1,
                      [k \in DOMAIN names |-> k])
        [] IsTree(t, "sumtype") ->
             [c1 EXCEPT !.ctors = @ @@ [n0 \in {IF IsTree(v, "payload") THEN NameOf(v) ELSE v[1] : v \in ToSet(Children(t))}
                                          |-> TRUE]]
        [] IsTree(t, "helper") -> [c1 EXCEPT !.helpers = Put(@, t[2][1], n)]
        [] OTHER -> c1
DeclareRoutine(c, r) == IF HasChild(r, "body") THEN [c EXCEPT !.routines = Put(@, RoutineKey(r), r)] ELSE c

OfKind(decls, words) == SelectSeq(decls, LAMBDA d : d[1] \in words)
\* The constants, types and routines; then the variables; then the statements.
Known(c, decls) ==
  FoldLeft(DeclareRoutine,
           FoldLeft(DeclareType, FoldLeft(DeclareConst, c, OfKind(decls, {"const"})), OfKind(decls, {"type"})),
           OfKind(decls, {"procedure", "function", "constructor", "destructor", "operator"}))
Ran(c, input, decls, bodies, main, tests) ==
  Then(FoldLeft(DeclareVar, Done([store |-> <<>>, input |-> input, disk |-> <<>>, out |-> <<>>, end |-> <<>>, panic |-> <<>>,
                              deferred |-> <<>>], Known(c, decls)),
                OfKind(decls, {"var", "let"})),
       LAMBDA s, c1 :
         LET c2 == [c1 EXCEPT !.globals = c1.env]
         IN  ExecAll(c2, s, bodies \o << <<"main", main>> >> \o tests))
Ending(r) == <<r.s.out, IF r.s.end = <<>> THEN <<0, 0>> ELSE IF IsRaised(r) THEN <<217, 0>> ELSE r.s.end>>

\* What a program writes, given its input, and how it ends.
Meaning(prog, modern, units, input) ==
  LET used == UnitsOf(units, UsedBy(prog[3]), <<>>) IN
  Ending(Ran([env |-> <<>>, globals |-> <<>>, consts |-> <<>>, types |-> <<>>, routines |-> <<>>,
              helpers |-> <<>>, owner |-> "", caught |-> NilValue,
              ctors |-> IF modern THEN [n \in {"some", "none"} |-> TRUE] ELSE <<>>],
             input,
             FlattenSeq([k \in DOMAIN used |-> UnitDecls(units[used[k]])]) \o ProgramDecls(prog),
             SelectSeq([k \in DOMAIN used |-> units[used[k]][5]], LAMBDA b : ~IsNil(b)),
             prog[5], Children(prog[4][7])))
=============================================================================
