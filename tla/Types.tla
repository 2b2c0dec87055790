------------------------------- MODULE Types -------------------------------
(***************************************************************************)
(* What the code generator knows of types, variables and routines:         *)
(* internal/codegen/types.go and the tables of codegen.go.  The generator  *)
(* is a record g that its operators take and return.  A tree is one of the *)
(* parser's.  The type of channels and the message of a diagnostic are     *)
(* left out: g.errs counts the diagnostics.                                *)
(***************************************************************************)
EXTENDS Values, SequencesExt, Functions

\* options: the names an embedder binds (externals) and the globals it sets before
\* the run (presets), and whether a loop may declare its variable (autoLoop).
GenNew(modern, options, units) ==
  [code |-> <<>>,        \* of the function being compiled
   slots |-> 0,          \* its parameters and locals
   scope |-> << <<>> >>, \* from names to variables, innermost last
   funcs |-> <<>>,       \* name to signature
   types |-> <<>>, externals |-> options.externals, presets |-> options.presets,
   autoLoop |-> options.autoLoop,
   obj |-> "",           \* the object type whose method is compiled
   withs |-> <<>>, labels |-> <<>>, gotos |-> <<>>,
   deferFlags |-> <<>>,  \* from a defer statement to the variable that it sets
   mod |-> <<>>,         \* name to finished function
   globals |-> <<>>,     \* name to the value it has at the start
   vtables |-> <<>>, operators |-> <<>>, helpers |-> <<>>,
   units |-> units, loaded |-> {}, inits |-> <<>>,
   anon |-> 0, tmp |-> 0, modern |-> modern,
   adtCtors |-> IF modern THEN [n \in {"some", "none"} |-> IF n = "some" THEN 1 ELSE 0] ELSE <<>>,
   errs |-> 0]

Failed(g) == [g EXCEPT !.errs = @ + 1]

\* f with the value v at x.
Put(f, x, v) == [y \in DOMAIN f \cup {x} |-> IF y = x THEN v ELSE f[y]]

---------------------------------------------------------------------------
(* Trees. *)

NameOf(t) == t[2][1]
IsIdent(t) == t[1] = "id"
IsTree(t, tag) == t[1] = tag
Children(t) == Tail(t)
NoTree == <<"nil">>
IsNil(t) == t = NoTree
\* The texts of <<"names", <<a>>, <<b>>, ...>>.
TextsOf(t) == [k \in 1..Len(t) - 1 |-> t[k + 1][1]]
HasChild(t, tag) == \E k \in 2..Len(t) : t[k][1] = tag
Child(t, tag) == t[CHOOSE k \in 2..Len(t) : t[k][1] = tag]
ChildrenOf(t, tags) == SelectSeq(Children(t), LAMBDA c : c[1] \in tags)

---------------------------------------------------------------------------
(* Types. *)

\* A type; NoType where the code has a nil *typeInfo.
BlankType(kind) ==
  [kind |-> kind, scalar |-> "unknown", name |-> "", fields |-> <<>>, elem |-> <<>>,
   lo |-> 0, hi |-> -1, parent |-> "", methods |-> {}, isClass |-> FALSE,
   props |-> <<>>, helperFor |-> ""]
NoType == BlankType("none")
Scalar(s) == [BlankType("scalar") EXCEPT !.scalar = s]
\* A file of values of a type, or of lines of text.
FileType(elem) == [BlankType("file") EXCEPT !.elem = elem]
StringType == [BlankType("string") EXCEPT !.scalar = "str"]
\* A use of a declared type: the declaration may still follow.
Named(n) == [BlankType("named") EXCEPT !.name = n]

Deref(g, ti) == IF ti.kind = "named" THEN g.types[ti.name] ELSE ti

\* The coarse type of a value.
Vt(ti) == CASE ti.kind \in {"scalar", "string"} -> ti.scalar
            [] ti.kind = "enum" -> "int"
            [] OTHER -> "unknown"

FieldNames(ti) == {ti.fields[k].name : k \in DOMAIN ti.fields}
HasField(ti, n) == n \in FieldNames(ti)
\* The first of that name: an inherited one hides the redeclared one.
FieldType(ti, n) ==
  ti.fields[CHOOSE k \in DOMAIN ti.fields :
              /\ ti.fields[k].name = n
              /\ \A j \in 1..k - 1 : ti.fields[j].name # n].ti
IsObject(ti) == ti.kind = "object"
HasMethod(ti, n) == n \in ti.methods
HasProp(ti, n) == n \in DOMAIN ti.props

\* A property names its field or method; what is no property stands for itself.
BackingField(ti, n) == IF HasProp(ti, n) THEN ti.props[n].read ELSE n

PointerElem(g, ti) == IF ti.kind = "pointer" THEN Deref(g, ti.elem) ELSE NoType

\* Variables and parameters that need more than the integer 0 a slot starts with.
NeedsInit(ti) == CASE ti.kind = "none" -> FALSE
                   [] ti.kind = "scalar" -> ti.scalar \notin {"int", "unknown"}
                   [] OTHER -> ti.kind # "enum"

ZeroScalar(s) == CASE s = "bool" -> BoolVal(FALSE) [] s = "char" -> CharVal(0)
                   [] s = "currency" -> MoneyVal(0) [] OTHER -> IntVal(0)

RECURSIVE ZeroTemplate(_, _), RecordTemplate(_, _, _)
\* The value a variable of the type starts with; a class variable is nil.
ZeroTemplate(g, t) ==
  LET ti == Deref(g, t)
      elem == ZeroTemplate(g, ti.elem)
  IN  CASE ti.kind = "string" -> StrVal(<<>>)
        [] ti.kind = "scalar" -> ZeroScalar(ti.scalar)
        [] ti.kind = "pointer" -> NilValue
        [] ti.kind = "set" -> <<"set", {}>>
        [] ti.kind = "record" -> RecordTemplate(g, ti, <<>>)
        [] ti.kind = "object" ->
             IF ti.isClass THEN NilValue ELSE RecordTemplate(g, ti, <<ti.name>>)
        [] ti.kind = "array" ->
             <<"arr", [k \in 1..(IF ti.hi < ti.lo THEN 0 ELSE ti.hi - ti.lo + 1) |-> elem]>>
        [] ti.kind = "func" -> NilValue
        [] OTHER -> IntVal(0)
\* The fields, and behind them the tag an instance is dispatched by.
RecordTemplate(g, ti, tag) ==
  <<"rec", [k \in DOMAIN ti.fields |-> <<ti.fields[k].name, ZeroTemplate(g, ti.fields[k].ti)>>]
           \o [k \in DOMAIN tag |-> <<"__type", StrVal(tag)>>]>>

IntNames == {"integer", "longint", "word", "byte", "shortint", "int64"}
OrdType(n) == Scalar(CASE n = "boolean" -> "bool" [] n = "char" -> "char" [] OTHER -> "int")

\* The function's variables and the types of a section.
Variable(kind, at, ti) == [kind |-> kind, at |-> at, ti |-> ti, typ |-> "", imm |-> FALSE]
Constant(val, typ) == [Variable("const", val, NoType) EXCEPT !.typ = typ]

PushScope(g) == [g EXCEPT !.scope = Append(@, <<>>)]
PopScope(g) == [g EXCEPT !.scope = Front(@)]
Define(g, n, v) == [g EXCEPT !.scope[Len(g.scope)] = Put(@, n, v)]
DefineGlobal(g, n, v) == [g EXCEPT !.scope[1] = Put(@, n, v)]
IsDefined(g, n) == \E k \in DOMAIN g.scope : n \in DOMAIN g.scope[k]
Lookup(g, n) == g.scope[CHOOSE k \in DOMAIN g.scope :
                          /\ n \in DOMAIN g.scope[k]
                          /\ \A j \in k + 1..Len(g.scope) : n \notin DOMAIN g.scope[j]][n]

ToConstInt(v) == IF v[1] = "int" THEN v[2] ELSE 0
RECURSIVE ConstValue(_, _)
\* A literal, true or false, a constant, or one of them negated; Undefined otherwise.
ConstValue(g, e) ==
  LET inner == ConstValue(g, e[2]) IN
  CASE IsTree(e, "lit") -> LiteralValue[NameOf(e)]
    [] IsIdent(e) -> IF NameOf(e) \in {"true", "false"} THEN BoolVal(NameOf(e) = "true")
                     ELSE IF IsDefined(g, NameOf(e)) /\ Lookup(g, NameOf(e)).kind = "const"
                     THEN Lookup(g, NameOf(e)).at ELSE Undefined
    [] IsTree(e, "-") /\ Len(e) = 2 ->
         IF inner = Undefined THEN Undefined ELSE IntVal(IF inner[1] = "int" THEN -inner[2] ELSE 0)
    [] OTHER -> Undefined
ConstInt(g, e) == ToConstInt(ConstValue(g, e))

RECURSIVE ResolveType(_, _), FieldsOf(_, _), ResolveArray(_, _, _)
FieldsOf(g, groups) ==
  FlattenSeq([k \in DOMAIN groups |->
    LET ti == ResolveType(g, groups[k][3])
    IN  [j \in DOMAIN TextsOf(groups[k][2]) |-> [name |-> TextsOf(groups[k][2])[j], ti |-> ti]]])

\* A multi-dimensional array is an array of arrays.
ResolveArray(g, t, dim) ==
  IF dim = Len(t) THEN ResolveType(g, t[dim])
  ELSE [BlankType("array") EXCEPT !.lo = ConstInt(g, t[dim][2]), !.hi = ConstInt(g, t[dim][3]),
                                  !.elem = ResolveArray(g, t, dim + 1)]

AddFieldUnique(fields, f) ==
  IF \E k \in DOMAIN fields : fields[k].name = f.name THEN fields ELSE Append(fields, f)
\* The tag field and the fields of every variant are fields like the others.
FlattenVariant(g, v) ==
  (IF IsNil(v[2]) THEN <<>> ELSE << [name |-> NameOf(v[2]), ti |-> ResolveType(g, v[3])] >>)
  \o FlattenSeq([k \in 1..Len(v) - 3 |-> FieldsOf(g, ChildrenOf(v[k + 3], {"field"}))])

Routines == {"procedure", "function", "constructor", "destructor"}
\* One of read and write stands for the other where it is missing.
PropInfo(p) ==
  LET of(w, other) == IF HasChild(p, w) THEN NameOf(Child(p, w))
                      ELSE IF HasChild(p, other) THEN NameOf(Child(p, other)) ELSE ""
  IN  [read |-> of("read", "write"), write |-> of("write", "read")]

\* An object type has what its parent has, then its own.
ResolveObject(g, t) ==
  LET parents == IF IsTree(t, "helper") THEN <<"parents", NoTree>> ELSE t[2]
      inherits == ~IsNil(parents[2]) /\ parents[2][1] \in DOMAIN g.types
      known == IF inherits THEN g.types[parents[2][1]] ELSE NoType
      pt == IF IsObject(known) THEN known ELSE BlankType("object")
      props == ChildrenOf(t, {"property"})
      methods == ChildrenOf(t, Routines)
  IN  [BlankType("object") EXCEPT
         !.parent = pt.name,
         !.isClass = IsTree(t, "class") \/ IsTree(t, "interface"),
         !.helperFor = IF IsTree(t, "helper") THEN t[2][1] ELSE "",
         !.fields = pt.fields \o FieldsOf(g, ChildrenOf(t, {"field"})),
         !.methods = pt.methods \cup {methods[k][2][1] : k \in DOMAIN methods},
         !.props = FoldLeft(LAMBDA ps, p : Put(ps, NameOf(p), PropInfo(p)), pt.props, props)]

\* (The diagnostic for a name that is no type is left out.)
ResolveType(g, t) ==
  LET n == NameOf(t) IN
  CASE IsNil(t) -> NoType
    [] IsTree(t, "ordtype") -> OrdType(n)
    [] IsTree(t, "stringtype") -> StringType
    [] IsTree(t, "typeref") ->
         CASE n \in {"string", "shortstring"} -> StringType
           [] n \in IntNames -> Scalar("int")
           [] n \in {"char", "boolean"} -> OrdType(n)
           [] n = "currency" -> Scalar("currency")
           [] n = "file" -> FileType(NoType)
           [] OTHER -> IF n \in DOMAIN g.types THEN Named(n) ELSE Scalar("unknown")
    [] IsTree(t, "pointer") -> [BlankType("pointer") EXCEPT !.elem = ResolveType(g, t[2])]
    [] IsTree(t, "proctype") -> BlankType("func")
    [] IsTree(t, "sumtype") -> BlankType("record")
    [] IsTree(t, "record") ->
         LET own == FieldsOf(g, ChildrenOf(t, {"field"}))
         IN  [BlankType("record") EXCEPT
                !.fields = IF HasChild(t, "variant")
                           THEN FoldLeft(AddFieldUnique, own, FlattenVariant(g, Child(t, "variant")))
                           ELSE own]
    [] IsTree(t, "arrayof") -> [BlankType("array") EXCEPT !.elem = ResolveType(g, t[2])]
    [] IsTree(t, "array") -> ResolveArray(g, t, 2)
    [] IsTree(t, "setof") -> [BlankType("set") EXCEPT !.elem = ResolveType(g, t[2])]
    [] IsTree(t, "textfile") -> FileType(NoType)
    [] IsTree(t, "fileof") -> FileType(IF Len(t) = 1 THEN NoType ELSE ResolveType(g, t[2]))
    [] IsTree(t, "enumtype") -> [BlankType("enum") EXCEPT !.scalar = "int"]
    [] IsTree(t, "range") -> Scalar("int")
    [] OTHER -> ResolveObject(g, t)

\* A type parameter is erased: a type of any values.
RegisterTypeParams(g, t) ==
  IF HasChild(t, "typeparams")
  THEN FoldLeft(LAMBDA g1, n : IF n \in DOMAIN g1.types THEN g1
                               ELSE [g1 EXCEPT !.types = Put(@, n, [Scalar("unknown") EXCEPT !.name = n])],
                g, TextsOf(Child(t, "typeparams")))
  ELSE g

\* The names first, so that a declaration may use a later one; then the shapes,
\* the constants of an enumeration and the constructors of a sum type.  Another
\* name for a declared type renames that type.
DeclareName(g, d) ==
  LET g1 == RegisterTypeParams(g, d)
  IN  [g1 EXCEPT !.types = Put(@, NameOf(d), [Scalar("unknown") EXCEPT !.name = NameOf(d)])]
NameShape(g, n, shape, ti) ==
  [g EXCEPT !.types = Put(IF shape.kind = "named" THEN Put(@, shape.name, ti) ELSE @, n, ti)]
DeclareMembers(g1, n, t, ti) ==
  LET names == TextsOf(t)
      ctor(g0, v) == [g0 EXCEPT !.adtCtors =
                        IF IsTree(v, "payload") THEN Put(@, NameOf(v), Len(v) - 2) ELSE Put(@, v[1], 0)]
  IN  CASE ti.helperFor # "" ->
             [g1 EXCEPT !.helpers =
                [k \in DOMAIN @ \cup {<<ti.helperFor, mt>> : mt \in ti.methods} |->
                   IF k[1] = ti.helperFor /\ k[2] \in ti.methods THEN n \o "." \o k[2] ELSE @[k]]]
        [] IsTree(t, "enumtype") ->
             FoldLeft(LAMBDA g0, k : Define(g0, names[k], Constant(IntVal(k - 1), "int")),
                      g1, [k \in DOMAIN names |-> k])
        [] IsTree(t, "sumtype") -> FoldLeft(ctor, g1, Children(t))
        [] OTHER -> g1
ShapeDeclared(g, n, t, shape, ti) == DeclareMembers(NameShape(g, n, shape, ti), n, t, ti)
NamedShape(g, n, t, shape) == ShapeDeclared(g, n, t, shape, [Deref(g, shape) EXCEPT !.name = n])
DeclareShape(g, d) == NamedShape(g, NameOf(d), Last(d), ResolveType(g, Last(d)))
RegisterTypes(g, decls) == FoldLeft(DeclareShape, FoldLeft(DeclareName, g, decls), decls)
=============================================================================
