------------------------------- MODULE Parser -------------------------------
(***************************************************************************)
(* The recursive descent parser of internal/parser.  Each parse function   *)
(* of the code is an operator from parser states to parser states.  A      *)
(* state holds the tokens, the position, the number of errors reported,    *)
(* and a stack `out' of the trees built so far: an operator leaves there   *)
(* the tree its Go function returns (nothing for nil), so that the calls   *)
(* of a function are the composition of the operators.                     *)
(*                                                                         *)
(* A tree is <<tag, child, ...>>, a name <<text>>.  The parser is          *)
(* deterministic in its position, so an iteration of a loop that ends      *)
(* where it began repeats for ever: `stuck' is then that loop and the      *)
(* token it stands at, and the rest of the text is not read.               *)
(***************************************************************************)
EXTENDS Tokens, SequencesExt

ParserNew(tokens, modern) ==
  [toks |-> tokens, i |-> 1, errs |-> 0, out |-> <<>>, stuck |-> <<>>, modern |-> modern]

Nil == <<"nil">>

---------------------------------------------------------------------------
(* Tokens. *)

Cur(s) == s.toks[s.i]
CurKind(s) == Kind(Cur(s))
Next1(s) == IF s.i < Len(s.toks) THEN s.toks[s.i + 1] ELSE Eof
At(s, t) == Cur(s) = t
AtOne(s, ts) == Cur(s) \in ts
AtEnd(s) == At(s, Eof)

Advance(s) == IF AtEnd(s) THEN s ELSE [s EXCEPT !.i = @ + 1]
Match(s, t) == IF At(s, t) THEN Advance(s) ELSE s
Errf(s) == [s EXCEPT !.errs = @ + 1]
ExpectQuiet(s, t) == IF At(s, t) THEN Advance(s) ELSE s
Expect(s, t) == IF At(s, t) THEN Advance(s) ELSE Errf(s)
ExpectKind(s, k) == IF CurKind(s) = k THEN Advance(s) ELSE Errf(s)

\* A token no rule begins with is reported and consumed.
UnexpectedKept(s) == Errf(s)
Unexpected(s) == Advance(Errf(s))

\* let, match, test, ... are words of the modern mode only.
IsContextualKw(s, w) == s.modern /\ At(s, w)

\* The position moved to the first token of ts or to the end.
RECURSIVE SkipTo(_, _)
SkipTo(s, ts) == IF AtOne(s, ts) \/ AtEnd(s) THEN s ELSE SkipTo(Advance(s), ts)

(* Trees. *)
Push(s, tree) == [s EXCEPT !.out = Append(@, tree)]
Pushed(s0, s) == SubSeq(s.out, Len(s0.out) + 1, Len(s.out))
\* What was pushed since s0 becomes one tree.
Build(s0, s, tag) ==
  [s EXCEPT !.out = SubSeq(@, 1, Len(s0.out)) \o << <<tag>> \o Pushed(s0, s) >>]
\* What was pushed since s0 is not kept.
Drop(s0, s) == [s EXCEPT !.out = s0.out]
\* The tree of a function that may return nil, where the caller stores the nil.
OrNil(s0, s) == IF Len(s.out) = Len(s0.out) THEN Push(s, Nil) ELSE s

\* The identifier p.expect(TokIdent) returns: an empty one after an error.
Ident(s) == IF CurKind(s) = "ident" THEN Push(Advance(s), <<Cur(s)>>) ELSE Push(Errf(s), <<"">>)

RECURSIVE Names(_)
Names(s) == LET n == Ident(s) IN IF At(n, ",") THEN Names(Advance(n)) ELSE n
NameList(s) == Build(s, Names(s), "names")

\* One more round of a loop, unless the last one did not move.
Stuck(s) == s.stuck # <<>>
Stays(s, s2, loop) == IF ~Stuck(s2) /\ s2.i = s.i
                      THEN [s2 EXCEPT !.stuck = <<loop, Cur(s)>>, !.i = Len(s.toks)] ELSE s2

\* The rules that nest in each other call each other by their names.
RECURSIVE Nonterminal(_, _)
ParseExprBP(s, minBP) == Nonterminal(<<"expression", minBP>>, s)
ParseUnary(s) == Nonterminal(<<"unary">>, s)
ParsePrimary(s) == Nonterminal(<<"primary">>, s)
ParseType(s) == Nonterminal(<<"type">>, s)
ParseStmt(s) == Nonterminal(<<"statement">>, s)
ParseBlockBody(s) == Nonterminal(<<"body">>, s)
BlockDecls(s) == Nonterminal(<<"declarations">>, s)
ParseProcDecl(s, bodies) == Nonterminal(<<"routine", bodies>>, s)
Params(s) == Nonterminal(<<"parameters">>, s)
StmtSeqUntil(s, terms) == Nonterminal(<<"statements", terms>>, s)
MatchTree(s, asExpr) == Nonterminal(<<"match", asExpr>>, s)
DeclLoop(s, bodies) == Nonterminal(<<"unit part", bodies>>, s)
MatchArms(s, asExpr) == Nonterminal(<<"arms", asExpr>>, s)
ParseProcType(s) == Nonterminal(<<"routine type">>, s)
ParseUnit(s) == Nonterminal(<<"unit">>, s)
RECURSIVE Climb(_, _, _), Postfix(_, _), ParseArgs(_, _), SetElements(_), ExprList(_),
          TypeList(_), ParseEnumType(_), Variants(_), Payload(_), ParseArrayType(_),
          IndexRanges(_), ParseRecordType(_), RecordFields(_), VariantPart(_),
          VariantCases(_), VariantFields(_), Semicolons(_), ParseObjectType(_),
          Implemented(_), ObjectMembers(_), ParseHelperType(_, _), HelperMembers(_),
          ParsePropertyDef(_), Accessors(_), ParseMethodSig(_), Directives(_),
          ProcTypeParams(_), ParamLoop(_), ParseParam(_), Result(_, _), AnonFunc(_),
          Qualified(_), TypeParamLoop(_), ProcDirectives(_, _), InlineCode(_),
          BlockLoop(_), SimpleStmt(_), ParseCall(_), CallArgs(_), ParseFor(_), ParseCase(_),
          CaseBranches(_), ParseTry(_), MatchPattern(_), BindLoop(_), Values(_),
          ParseWith(_), WithRecs(_), Section(_, _), Labels(_), UnitRefs(_), ParseUses(_)

---------------------------------------------------------------------------
(* Expressions. *)

\* with and as weak as xor
BinopBPFlat == [t \in {"or", "xor", "and", "=", "<>", "<", "<=", ">", ">=", "in", "+", "-",
                       "*", "/", "div", "mod", "shl", "shr"} |->
                  CASE t = "or" -> 1 [] t \in {"xor", "and"} -> 3
                    [] t \in {"=", "<>", "<", "<=", ">", ">=", "in"} -> 9
                    [] t \in {"+", "-"} -> 11
                    [] t \in {"*", "/", "div", "mod"} -> 13
                    [] OTHER -> 15]
BinopBP == [t \in {"or", "xor", "and", "=", "<>", "<", "<=", ">", ">=", "in", "+", "-",
                   "*", "/", "div", "mod", "shl", "shr"} |->
              CASE t = "or" -> 1 [] t = "xor" -> 3 [] t = "and" -> 5
                [] t \in {"=", "<>", "<", "<=", ">", ">=", "in"} -> 9
                [] t \in {"+", "-"} -> 11
                [] t \in {"*", "/", "div", "mod"} -> 13
                [] OTHER -> 15]

ParseExpr(s) == ParseExprBP(s, 0)

ExprRule(s, minBP) == Climb(s, ParseUnary(s), minBP)

\* The loop of parseExprBP; left is the tree pushed since s0.
Climb(s0, s, minBP) ==
  IF At(s, "..")
  THEN Build(s0, ParseExprBP(Advance(s), minBP + 2), "range")
  ELSE IF Cur(s) \in DOMAIN BinopBP /\ BinopBP[Cur(s)] >= minBP
  THEN Climb(s0, Build(s0, ParseExprBP(Advance(s), BinopBP[Cur(s)] + 1), Cur(s)), minBP)
  ELSE s

UnaryRule(s) ==
  IF AtOne(s, {"+", "-", "not", "@"})
  THEN Build(s, ParseUnary(Advance(s)), Cur(s))
  ELSE Postfix(s, ParsePrimary(s))

TypeNames == {"integer", "longint", "shortint", "byte", "word", "boolean", "char", "real",
              "single", "double", "extended", "comp", "string", "text", "file"}
IsTypeName(tree) == tree[1] = "id" /\ tree[2] \in {<<n>> : n \in TypeNames}
IsWrite(tree) == tree[1] = "id" /\ tree[2] \in {<<"write">>, <<"writeln">>}

\* The loop of parsePostfix over the tree pushed since s0.
Postfix(s0, s) ==
  LET e == Last(s.out) IN
  CASE At(s, "^") -> Postfix(s0, Build(s0, Advance(s), "deref"))
    [] At(s, "[") -> Postfix(s0, Build(s0, Expect(ParseExpr(Advance(s)), "]"), "index"))
    [] At(s, ".") -> Postfix(s0, Build(s0, Ident(Advance(s)), "field"))
    [] At(s, "(") /\ IsTypeName(e) ->
         Postfix(s0, Build(s0, Expect(ParseExpr(Advance(s)), ")"), "cast"))
    [] At(s, "(") /\ ~IsTypeName(e) ->
         LET open == Advance(s)
             args == IF At(open, ")") THEN open ELSE ParseArgs(open, IsWrite(e))
         IN  Postfix(s0, Build(s0, Expect(args, ")"), "call"))
    [] OTHER -> s

\* Arguments up to the last comma; those of Write may carry :width:decimals.
ParseArgs(s, fmt) ==
  LET arg == ParseExpr(s)
      w == ParseExpr(Advance(arg))
      d == IF At(w, ":") THEN ParseExpr(Advance(w)) ELSE w
      a == IF fmt /\ At(arg, ":") THEN Build(s, d, "writearg") ELSE arg
  IN  IF At(a, ",") THEN ParseArgs(Advance(a), fmt) ELSE a

ParseIdent(s) == Build(s, Ident(s), "id")

\* A keyword that starts no expression is an error and stays the current token;
\* any other unexpected token is consumed.  Both give the literal 0.
PrimaryRule(s) ==
  LET lit(t) == Push(t, <<"lit", <<"0">> >>) IN
  CASE IsContextualKw(s, "match") -> MatchTree(s, TRUE)
    [] CurKind(s) = "str" ->
         \* control characters (#13) reach the parser as integers after a string
         LET a == Push(Advance(s), <<Cur(s)>>)
             b == IF CurKind(a) = "int" THEN Push(Advance(a), <<Cur(a)>>) ELSE a
         IN  Build(s, b, "lit")
    [] CurKind(s) \in {"int", "real"} -> Build(s, Push(Advance(s), <<Cur(s)>>), "lit")
    [] CurKind(s) = "ident" /\ ~IsContextualKw(s, "match") -> ParseIdent(s)
    [] At(s, "nil") -> Push(Advance(s), <<"id", <<"nil">> >>)
    [] AtOne(s, {"procedure", "function"}) -> AnonFunc(s)
    [] CurKind(s) = "keyword" /\ ~AtOne(s, {"nil", "procedure", "function"}) -> lit(Errf(s))
    [] At(s, "[") ->
         LET open == Advance(s) IN
         IF At(open, "]") THEN Build(s, Advance(open), "set")
         ELSE Build(s, Expect(SetElements(open), "]"), "set")
    [] At(s, "(") -> Expect(ParseExpr(Advance(s)), ")")
    [] At(s, "^") -> Build(s, ParseUnary(Advance(s)), "deref")
    [] OTHER -> lit(Unexpected(s))

\* The code's test for `..' after an element never holds: parseExpr took it.
SetElements(s) == LET e == ParseExpr(s) IN IF At(e, ",") THEN SetElements(Advance(e)) ELSE e

ExprList(s) == LET e == ParseExpr(s) IN IF At(e, ",") THEN ExprList(Advance(e)) ELSE e
---------------------------------------------------------------------------
(* Types. *)

OrdTypes == {"integer", "longint", "shortint", "byte", "word", "boolean", "char"}
FloatTypes == {"real", "single", "double", "extended", "comp"}

\* An expression where a type should be: its text becomes the name.
TypeOfText(s0, s) == Build(s0, ParseExpr(s), "typeref")

TypeArgs(s) == IF At(s, "<") THEN Drop(s, Expect(TypeList(Advance(s)), ">")) ELSE s
TypeList(s) == LET t == ParseType(s) IN IF At(t, ",") THEN TypeList(Advance(t)) ELSE t

\* A number or a string begins a range; anything else read there is read again
\* as the text of a name, and the errors of the first reading stay.
TypeRule(s) ==
  LET k == CurKind(s)
      e == ParseExpr(s)
      again == [s EXCEPT !.errs = e.errs, !.stuck = e.stuck]
      id == Advance(s)
  IN
  CASE k \in {"int", "str"} -> IF Last(e.out)[1] = "range" THEN e ELSE TypeOfText(s, again)
    [] At(s, "packed") -> ParseType(Advance(s))
    [] At(s, "array") -> ParseArrayType(s)
    [] At(s, "set") -> Build(s, ParseType(Expect(Advance(s), "of")), "setof")
    [] At(s, "file") ->
         Build(s, IF At(Advance(s), "of") THEN ParseType(Advance(Advance(s))) ELSE Advance(s), "fileof")
    [] At(s, "string") ->
         Build(s, IF At(id, "[") THEN Expect(ParseExpr(Advance(id)), "]") ELSE id, "stringtype")
    [] At(s, "record") -> ParseRecordType(s)
    [] AtOne(s, {"object", "class", "interface"}) -> ParseObjectType(s)
    [] AtOne(s, {"procedure", "function"}) -> ParseProcType(s)
    [] At(s, "(") -> ParseEnumType(s)
    [] At(s, "^") -> Build(s, ParseType(Advance(s)), "pointer")
    [] k = "ident" ->
         IF AtOne(s, OrdTypes) THEN Build(s, Push(id, <<Cur(s)>>), "ordtype")
         ELSE IF AtOne(s, FloatTypes) THEN Build(s, Push(id, <<Cur(s)>>), "floattype")
         ELSE IF At(s, "text") THEN Push(id, <<"textfile">>)
         ELSE Build(s, TypeArgs(Push(id, <<Cur(s)>>)), "typeref")
    [] OTHER -> TypeOfText(s, s)

\* (A, B, C), a subrange in parentheses, or a sum type A(T) of the modern mode.
ParseEnumType(s) ==
  LET vs == Variants(Advance(s))
      trees == Pushed(s, vs)
      sum == \E k \in DOMAIN trees : trees[k][1] = "payload"
      lo == Push(Drop(s, Advance(vs)), <<"id", IF trees[1][1] = "payload" THEN trees[1][2] ELSE trees[1]>>)
  IN  IF At(vs, "..") THEN Build(s, Expect(ParseExpr(lo), ")"), "range")
      ELSE Build(s, Expect(vs, ")"), IF sum THEN "sumtype" ELSE "enumtype")

Variants(s) ==
  LET n == Ident(s)
      v == IF s.modern /\ At(n, "(")
           THEN Build(s, Expect(Payload(Advance(n)), ")"), "payload") ELSE n
  IN  IF At(v, ",") THEN Variants(Advance(v)) ELSE v

Payload(s) ==
  IF At(s, ")") THEN s
  ELSE LET t == ParseType(s) IN IF At(t, ",") THEN Payload(Advance(t)) ELSE t

ParseArrayType(s) ==
  LET a == Advance(s) IN
  IF At(a, "of") THEN Build(s, ParseType(Advance(a)), "arrayof")
  ELSE Build(s, ParseType(Expect(Expect(IndexRanges(Expect(a, "[")), "]"), "of")), "array")

IndexRanges(s) ==
  LET lo == ParsePrimary(s)
      r == Build(s, ParsePrimary(Expect(lo, "..")), "range")
  IN  IF At(r, ",") THEN IndexRanges(Advance(r)) ELSE r

\* One group of fields `names: type'.
Field(s) == Match(Build(s, ParseType(Expect(NameList(s), ":")), "field"), ";")

ParseRecordType(s) ==
  LET r == Advance(s) IN
  IF IsContextualKw(r, "helper") THEN ParseHelperType(s, r)
  ELSE Build(s, Expect(RecordFields(r), "end"), "record")

\* Neither the end of the text nor a keyword other than end and case ends it.
RecordFields(s) ==
  IF Stuck(s) \/ At(s, "end") THEN s
  ELSE IF At(s, "case") THEN VariantPart(s)
  ELSE RecordFields(Stays(s, Field(s), "record"))

\* The selector without a colon is its type; the code looks for that type after it.
VariantPart(s) ==
  LET tag == ParseIdent(Advance(s))
      named == IF At(tag, ":") THEN Advance(tag) ELSE Push(Drop(s, tag), Nil)
  IN  Build(s, VariantCases(Expect(ParseType(named), "of")), "variant")

VariantCases(s) ==
  IF Stuck(s) \/ At(s, "end") THEN s
  ELSE LET vals == Build(s, ExprList(s), "values")
           c == Build(s, VariantFields(Expect(Expect(vals, ":"), "(")), "variantcase")
       IN  IF At(c, ";") THEN VariantCases(Advance(c)) ELSE c

VariantFields(s) ==
  IF Stuck(s) THEN s
  ELSE IF At(s, ")") THEN Advance(s)
  ELSE VariantFields(Stays(s, Field(s), "variant"))

Visibility == {"private", "public", "protected", "published"}
Routine == {"procedure", "function", "constructor", "destructor"}
Semicolons(s) == IF At(s, ";") THEN Semicolons(Advance(s)) ELSE s

ParseObjectType(s) ==
  LET o == Advance(s)
      p == IF At(o, "(") THEN Expect(Implemented(Ident(Advance(o))), ")") ELSE Push(o, Nil)
      parents == Build(o, p, "parents")
  IN  IF At(s, "class") /\ IsContextualKw(o, "helper") THEN ParseHelperType(s, o)
      ELSE IF At(s, "class") /\ At(parents, ";") THEN Build(s, parents, Cur(s))
      ELSE Build(s, Expect(ObjectMembers(parents), "end"), Cur(s))

Implemented(s) == IF At(s, ",") THEN Implemented(Ident(Advance(s))) ELSE s

ObjectMembers(s) ==
  IF Stuck(s) \/ At(s, "end") \/ AtEnd(s) THEN s
  ELSE IF AtOne(s, Visibility) THEN ObjectMembers(Advance(s))
  ELSE IF At(s, "property") THEN ObjectMembers(Semicolons(ParsePropertyDef(s)))
  ELSE IF AtOne(s, Routine) THEN ObjectMembers(Semicolons(ParseMethodSig(s)))
  ELSE ObjectMembers(Stays(s, Field(s), "object"))

\* helper for T: signatures only, anything else is skipped.
ParseHelperType(s0, s) ==
  Build(s0, Expect(HelperMembers(Ident(Expect(Advance(s), "for"))), "end"), "helper")

HelperMembers(s) ==
  IF At(s, "end") \/ AtEnd(s) THEN s
  ELSE IF AtOne(s, Routine) THEN HelperMembers(Semicolons(ParseMethodSig(s)))
  ELSE HelperMembers(Advance(s))

\* The type of a property is read and not kept.
ParsePropertyDef(s) ==
  LET n == Ident(Advance(s))
      t == IF At(n, ":") THEN Drop(n, ParseType(Advance(n))) ELSE n
  IN  Build(s, Accessors(t), "property")

Accessors(s) == IF AtOne(s, {"read", "write"})
                THEN Accessors(Build(s, Ident(Advance(s)), Cur(s))) ELSE s

ParseMethodSig(s) ==
  LET sig == Build(s, Result(Params(Ident(Advance(s))), At(s, "function")), Cur(s))
  IN  Directives(Match(sig, ";"))

Directives(s) == IF AtOne(s, {"virtual", "abstract", "override", "static", "far", "near", "inline"})
                 THEN Directives(Match(Advance(s), ";")) ELSE s

\* Of a procedural type the parameter names and types are skipped up to `,' or `)'.
ProcTypeRule(s) ==
  LET a == Advance(s)
      p == IF At(a, "(") THEN ProcTypeParams(Advance(a)) ELSE a
      r == IF At(s, "function") /\ At(p, ":") THEN Ident(Advance(p)) ELSE p
  IN  Build(s, r, "proctype")

ProcTypeParams(s) ==
  IF At(s, ")") THEN Advance(s)
  ELSE LET n == Drop(s, Match(Names(s), ":"))
           k == CHOOSE k \in n.i..Len(n.toks) :
                  /\ n.toks[k] \in {",", ")", Eof}
                  /\ \A j \in n.i..k - 1 : n.toks[j] \notin {",", ")", Eof}
           p == Push([n EXCEPT !.i = k], <<"param">>)
       IN  IF At(p, ",") THEN ProcTypeParams(Advance(p)) ELSE Expect(p, ")")

---------------------------------------------------------------------------
(* Routines. *)

ParamsRule(s) == IF At(s, "(") THEN Expect(Build(s, ParamLoop(Advance(s)), "params"), ")")
             ELSE Push(s, <<"params">>)

ParamLoop(s) ==
  IF At(s, ")") THEN s
  ELSE LET p == ParseParam(s) IN IF At(p, ";") THEN ParamLoop(Advance(p)) ELSE p

ParseParam(s) ==
  LET v == IF At(s, "var") THEN Push(Advance(s), <<"var">>) ELSE s
      c == IF At(v, "const") THEN Push(Advance(v), <<"const">>) ELSE v
      n == NameList(c)
  IN  Build(s, IF At(n, ":") THEN ParseType(Advance(n)) ELSE Push(n, Nil), "param")

Result(s, isFunc) == IF isFunc /\ At(s, ":") THEN ParseType(Advance(s)) ELSE Push(s, Nil)

\* Of an anonymous function and an operator a result that is not a type name is
\* dropped.
NamedResult(s, isFunc) ==
  LET r == Result(s, isFunc)
  IN  IF Last(r.out)[1] \in {"typeref", "nil"} THEN r ELSE Push(Drop(s, r), Nil)

AnonFunc(s) ==
  LET p == Params(Advance(s))
  IN  Build(s, ParseBlockBody(NamedResult(p, At(s, "function"))), "anon")

Qualified(s) == IF At(s, ".") THEN Qualified(Ident(Advance(s))) ELSE s

TypeParams(s) == IF At(s, "<") THEN Expect(Build(s, TypeParamLoop(Advance(s)), "typeparams"), ">")
                 ELSE s
\* A constraint is read and not kept.
TypeParamLoop(s) ==
  LET n == Ident(s)
      c == IF At(n, ":") THEN Drop(n, ParseType(Advance(n))) ELSE n
  IN  IF At(c, ",") THEN TypeParamLoop(Advance(c)) ELSE c

\* A routine: its name, parameters, result, directives, and, where allowed, its
\* declarations and body.
RoutineRule(s, bodies) ==
  LET name == Build(Advance(s), Qualified(Ident(Advance(s))), "names")
      sig == Result(Params(TypeParams(name)), At(s, "function"))
      d == ProcDirectives(Semicolons(sig), bodies)
      last == Last(d.out)
      closed == last[1] \in {"forward", "external"}
      b == Match(d, ";")
      nested == BlockDecls(b)
      body == IF At(nested, "begin") THEN ParseBlockBody(nested) ELSE nested
  IN
  Build(s,
    CASE closed \/ ~bodies -> d
      [] AtOne(b, {"const", "var", "type", "label"}) -> Expect(body, ";")
      [] At(b, "begin") -> Expect(ParseBlockBody(b), ";")
      [] AtOne(b, Routine) -> Match(body, ";")
      [] At(b, "asm") ->
           LET e == SkipTo(Advance(b), {"end"}) IN Expect(Expect(Push(e, <<"asm">>), "end"), ";")
      [] OTHER -> b,
    Cur(s))

\* forward and external end the declaration; a forward where no bodies are
\* allowed is an error and ends it too.
ProcDirectives(s, bodies) ==
  CASE At(s, "forward") -> IF bodies THEN Push(Advance(s), <<"forward">>)
                           ELSE Errf(Advance(s))
    [] At(s, "external") ->
         LET a == Advance(s) IN
         Build(s, IF CurKind(a) = "str" THEN Push(Advance(a), <<Cur(a)>>) ELSE a, "external")
    [] AtOne(s, {"far", "near", "interrupt", "virtual", "override", "abstract", "static"}) ->
         ProcDirectives(Advance(s), bodies)
    [] At(s, "inline") -> ProcDirectives(Expect(InlineCode(Expect(Advance(s), "(")), ")"), bodies)
    [] OTHER -> s

InlineCode(s) ==
  IF At(s, ")") \/ AtEnd(s) THEN s
  ELSE LET c == Push(Advance(s), <<Cur(s)>>) IN IF At(c, ",") THEN InlineCode(Advance(c)) ELSE c

\* operator + (a, b: T) r: T; begin ... end
ParseOperatorDecl(s) ==
  LET sym == Advance(s)
      p == Params(Push(Advance(sym), <<Cur(sym)>>))
      r == NamedResult(IF CurKind(p) = "ident" THEN Advance(p) ELSE p, TRUE)
      b == Semicolons(r)
  IN  Build(s, IF At(b, "begin") THEN ParseBlockBody(b) ELSE b, "operator")

---------------------------------------------------------------------------
(* Statements. *)

BodyRule(s) ==
  IF At(s, "begin") THEN Build(s, BlockLoop(Advance(s)), "body")
  ELSE Push(Errf(s), <<"body">>)

BlockLoop(s) ==
  IF Stuck(s) THEN s
  ELSE IF At(s, "end") THEN Advance(s)
  ELSE IF AtEnd(s) THEN Errf(s)
  ELSE LET b == ParseStmt(s) IN
       CASE At(b, ";") -> BlockLoop(Advance(b))
         [] At(b, "end") -> BlockLoop(b)
         [] AtEnd(b) -> b
         [] OTHER -> BlockLoop(Stays(s, Errf(b), "begin"))

\* A statement whose nil the caller keeps.
Sub(s) == OrNil(s, ParseStmt(s))
\* The statement forms one token and one sub-statement long.
Prefixed(s) == Build(s, Sub(Advance(s)), Cur(s))

StmtRule(s) ==
  LET a == Advance(s) IN
  CASE At(s, ";") -> s
    [] IsContextualKw(s, "match") -> MatchTree(s, FALSE)
    [] IsContextualKw(s, "defer") \/ IsContextualKw(s, "spawn") -> Prefixed(s)
    [] At(s, "begin") -> ParseBlockBody(s)
    [] At(s, "if") ->
         LET then == Sub(Expect(ParseExpr(a), "then"))
         IN  Build(s, IF At(then, "else") THEN Sub(Advance(then)) ELSE Push(then, Nil), "if")
    [] At(s, "while") -> Build(s, Sub(Expect(ParseExpr(a), "do")), "while")
    [] At(s, "repeat") ->
         LET b == Build(a, StmtSeqUntil(a, {"until"}), "body")
         IN  Build(s, IF At(b, "until") THEN ParseExpr(Advance(b)) ELSE Push(Errf(b), Nil), "repeat")
    [] At(s, "for") -> ParseFor(s)
    [] At(s, "case") -> ParseCase(s)
    [] At(s, "with") -> ParseWith(s)
    [] At(s, "try") -> ParseTry(s)
    [] At(s, "raise") ->
         Build(s, IF AtOne(a, {"end", "except", "finally", ";"}) THEN Push(a, Nil) ELSE ParseExpr(a), "raise")
    [] At(s, "goto") ->
         Build(s, Push(ExpectKind(a, "int"), IF CurKind(a) = "int" THEN <<Cur(a)>> ELSE <<"0">>), "goto")
    [] At(s, "halt") ->
         Build(s, IF At(a, "(") THEN Expect(ParseExpr(Advance(a)), ")") ELSE Push(a, Nil), "halt")
    [] At(s, "asm") -> Push(Expect(SkipTo(a, {"end"}), "end"), <<"asm">>)
    [] At(s, "inherited") ->
         Build(s, IF CurKind(a) = "ident" THEN ParseCall(a) ELSE Push(a, Nil), "inherited")
    [] CurKind(s) = "int" /\ Next1(s) = ":" ->
         LET l == Push(Advance(a), <<"label", <<Cur(s)>> >>)
         IN  IF At(l, "end") \/ AtEnd(l) THEN l
             ELSE LET sub == ParseStmt(l)
                  IN  IF Len(sub.out) = Len(l.out) THEN sub ELSE Build(s, sub, "body")
    [] OTHER -> SimpleStmt(s)

\* An assignment or a call: what is left of a := decides.
SimpleStmt(s) ==
  LET lhs == Postfix(s, ParsePrimary(s))
      tag == Last(lhs.out)[1]
  IN  IF At(lhs, ":=") THEN Build(s, ParseExpr(Advance(lhs)), ":=")
      ELSE IF tag \in {"call", "field", "id"} THEN Build(s, lhs, "callstmt")
      ELSE Unexpected(Drop(s, lhs))

\* The call after inherited, the only one whose last argument may be followed
\* by a comma.
ParseCall(s) ==
  LET f == ParsePrimary(s) IN Build(s, IF At(f, "(") THEN CallArgs(Advance(f)) ELSE f, "call")

CallArgs(s) ==
  LET e == ParseExpr(s)
  IN  IF At(s, ")") THEN Advance(s)
      ELSE IF At(e, ",") THEN CallArgs(Advance(e)) ELSE Expect(e, ")")

ParseFor(s) ==
  LET v == Ident(Advance(s))
      lo == ParseExpr(Expect(v, ":="))
      dir == IF AtOne(lo, {"to", "downto"}) THEN Advance(lo) ELSE Errf(lo)
      hi == ParseExpr(dir)
  IN  IF At(v, "in") THEN Build(s, Sub(Expect(ParseExpr(Advance(v)), "do")), "forin")
      ELSE Build(s, Sub(Expect(hi, "do")), IF At(lo, "downto") THEN "fordown" ELSE "for")

\* The tree has the branches and the last else, wherever it stood.
ParseCase(s) ==
  LET e == ParseExpr(Advance(s))
      c == CaseBranches(Expect(e, "of"))
      parts == Pushed(e, c)
      branches == SelectSeq(parts, LAMBDA b : b[1] = "branch")
      others == SelectSeq(parts, LAMBDA b : b[1] = "else")
      other == IF others = <<>> THEN Nil ELSE Last(others)
  IN  Build(s, [Drop(e, c) EXCEPT !.out = @ \o branches \o <<other>>], "case")

\* Only `end' ends the branches: the end of the text does not.
CaseBranches(s) ==
  LET vals == Build(s, ExprList(s), "values")
      branch == Match(Build(s, Sub(Expect(vals, ":")), "branch"), ";")
      other == Match(Build(s, Sub(Advance(s)), "else"), ";")
  IN  IF Stuck(s) THEN s
      ELSE IF At(s, "end") THEN Advance(s)
      ELSE CaseBranches(Stays(s, IF At(s, "else") THEN other ELSE branch, "case"))

StmtsRule(s, terms) ==
  IF Stuck(s) \/ AtOne(s, terms) \/ AtEnd(s) THEN s
  ELSE LET b == ParseStmt(s) IN IF At(b, ";") THEN StmtSeqUntil(Advance(b), terms) ELSE b

ParseTry(s) ==
  LET b == Build(Advance(s), StmtSeqUntil(Advance(s), {"except", "finally"}), "body")
      h == IF AtOne(b, {"except", "finally"})
           THEN Build(b, StmtSeqUntil(Advance(b), {"end"}), Cur(b)) ELSE Errf(b)
  IN  Build(s, Expect(h, "end"), "try")

\* match e of pattern [when guard] => body; ... [else body] end, as a statement
\* or, with asExpr, as an expression.
MatchRule(s, asExpr) ==
  LET arms == MatchArms(Expect(ParseExpr(Advance(s)), "of"), asExpr)
      a == Advance(arms)
      other == IF asExpr THEN Match(ParseExpr(Match(a, "=>")), ";")
               ELSE StmtSeqUntil(Match(a, ":"), {"end"})
  IN  Build(s, Expect(IF At(arms, "else") THEN Build(arms, other, "else") ELSE arms, "end"), "match")

ArmsRule(s, asExpr) ==
  IF Stuck(s) \/ AtOne(s, {"end", "else"}) \/ AtEnd(s) THEN s
  ELSE LET pat == MatchPattern(s)
           guard == IF IsContextualKw(pat, "when")
                    THEN Build(pat, ParseExpr(Advance(pat)), "when") ELSE pat
           g == Expect(guard, "=>")
           arm == Build(s, IF asExpr THEN ParseExpr(g) ELSE Sub(g), "arm")
       IN  MatchArms(Stays(s, Match(arm, ";"), "match"), asExpr)

MatchPattern(s) ==
  LET ctor == Ident(s)
      binds == BindLoop(Advance(ctor))
  IN  CASE At(s, "_") -> Push(Advance(s), <<"any">>)
        [] CurKind(s) = "ident" /\ ~At(s, "_") /\ Next1(s) = "(" -> Build(s, Expect(binds, ")"), "ctor")
        [] OTHER -> Build(s, Values(s), "values")

BindLoop(s) == IF At(s, ")") THEN s
               ELSE LET n == Ident(s) IN IF At(n, ",") THEN BindLoop(Advance(n)) ELSE n
Values(s) == LET e == ParsePrimary(s) IN IF At(e, ",") THEN Values(Advance(e)) ELSE e

\* with a, b do S is with a do with b do S.
ParseWith(s) ==
  LET recs == WithRecs(Advance(s))
      n == Len(recs.out) - Len(s.out)
      body == Sub(Expect(recs, "do"))
      trees == Pushed(s, body)
      nest == FoldRight(LAMBDA rec, b : <<"with", rec, b>>, SubSeq(trees, 1, n), trees[n + 1])
  IN  Push(Drop(s, body), nest)

WithRecs(s) == LET e == ParseExpr(s) IN IF At(e, ",") THEN WithRecs(Advance(e)) ELSE e

---------------------------------------------------------------------------
(* Declarations, programs and units. *)

BlockStart == {"label", "const", "type", "var", "operator", "begin", "uses"} \cup Routine

ParseConstDecl(s) ==
  LET n == Ident(s)
      t == IF At(n, ":") THEN ParseType(Advance(n)) ELSE Push(n, Nil)
  IN  Build(s, ParseExpr(Expect(t, "=")), "const")

ParseTypeDecl(s) == Build(s, ParseType(Expect(TypeParams(Ident(s)), "=")), "type")

\* In the modern mode a variable may have an initial value, and then no type.
ParseVarDecl(s) ==
  LET n == NameList(s)
      t == ParseType(Expect(n, ":"))
  IN  Build(s, CASE s.modern /\ At(n, ":=") -> ParseExpr(Advance(Push(n, Nil)))
                 [] ~(s.modern /\ At(n, ":=")) /\ s.modern /\ At(t, "=") -> ParseExpr(Advance(t))
                 [] OTHER -> t, "var")

ParseLetDecl(s) ==
  LET n == Ident(Advance(s))
      t == IF At(n, ":") THEN ParseType(Advance(n)) ELSE Push(n, Nil)
  IN  Build(s, ParseExpr(IF AtOne(t, {":=", "="}) THEN Advance(t) ELSE t), "let")

ParseTestBlock(s) ==
  LET a == Advance(s)
      n == IF CurKind(a) = "str" THEN Push(Advance(a), <<Cur(a)>>) ELSE Push(a, <<"">>)
  IN  Build(s, ParseBlockBody(n), "test")

\* The declarations after const, type or var, up to the next section.  A keyword
\* that begins no section and that the declaration does not consume stays for ever.
Section(s, word) ==
  LET d == CASE word = "const" -> ParseConstDecl(s)
             [] word = "type" -> ParseTypeDecl(s)
             [] OTHER -> ParseVarDecl(s)
  IN  IF Stuck(s) \/ AtOne(s, BlockStart) \/ AtEnd(s) THEN s
      ELSE Section(Stays(s, Match(d, ";"), word), word)

Labels(s) ==
  LET n == ExpectKind(IF CurKind(s) = "int" THEN Push(s, <<Cur(s)>>) ELSE Push(s, <<"0">>), "int")
  IN  IF At(n, ",") THEN Labels(Advance(n)) ELSE n

DeclsRule(s) ==
  CASE Stuck(s) -> s
    [] ~Stuck(s) /\ IsContextualKw(s, "let") -> BlockDecls(Match(ParseLetDecl(s), ";"))
    [] ~Stuck(s) /\ IsContextualKw(s, "test") -> BlockDecls(Match(ParseTestBlock(s), ";"))
    [] ~Stuck(s) /\ At(s, "label") -> BlockDecls(Expect(Build(s, Labels(Advance(s)), "labels"), ";"))
    [] ~Stuck(s) /\ AtOne(s, {"const", "type", "var"}) -> BlockDecls(Section(Advance(s), Cur(s)))
    [] ~Stuck(s) /\ AtOne(s, Routine) -> BlockDecls(Match(ParseProcDecl(s, TRUE), ";"))
    [] ~Stuck(s) /\ At(s, "operator") -> BlockDecls(Match(ParseOperatorDecl(s), ";"))
    [] ~Stuck(s) /\ At(s, "uses") -> BlockDecls(Match(Drop(s, ParseUses(s)), ";"))
    [] OTHER -> s

\* The block keeps its declarations by kind: labels, constants, types,
\* variables, routines, tests.
DeclKinds == << {"labels"}, {"const"}, {"type"}, {"var", "let"},
                Routine \cup {"operator"}, {"test"} >>
ParseBlock(s) ==
  LET b == BlockDecls(s)
      trees == Pushed(s, b)
      ofKind(k) == <<"decls">> \o SelectSeq(trees, LAMBDA d : d[1] \in DeclKinds[k])
  IN  Push(Drop(s, b), <<"block">> \o [k \in 1..6 |-> ofKind(k)])

UnitRefs(s) ==
  LET n == Ident(s)
      a == Advance(n)
      file == IF CurKind(a) = "str" THEN Push(Advance(a), <<Cur(a)>>) ELSE Push(Errf(a), <<"">>)
      f == IF At(n, "in") THEN file ELSE n
  IN  IF At(f, ",") THEN UnitRefs(Advance(f)) ELSE f
ParseUses(s) == Build(s, UnitRefs(Advance(s)), "uses")
Uses(s) == IF At(s, "uses") THEN Expect(ParseUses(s), ";") ELSE Push(s, Nil)

\* The first token is taken for `program' whatever it is.
ParseProgram(s) ==
  LET n == Ident(Advance(s))
      h == Expect(IF At(n, "(") THEN Expect(SkipTo(Advance(n), {")"}), ")") ELSE n, ";")
  IN  Build(s, Expect(ParseBlockBody(ParseBlock(Uses(h))), "."), "program")

\* One declaration: a section word is followed by one declaration only.
ParseDecl(s, bodies) ==
  CASE At(s, "const") -> ParseConstDecl(Advance(s))
    [] At(s, "type") -> ParseTypeDecl(Advance(s))
    [] At(s, "var") -> ParseVarDecl(Advance(s))
    [] AtOne(s, Routine) -> ParseProcDecl(s, bodies)
    [] OTHER -> Unexpected(s)

\* The declarations of an interface (bodies = FALSE) or an implementation.
DeclLoopRule(s, bodies) ==
  LET stops == IF bodies THEN {"initialization", "end"} ELSE {"implementation", "initialization"}
  IN  CASE Stuck(s) \/ AtOne(s, stops) -> s
        [] ~Stuck(s) /\ AtEnd(s) -> Errf(s)
        [] ~Stuck(s) /\ At(s, ";") -> DeclLoop(Advance(s), bodies)
        [] OTHER -> DeclLoop(ParseDecl(s, bodies), bodies)

UnitPart(s, word) ==
  LET w == Advance(IF At(s, word) THEN s ELSE Advance(Errf(s)))
  IN  Build(s, DeclLoop(Uses(w), word = "implementation"), word)

ParseUnitDecl(s) ==
  LET n == Expect(Ident(Advance(s)), ";")
      impl == UnitPart(UnitPart(n, "interface"), "implementation")
      a == Advance(impl)
      init == Build(impl, StmtSeqUntil(a, {"end", "finalization"}), "body")
      final == IF At(init, "finalization")
               THEN Drop(init, StmtSeqUntil(Advance(init), {"end"})) ELSE init
      b == CASE At(impl, "initialization") -> final
             [] At(impl, "begin") -> ParseBlockBody(impl)
             [] OTHER -> Push(impl, Nil)
  IN  Build(s, Expect(Match(b, "end"), "."), "unit")

UnitRule(s) == IF At(s, "unit") THEN ParseUnitDecl(s) ELSE ParseProgram(s)

Nonterminal(n, s) ==
  CASE n[1] = "expression" -> ExprRule(s, n[2])
    [] n[1] = "unary" -> UnaryRule(s)
    [] n[1] = "primary" -> PrimaryRule(s)
    [] n[1] = "type" -> TypeRule(s)
    [] n[1] = "statement" -> StmtRule(s)
    [] n[1] = "body" -> BodyRule(s)
    [] n[1] = "declarations" -> DeclsRule(s)
    [] n[1] = "routine" -> RoutineRule(s, n[2])
    [] n[1] = "parameters" -> ParamsRule(s)
    [] n[1] = "statements" -> StmtsRule(s, n[2])
    [] n[1] = "match" -> MatchRule(s, n[2])
    [] n[1] = "unit part" -> DeclLoopRule(s, n[2])
    [] n[1] = "arms" -> ArmsRule(s, n[2])
    [] n[1] = "routine type" -> ProcTypeRule(s)
    [] n[1] = "unit" -> UnitRule(s)

\* What parsing the whole text gives.
Parse(tokens, modern) == ParseUnit(ParserNew(tokens, modern))
=============================================================================
