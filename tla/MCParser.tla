------------------------------ MODULE MCParser ------------------------------
(***************************************************************************)
(* Texts as an editor shows them to the parser: a program, then programs   *)
(* with tokens typed over, inserted and removed; and assignments whose     *)
(* expression is typed operator by operator.                               *)
(***************************************************************************)
EXTENDS Parser, FiniteSets

CONSTANTS MaxEdits,   \* edits of one text
          MaxOps,     \* binary operators of one typed expression
          Typed,      \* tokens that are typed over or inserted
          Operators,  \* binary operators that are typed
          Groups      \* the groups of texts that are edited

VARIABLES text,    \* the tokens
          modern,  \* the text begins with {$MODE BPGO}
          edits,   \* edits made
          expr     \* the tokens of the expression typed so far, or <<>>
vars == <<text, modern, edits, expr>>

---------------------------------------------------------------------------
(* The texts. *)

Prog(decls, body) == <<"program", "p", ";">> \o decls \o <<"begin">> \o body \o <<"end", ".">>
Assign(e) == Prog(<<>>, <<"x", ":=">> \o e)

Statements == {
  Prog(<<"var", "x", ",", "y", ":", "integer", ";">>,
       <<"if", "x", "=", "1", "then", "y", "else", "if", "y", "then", "begin", "x", "end", ";", "y">>),
  Prog(<<"label", "1", ";">>,
       <<"1", ":", "while", "x", "<", "2", "do", "repeat", "y", "until", "x", ";", "goto", "1">>),
  Prog(<<>>, <<"for", "x", ":=", "1", "to", "2", "do", "case", "x", "of", "1", "..", "2", ":", "y", ";",
               "3", ",", "0", ":", "x", "else", "y", "end">>),
  Prog(<<>>, <<"case", "x", "of", "1", ":", "y", ";", "else", "x", ";", "else", "y", "end">>),
  Prog(<<>>, <<"try", "x", "(", "1", ")", ";", "raise", "y", "except", "with", "x", ",", "y", "do",
               "x", ".", "y", "[", "1", "]", ":=", "@", "y", "^", "end">>),
  Prog(<<>>, <<"write", "(", "x", ":", "1", ":", "2", ",", "'s'", ")", ";",
               "inherited", "x", "(", "1", ",", "y", ",", ")", ";", "halt", "(", "2", ")">>),
  Prog(<<>>, <<"for", "x", "in", "[", "1", ",", "y", "]", "do", "inherited", ";", "f", ":=", "function", "(",
               "const", "x", ",", "y", ":", "t", ")", ":", "t", "begin", "x", "end", ";",
               "f", ":=", "function", ":", "^", "t", "begin", "x", "end", ";", "raise">>),
  Prog(<<>>, <<"asm", "x", "end", ";", "x">>)}

Declarations == {
  <<"program", "p", ";", "uses", "x", ",", "y", "in", "'s'", ";", "const", "x", "=", "1", ";", "y", ":", "byte", "=",
    "2", ";", "function", "f", "(", "var", "x", ":", "char", ";", "y", ":", "t", ")", ":", "real", ";",
    "var", "x", ":", "real", ";", "begin", "f", ":=", "x", "end", ";", "begin", "end", ".">>,
  Prog(<<"type", "t", "=", "record", "x", ",", "y", ":", "^", "t", ";", "case", "x", ":", "byte", "of",
         "1", ":", "(", "y", ":", "char", ")", "end", ";", "x", "=", "(", "x", ",", "y", ")", ";">>, <<"x">>),
  Prog(<<"type", "t", "=", "class", "(", "x", ")", "private", "x", ":", "array", "[", "1", "..", "2", "]",
         "of", "char", ";", "constructor", "y", ";", "virtual", ";", "property", "y", ":", "t", "read", "x",
         "write", "f", ";", "end", ";", "uses", "x", ",", "y", ";">>, <<"y">>),
  Prog(<<"type", "t", "<", "x", ":", "f", ",", "y", ">", "=", "array", "of", "t", "<", "x", ",", "y", ">",
         ";", "x", "=", "(", "x", ",", "y", "..", "1", ")", ";">>, <<"y">>),
  Prog(<<"type", "t", "=", "packed", "array", "of", "set", "of", "x", ";", "f", "=", "function", ":", "t", ";",
         "x", "=", "file", "of", "string", "[", "2", "]", ";",
         "t", "<", "x", ">", "=", "object", "procedure", "y", "(", "x", ":", "text", ")", ";",
         "end", ";">>, <<>>),
  Prog(<<"type", "t", "=", "procedure", "(", "x", ",", "y", ":", "t", ")", ";">>, <<>>),
  <<"program", "p", "(", "x", ",", "y", ")", ";", "begin", "x", "end", ".">>,
  <<"program", "p", ";", "procedure", "x", ".", "y", ";", "far", "external", "'s'", ";",
    "procedure", "x", ";", "forward", ";", "procedure", "f", ";",
    "inline", "(", "1", ",", "2", ")", ";", "begin", "end", ";", "procedure", "y", ";", "label", "1", ",", "2", ";",
    "procedure", "t", ";", "begin", "end", ";", "begin", "end", ";", "operator", "+", "(", "x", ":", "t", ")",
    "q", ":", "t", ";", "begin", "f", ":=", "-", "x", "end", ";", "begin", "end", ".">>,
  <<"unit", "x", ";", "interface", "procedure", "y", ";", "implementation", "procedure", "y", ";",
    "begin", "x", "end", ";", "initialization", "y", ";", "finalization", "x", ";", "end", ".">>}

Modern == {
  Prog(<<"let", "x", ":=", "1", ";">>,
       <<"y", ":=", "match", "x", "of", "1", ",", "2", "=>", "x", ";", "some", "(", "y", ")", "when", "y",
         "=>", "y", ";", "else", "x", "end">>),
  Prog(<<"type", "t", "=", "(", "x", "(", "real", ")", ",", "y", ")", ";">>,
       <<"defer", "x", ";", "match", "x", "of", "_", "=>", "y", ";", "end", ";", "spawn", "y">>),
  Prog(<<"let", "x", ":", "t", "=", "1", ";", "test", "'s'", "begin", "y", "end", ";">>, <<"x">>),
  Prog(<<"type", "t", "=", "record", "helper", "for", "x", "function", "y", ":", "t", ";", "end", ";",
         "var", "y", ":=", "2", ";", "x", ":", "t", "=", "1", ";">>, <<"x">>)}

ModernGroups == {"modern", "let"}
Texts == [g \in {"statements", "declarations", "modern", "let"} |->
            CASE g = "statements" -> Statements
              [] g = "declarations" -> Declarations
              [] g = "modern" -> Modern
              [] OTHER -> {Prog(<<"var", "x", ":", "char", ";", "let", "y", "=", "1", ";">>, <<"x">>)}]

Init ==
  /\ edits = 0
  /\ \/ /\ \E g \in Groups : text \in Texts[g] /\ modern = (g \in ModernGroups)
        /\ expr = <<>>
     \/ /\ expr = <<"x">>
        /\ text = Assign(expr)
        /\ modern = FALSE
        /\ MaxOps > 0

TypeOver(k, t) == text' = [text EXCEPT ![k] = t]
Insert(k, t) == text' = SubSeq(text, 1, k) \o <<t>> \o SubSeq(text, k + 1, Len(text))
Cut(k) == text' = SubSeq(text, 1, k - 1) \o SubSeq(text, k + 1, Len(text))
\* The text up to a place, as it is while it is being typed.
Truncate(k) == text' = SubSeq(text, 1, k)

Edit ==
  /\ expr = <<>>
  /\ edits < MaxEdits
  /\ \E k \in 1..Len(text) :
       \/ \E t \in Typed : TypeOver(k, t) \/ Insert(k, t)
       \/ Cut(k)
       \/ Truncate(k)
  /\ edits' = edits + 1
  /\ UNCHANGED <<modern, expr>>

TypeOperator ==
  /\ expr # <<>>
  /\ edits < MaxOps
  /\ \E o \in Operators, u \in {<<>>, <<"-">>, <<"not">>} : expr' = expr \o <<o>> \o u \o <<"x">>
  /\ text' = Assign(expr')
  /\ edits' = edits + 1
  /\ UNCHANGED modern

Next == Edit \/ TypeOperator
Spec == Init /\ [][Next]_vars

---------------------------------------------------------------------------

Parsed == Parse(text \o <<Eof>>, modern)
Accepted(r) == r.errs = 0 /\ r.stuck = <<>>

\* The names and literals of a text, and those of a tree, in order.
Words == {"x", "y", "p", "t", "f", "q"} \cup Numbers \cup Literals
RECURSIVE Leaves(_)
Leaves(tree) == IF Len(tree) = 1 THEN SelectSeq(tree, LAMBDA w : w \in Words)
                ELSE FlattenSeq([k \in 1..Len(tree) - 1 |-> Leaves(tree[k + 1])])

Before(k, t) == k > 1 /\ text[k - 1] \in t
\* The places after k up to the first of the tokens ts.
UpTo(k, ts) == {j \in k + 1..Len(text) : \A i \in k + 1..j : text[i] \notin ts}
\* Place k is after a token t, with none of ts between.
Within(k, t, ts) == \E j \in 2..k - 1 : text[j] = t /\ k \in UpTo(j, ts)

\* The variant part of a record has no end of its own.
VariantPartAt(k) == text[k] = "case" /\ Within(k, "record", {"end"})

ClosedAngle(k) == \E j \in k + 1..Len(text) : text[j] = ">"

\* What the parser reads and forgets that begins at place k: no accepted
\* program has it in its tree.
ForgottenAt(k) ==
  CASE text[k] = "asm" -> UpTo(k, {"end"})
    \* the files of a program, the parameters of a procedural type
    [] text[k] = "(" /\ (k = 3 \/ (Before(k, {"function", "procedure"}) /\ Before(k - 1, {"="}))) ->
         UpTo(k, {")"})
    \* `case x of' in a record, without a colon
    [] VariantPartAt(k) /\ k < Len(text) - 1 /\ text[k + 2] # ":" -> {k + 1}
    \* the type of a property
    [] text[k] = ":" /\ Before(k - 1, {"property"}) -> UpTo(k, {"read", "write", ";"})
    \* the arguments of a generic type, and what its parameters must be
    [] text[k] = "<" /\ Before(k - 1, {"of", ":", "="}) /\ ClosedAngle(k) -> UpTo(k, {">"})
    [] text[k] = ":" /\ Within(k, "<", {">"}) /\ ClosedAngle(k) -> UpTo(k, {",", ">"})
    \* uses after the first declaration
    [] text[k] = "uses" /\ k > 4 /\ Before(k, {";", "end"}) -> UpTo(k, {";", "begin"})
    \* (A, B..C) is read as A..C
    [] text[k] = "," /\ Before(k - 1, {"("}) /\ Before(k - 2, {"=", ":", "of"})
       /\ ".." \in {text[j] : j \in UpTo(k, {")"})} -> UpTo(k, {".."})
    \* an else of a case that is not its last
    [] text[k] = "else" /\ Within(k, "case", {"end"}) /\ "else" \in {text[j] : j \in UpTo(k, {"end"})} ->
         UpTo(k, {";", "else", "end"})
    \* the name of an operator's result, and the result of a function without a
    \* name, unless it has the name of a type
    [] text[k] = ")" /\ \E j \in 2..k - 2 : text[j] = "operator" /\ k - 1 \in UpTo(j + 1, {")"}) ->
         UpTo(k, {":"})
    [] text[k] = "^" /\ Before(k, {":"}) /\ Before(k - 1, {"function"}) -> UpTo(k, {"begin"})
    [] text[k] = "finalization" -> UpTo(k, {"end"})
    [] OTHER -> {}
Forgotten == UNION {ForgottenAt(k) : k \in 1..Len(text)}

\* A helper keeps its signatures only, wherever they begin and end.
HasHelper == \E k \in 1..Len(text) : text[k] = "helper"

\* What inline and operator take as it stands, whatever it is.
Verbatim(k) == Before(k, {"operator"}) \/ (Within(k, "inline", {")"}) /\ Before(k, {"(", ","}))

\* Of each prefix, how many constructs that end with `end' are open.  A
\* forward class has no body.
Opens(k, gone) ==
  LET t == text[k]
  IN  IF k \in gone \/ Verbatim(k) THEN 0
      ELSE IF t \in {"begin", "try", "record", "object", "asm"} \/ (t = "case" /\ ~VariantPartAt(k))
         \/ (t = "class" /\ text[k + 1] # ";") \/ (modern /\ t = "match") THEN 1
      ELSE IF t = "end" THEN -1 ELSE 0
Depths(n, gone) == FoldLeft(LAMBDA ds, o : Append(ds, Last(ds) + o), <<0>>, [k \in 1..n |-> Opens(k, gone)])

\* Parse, parser.go: an accepted text loses nothing but what Forgotten names.
\* Every construct is closed once, by its own `end', and the names and literals
\* of the tree are those of the text at the other places, in its order, whatever
\* has been typed over, inserted or cut off.  Texts with a helper are excepted.
\* (The first token is taken for `program' unread, and what follows the last
\* period is not read; a unit has one `end' more than it opens.)
AcceptedMeansWhole ==
  \A r \in {Parsed} :
  Accepted(r) /\ ~HasHelper =>
    \A gone \in {Forgotten} :
    /\ Leaves(Last(r.out)) =
         LET kept == SelectSeq([k \in 1..r.i - 1 |-> k],
                               LAMBDA k : k > 1 /\ k \notin gone /\ text[k] \in Words)
         IN  [n \in DOMAIN kept |-> text[kept[n]]]
    /\ text[1] = "program" =>
         LET ds == Depths(r.i - 1, gone) IN Last(ds) = 0 /\ \A k \in DOMAIN ds : ds[k] >= 0

\* The levels of Turbo Pascal, weakest first, and those of this parser.
Relations == {"=", "<>", "<", "<=", ">", ">=", "in"}
Shifts == {"shl", "shr"}
Levels == << Relations, {"+", "-", "or", "xor"}, {"*", "/", "div", "mod", "and"} \cup Shifts >>
OwnLevels == << {"or"}, {"xor"}, {"and"}, Relations, {"+", "-"}, {"*", "/", "div", "mod"}, Shifts >>

\* The pairs of operators that the parser ranks otherwise than the language: the
\* logical ones are weaker than those of numbers and than relations and have
\* levels of their own, and shifts are stronger than * and div.
Departs(a, b) ==
  \/ a \in {"or", "xor"} /\ b \in ({"or", "xor"} \ {a}) \cup {"+", "-"} \cup Relations
  \/ a = "and" /\ b \in Relations \cup {"+", "-", "*", "/", "div", "mod"} \cup Shifts
  \/ a \in Shifts /\ b \in {"*", "/", "div", "mod"}

\* The operators associate to the left: the root of a text of operators is the
\* last one of the weakest level present.
IsBinary(e, k) == k > 1 /\ e[k] \in DOMAIN BinopBP /\ e[k - 1] = "x"
Binaries(e) == {k \in 1..Len(e) : IsBinary(e, k)}
Weakest(e, levels) == CHOOSE k \in Binaries(e) :
  \E l \in DOMAIN levels :
    /\ e[k] \in levels[l]
    /\ \A j \in Binaries(e) : /\ \A m \in 1..l - 1 : e[j] \notin levels[m]
                              /\ j > k => e[j] \notin levels[l]
RECURSIVE Grouped(_, _)
Grouped(e, levels) ==
  IF Binaries(e) # {}
  THEN LET k == Weakest(e, levels)
       IN  <<e[k], Grouped(SubSeq(e, 1, k - 1), levels), Grouped(SubSeq(e, k + 1, Len(e)), levels)>>
  ELSE IF Len(e) = 1 THEN <<"id", <<e[1]>> >>
  ELSE <<e[1], Grouped(Tail(e), levels)>>

\* parseExprBP, parser.go:1776-1830: an expression is grouped by the levels of
\* Turbo Pascal, from the left, with a sign or not at its operand; unless two of
\* its operators are ranked otherwise by the parser.  Then it is grouped by the
\* parser's own levels.
GroupsByLevel ==
  expr # <<>> =>
    LET departs == \E j, k \in Binaries(expr) : Departs(expr[j], expr[k])
    IN  \A r \in {Parsed} :
          Accepted(r) /\ Last(r.out)[5][2] =
            <<":=", <<"id", <<"x">> >>, Grouped(expr, IF departs THEN OwnLevels ELSE Levels)>>

\* The loops of parser.go: wherever a parse does not end, it stands at the end
\* of the text or at a keyword: any other token is consumed by every loop,
\* whatever is missing.
StuckAtKeywordOnly ==
  \A r \in {Parsed} : r.stuck # <<>> => Kind(r.stuck[2]) \in {"eof", "keyword"}

\* A parse ends.
ParserEnds == Parsed.stuck = <<>>

\* let is a declaration wherever var is one.
LetIsADeclaration == edits = 0 /\ modern => Accepted(Parsed)
=============================================================================
