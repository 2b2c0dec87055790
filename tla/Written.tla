------------------------------ MODULE Written ------------------------------
(***************************************************************************)
(* What it means that a text is a row of tokens: the lexical grammar, said *)
(* of the places in the text and without the scans, and a text laid out by *)
(* it.  What internal/lexer reads of such a text must be what was written. *)
(* A place range a..e - 1 is given by a and e throughout.                  *)
(***************************************************************************)
EXTENDS Lexer

VARIABLE written  \* the tokens of the text, each with the place where it starts
vars == <<src, pos, line, col, tokens, errors, mode, written>>

Word == [kind : STRING, text : Seq(STRING), at : Nat]

All(a, e, class) == \A j \in a..e - 1 : src[j] \in class
\* All the characters of a class that there are from a on, and at least one.
Run(a, e, class) == a < e /\ All(a, e, class) /\ At(e) \notin class

---------------------------------------------------------------------------
(* The tokens. *)

Reserved(text) ==
  /\ ToLower(text) \in KeywordTexts
  /\ ToLower(text) \in {Do, To} => text = ToLower(text)
NameAt(a, e) == src[a] \in IdentStart /\ Run(a, e, IdentCont)

Exponent == {"e", "E"}
IntegerAt(a, e) ==
  /\ Run(a, e, Digits)
  /\ At(e) \notin Exponent
  /\ ~(At(e) = "." /\ At(e + 1) \in Digits)
\* Digits up to m, a fraction up to f if f is another place, and an exponent if
\* f is not the end.
RealAt(a, e) ==
  \E m \in a..e, f \in a..e :
    /\ Run(a, m, Digits)
    /\ f = m \/ (At(m) = "." /\ Run(m + 1, f, Digits))
    /\ \/ f = e /\ f # m /\ At(e) \notin Exponent
       \/ /\ At(f) \in Exponent
          /\ \/ Run(f + 1, e, Digits)
             \/ At(f + 1) \in {"+", "-"} /\ Run(f + 2, e, Digits)
HexAt(a, e) == src[a] = "$" /\ Run(a + 1, e, HexDigits)

\* Every quote within a string is one of a pair, of which firsts are the first.
QuotesDoubled(a, e) ==
  \E firsts \in SUBSET (a..e - 2) :
    \A j \in a..e - 1 : /\ src[j] = "'" <=> (j \in firsts \/ j - 1 \in firsts)
                        /\ ~(j \in firsts /\ j - 1 \in firsts)
StringAt(a, e) ==
  /\ a + 1 < e
  /\ src[a] = "'" /\ src[e - 1] = "'" /\ At(e) # "'"
  /\ QuotesDoubled(a + 1, e - 1)
  /\ BadCodes(a + 1, e - 1) = {}
\* A code that is written as itoa writes it.
CodeAt(a, e) ==
  /\ src[a] = "#" /\ Run(a + 1, e, Digits)
  /\ src[a + 1] # "0" \/ e = a + 2
  /\ e <= a + 19

SymbolAt(a, e) ==
  \/ /\ e = a + 1
     /\ src[a] \in Punctuation
     /\ <<src[a], At(e)>> \notin Pairs \cup {<<"(", "*">>}
  \/ e = a + 2 /\ <<src[a], At(a + 1)>> \in Pairs

\* A token of this kind stands there, after one of kind before.
TokenAt(kind, a, e, before) ==
  \/ /\ kind = (IF Reserved(SubSeq(src, a, e - 1)) THEN "keyword" ELSE "ident")
     /\ NameAt(a, e)
  \/ kind = "int" /\ IntegerAt(a, e)
  \/ kind = "int" /\ CodeAt(a, e) /\ before = "str"
  \/ kind = "real" /\ RealAt(a, e)
  \/ kind = "hex" /\ HexAt(a, e)
  \/ kind = "str" /\ StringAt(a, e)
  \/ kind = "symbol" /\ SymbolAt(a, e)

---------------------------------------------------------------------------
(* The text. *)

BracesAt(a, e) ==
  /\ a + 1 < e
  /\ src[a] = "{" /\ src[e - 1] = "}"
  /\ \A j \in a + 1..e - 2 : src[j] # "}"
ParensAt(a, e) ==
  /\ a + 3 < e
  /\ src[a] = "(" /\ src[a + 1] = "*" /\ src[e - 2] = "*" /\ src[e - 1] = ")"
  /\ \A j \in a + 2..e - 3 : ~(src[j] = "*" /\ src[j + 1] = ")")
Layout(a, e) == Run(a, e, White) \/ BracesAt(a, e) \/ ParensAt(a, e)

\* White space and comments one after the other, which start at the places of cuts.
Gap(a, b) ==
  \E cuts \in SUBSET (a..b) :
    /\ a \in cuts /\ b \in cuts
    /\ \A c \in cuts \ {b} : \E d \in cuts : Layout(c, d)

\* The place behind the k-th token, and that of the one after it or the end.
Past(k) == IF k = 0 THEN 1 ELSE written[k].at + Len(written[k].text)
Ahead(k) == IF k < Len(written) THEN written[k + 1].at ELSE End

LaidOut ==
  /\ \A k \in 1..Len(written) :
       /\ Past(k) <= End
       /\ SubSeq(src, written[k].at, Past(k) - 1) = written[k].text
       /\ TokenAt(written[k].kind, written[k].at, Past(k), IF k = 1 THEN "" ELSE written[k - 1].kind)
  /\ \A k \in 0..Len(written) : Gap(Past(k), Ahead(k))

Next == LexNext /\ UNCHANGED written
\* The tokenizer over any text, and any row of tokens one may take it for.
WrittenSpec ==
  /\ src \in Seq(STRING) /\ written \in Seq(Word)
  /\ LexInit
  /\ [][Next]_vars

\* What was written is what is read, however it is laid out: the same tokens
\* with the same text at the same places, no error, and one token that ends the
\* text.
ReadsBack ==
  Lexed /\ LaidOut =>
    /\ errors = 0
    /\ Len(tokens) = Len(written) + 1
    /\ \A k \in 1..Len(written) :
         [kind |-> tokens[k].kind, text |-> tokens[k].text, at |-> PlaceOf(tokens[k])] = written[k]
=============================================================================
