------------------------------- MODULE Lexer -------------------------------
(***************************************************************************)
(* The tokenizer of internal/lexer: one action per scan that the loop of   *)
(* run chooses.  A text is a sequence of characters, each a string of one  *)
(* letter.  A scan finds where its token ends and moves there; advance     *)
(* keeps line and column.  The values of numbers are left out, but for the *)
(* codes of control characters.                                            *)
(***************************************************************************)
EXTENDS Naturals, Sequences, FiniteSets

VARIABLES src,     \* the text
          pos,     \* the next character, one past the last at the end
          line, col,
          tokens,  \* what has been emitted
          errors,  \* errors reported
          mode     \* {$MODE BPGO} has been seen
lexVars == <<src, pos, line, col, tokens, errors, mode>>

White == {" ", "\t", "\r", "\n"}
Digits == {"0", "1", "2", "3", "4", "5", "6", "7", "8", "9"}
Lower == {"a", "b", "c", "d", "e", "f", "g", "i", "m", "o", "p", "t", "x"}
Upper == {"A", "B", "D", "E", "G", "I", "M", "O", "P", "T", "X"}
IdentStart == Lower \cup Upper \cup {"_"}
IdentCont == IdentStart \cup Digits
HexDigits == Digits \cup {"a", "b", "c", "d", "e", "f", "A", "B", "D", "E"}
OpChars == {"+", "-", "*", "/", "=", "<", ">", "!"}
Punctuation == {",", ";", ":", ".", "(", ")", "[", "]", "^", "@"} \cup OpChars

\* What strings.ToLower and ToUpper make of a character.
LowerOf == [c \in Upper |-> CASE c = "A" -> "a" [] c = "B" -> "b" [] c = "D" -> "d" [] c = "E" -> "e"
                              [] c = "G" -> "g" [] c = "I" -> "i" [] c = "M" -> "m" [] c = "O" -> "o" [] c = "P" -> "p"
                              [] c = "T" -> "t" [] OTHER -> "x"]
ToLower(s) == [k \in DOMAIN s |-> IF s[k] \in Upper THEN LowerOf[s[k]] ELSE s[k]]

\* Some of the reserved words; they are compared without case, but for do and
\* to, which are names unless they are written in small letters.
Do == <<"d", "o">>
To == <<"t", "o">>
KeywordTexts == {Do, To, <<"i", "f">>, <<"o", "f">>, <<"m", "o", "d">>}

Least(S) == CHOOSE k \in S : \A j \in S : k <= j
End == Len(src) + 1
More == pos < End
\* The character at k; peek and the tests of l.pos+1 find none behind the end.
At(k) == IF k < End THEN src[k] ELSE ""
\* The first place from k on that is not in a class, and the first in a class.
SkipFrom(k, class) == Least({j \in k..Len(src) : src[j] \notin class} \cup {End})
FindFrom(k, class) == Least({j \in k..Len(src) : src[j] \in class} \cup {End})

\* advance, character by character, up to e.
MoveKeepingColumn(e) ==
  /\ pos' = e /\ col' = col + (e - pos)
  /\ line' = line + Cardinality({j \in pos..e - 1 : src[j] = "\n"})
MoveTo(e) ==
  LET lines == {j \in pos..e - 1 : src[j] = "\n"}
  IN  /\ pos' = e
      /\ line' = line + Cardinality(lines)
      /\ col' = IF lines = {} THEN col + (e - pos)
                ELSE e - (CHOOSE j \in lines : \A i \in lines : i <= j)

Token(kind, text) == [kind |-> kind, text |-> text, line |-> line, col |-> col, val |-> <<>>]
Emit(kind, e) == tokens' = Append(tokens, Token(kind, SubSeq(src, pos, e - 1)))
EmitWith(token, val) == tokens' = Append(tokens, [token EXCEPT !.val = val])
Errors(n) == errors' = errors + n
Quiet == UNCHANGED errors

---------------------------------------------------------------------------
(* The scans, each with the guard under which run comes to it. *)

SkipBlanks ==
  /\ More
  /\ src[pos] \in White
  /\ MoveTo(SkipFrom(pos, White \ {"\n"}))
  /\ UNCHANGED <<src, tokens, errors, mode>>
SkipWhitespace ==
  /\ More
  /\ src[pos] \in White
  /\ MoveTo(SkipFrom(pos + 1, White))
  /\ UNCHANGED <<src, tokens, errors, mode>>

\* The fields of a directive, as strings.Fields splits them: where each starts.
FieldAt(from, to, k) == /\ k \in from..to
                        /\ src[k] \notin White
                        /\ k = from \/ src[k - 1] \in White
Reads(k, to, word) ==
  /\ SkipFrom(k, IdentCont) = k + Len(word)
  /\ ToLower(SubSeq(src, k, k + Len(word) - 1)) = word
  /\ k + Len(word) > to \/ src[k + Len(word)] \in White
\* {$MODE BPGO ...}, in any case and with anything behind.
SwitchesMode(from, to) ==
  \E m \in from..to, b \in from..to :
    /\ m < b
    /\ FieldAt(from, to, m) /\ FieldAt(from, to, b)
    /\ \A k \in from..b - 1 : FieldAt(from, to, k) => k = m
    /\ Reads(m, to, <<"m", "o", "d", "e">>)
    /\ Reads(b, to, <<"b", "p", "g", "o">>)

ScanDirective ==
  LET close == FindFrom(pos + 2, {"}"})
  IN  /\ More
      /\ src[pos] = "{" /\ At(pos + 1) = "$"
      /\ MoveTo(IF close < End THEN close + 1 ELSE End)
      /\ Errors(IF close < End THEN 0 ELSE 1)
      /\ mode' = (mode \/ (close < End /\ SwitchesMode(pos + 2, close - 1)))
      /\ UNCHANGED <<src, tokens>>

ScanParenComment ==
  LET close == Least({k \in pos + 2..Len(src) : src[k] = "*" /\ At(k + 1) = ")"} \cup {End})
  IN  /\ More
      /\ src[pos] = "(" /\ At(pos + 1) = "*"
      /\ MoveTo(IF close < End THEN close + 2 ELSE End)
      /\ Errors(IF close < End THEN 0 ELSE 1)
      /\ UNCHANGED <<src, tokens, mode>>

ScanBraceComment ==
  LET close == FindFrom(pos + 1, {"}"})
  IN  /\ More
      /\ src[pos] = "{" /\ At(pos + 1) # "$"
      /\ MoveTo(IF close < End THEN close + 1 ELSE End)
      /\ Errors(IF close < End THEN 0 ELSE 1)
      /\ UNCHANGED <<src, tokens, mode>>

\* The number a run of digits stands for.  (It has no width here: a code of more
\* than 18 digits may wrap around in the program.)
DigitValue == [d \in Digits |-> CASE d = "0" -> 0 [] d = "1" -> 1 [] d = "2" -> 2 [] d = "3" -> 3 [] d = "4" -> 4
                                  [] d = "5" -> 5 [] d = "6" -> 6 [] d = "7" -> 7 [] d = "8" -> 8 [] OTHER -> 9]
NumberOf(ds) ==
  LET n[k \in 0..Len(ds)] == IF k = 0 THEN 0 ELSE n[k - 1] * 10 + DigitValue[ds[k]]
  IN  n[Len(ds)]

\* The quote that ends the string whose characters start at k: the last of an odd
\* run of quotes, as a doubled quote stands for one.
Closes(k, j) ==
  /\ src[j] = "'" /\ At(j + 1) # "'"
  /\ \E i \in k..j : /\ \A h \in i..j : src[h] = "'"
                     /\ i = k \/ src[i - 1] # "'"
                     /\ (j - i) % 2 = 0
ClosingQuote(k) == Least({j \in k..Len(src) : Closes(k, j)} \cup {End})

\* Its bytes; #n is a byte even here.
StringValue(from, to) ==
  LET in[k \in from..to] ==
        IF k = to THEN <<>>
        ELSE LET e == IF src[k] = "'" THEN k + 2
                      ELSE IF src[k] = "#" THEN SkipFrom(k + 1, Digits) ELSE k + 1
                 code == NumberOf(SubSeq(src, k + 1, e - 1))
             IN  IF src[k] # "#" THEN <<src[k]>> \o in[e]
                 ELSE IF e = k + 1 THEN in[e] ELSE <<code % 256>> \o in[e]
  IN  in[from]

\* Where an error is met in it: a # without digits, or with a code above a byte.
BadCodes(from, to) ==
  {k \in from..to - 1 :
     LET e == SkipFrom(k + 1, Digits)
     IN  src[k] = "#" /\ (e = k + 1 \/ NumberOf(SubSeq(src, k + 1, e - 1)) > 255)}

\* Without its closing quote a string is an error up to the end of the text.
ScanString ==
  LET close == ClosingQuote(pos + 1)
      closed == close < End
      e == IF closed THEN close + 1 ELSE End
  IN  /\ More
      /\ src[pos] = "'"
      /\ MoveTo(e)
      /\ EmitWith(Token(IF closed THEN "str" ELSE "error", SubSeq(src, pos, e - 1)),
                  IF closed THEN StringValue(pos + 1, close) ELSE <<>>)
      /\ Errors(Cardinality(BadCodes(pos + 1, close)) + IF closed THEN 0 ELSE 1)
      /\ UNCHANGED <<src, mode>>

LastTokenWasString == tokens # <<>> /\ tokens[Len(tokens)].kind = "str"

\* #n after a string: an integer token that the parser folds into the string.
\* Its text is written anew, without leading zeros.
WithoutZeros(ds) == IF \A k \in DOMAIN ds : ds[k] = "0" THEN <<"0">>
                    ELSE SubSeq(ds, Least({k \in DOMAIN ds : ds[k] # "0"}), Len(ds))
ScanHashRef ==
  LET e == SkipFrom(pos + 1, Digits)
      digits == SubSeq(src, pos + 1, e - 1)
  IN  /\ More
      /\ src[pos] = "#" /\ LastTokenWasString
      /\ MoveTo(e)
      /\ IF e = pos + 1 THEN Errors(1) /\ UNCHANGED tokens
         ELSE /\ EmitWith(Token("int", <<"#">> \o WithoutZeros(digits)), <<NumberOf(digits)>>)
              /\ Quiet
      /\ UNCHANGED <<src, mode>>

ScanIdentOrKeyword ==
  LET e == SkipFrom(pos + 1, IdentCont)
      text == SubSeq(src, pos, e - 1)
      lower == ToLower(text)
  IN  /\ More
      /\ src[pos] \in IdentStart
      /\ MoveTo(e)
      /\ Emit(IF lower \in KeywordTexts /\ (lower \in {Do, To} => text = lower)
              THEN "keyword" ELSE "ident", e)
      /\ Quiet
      /\ UNCHANGED <<src, mode>>

ScanHex ==
  LET e == SkipFrom(pos + 1, HexDigits)
  IN  /\ More
      /\ src[pos] = "$" /\ At(pos + 1) \in HexDigits
      /\ MoveTo(e)
      /\ Emit("hex", e)
      /\ Quiet
      /\ UNCHANGED <<src, mode>>

\* A period belongs to the number only before a digit: 1..2 is a range.
HasFractionAnyway(k) == At(k) = "."
HasFraction(k) == At(k) = "." /\ At(k + 1) \in Digits

\* An e is always the number's; an exponent without digits is not a real.
ScanNumber ==
  LET int == SkipFrom(pos + 1, Digits)
      hasFraction == HasFraction(int)
      frac == IF hasFraction THEN SkipFrom(int + 1, Digits) ELSE int
      hasExponent == At(frac) \in {"e", "E"}
      digits == IF At(frac + 1) \in {"+", "-"} THEN frac + 2 ELSE frac + 1
      e == IF hasExponent THEN SkipFrom(digits, Digits) ELSE frac
  IN  /\ More
      /\ src[pos] \in Digits
      /\ MoveTo(e)
      /\ Emit(IF hasFraction \/ hasExponent THEN "real" ELSE "int", e)
      /\ Errors(IF hasExponent /\ e = digits THEN 1 ELSE 0)
      /\ UNCHANGED <<src, mode>>

\* The symbols of two characters.
Pairs == {<<":", "=">>, <<".", ".">>, <<"<", "=">>, <<"<", ">">>, <<">", "=">>, <<"=", "=">>, <<"=", ">">>}

\* Where an earlier scan does not apply: a symbol, or an unexpected character.
ScanPunct ==
  LET e == IF <<src[pos], At(pos + 1)>> \in Pairs THEN pos + 2 ELSE pos + 1
      known == src[pos] \in Punctuation
  IN  /\ More
      /\ src[pos] \notin White \cup {"{", "'"} \cup IdentStart \cup Digits
      /\ ~(src[pos] = "(" /\ At(pos + 1) = "*")
      /\ ~(src[pos] = "#" /\ LastTokenWasString)
      /\ ~(src[pos] = "$" /\ At(pos + 1) \in HexDigits)
      /\ MoveTo(e)
      /\ Emit(IF known THEN "symbol" ELSE "error", e)
      /\ Errors(IF known THEN 0 ELSE 1)
      /\ UNCHANGED <<src, mode>>

Lexed == tokens # <<>> /\ tokens[Len(tokens)].kind = "eof"

\* The token that ends every text.
EmitEof ==
  /\ pos = End
  /\ ~Lexed
  /\ tokens' = Append(tokens, Token("eof", <<>>))
  /\ UNCHANGED <<src, pos, line, col, errors, mode>>

LexInit ==
  /\ pos = 1 /\ line = 1 /\ col = 1
  /\ tokens = <<>> /\ errors = 0 /\ mode = FALSE

Scan ==
  \/ SkipWhitespace \/ ScanDirective \/ ScanParenComment \/ ScanBraceComment
  \/ ScanString \/ ScanHashRef \/ ScanIdentOrKeyword \/ ScanHex \/ ScanNumber \/ ScanPunct
LexNext == Scan \/ EmitEof

\* The tokenizer alone, over any text.
LexSpec == src \in Seq(STRING) /\ LexInit /\ [][LexNext]_lexVars

\* No scan leaves the text or goes back in it, and the token that ends the text
\* is emitted once.
ScanMoves == [][(pos < pos' /\ pos' <= End) \/ (~Lexed /\ Lexed')]_lexVars

\* Where a line and column point to: a line starts at the beginning or behind a
\* line feed.
Newlines(k) == {j \in 1..k - 1 : src[j] = "\n"}
StartsLine(k) == k = 1 \/ src[k - 1] = "\n"
LineStart(l) == CHOOSE k \in 1..End : StartsLine(k) /\ Cardinality(Newlines(k)) + 1 = l
PlaceOf(t) == LineStart(t.line) + t.col - 1
Behind(t) == PlaceOf(t) + Len(t.text)

\* White space or part of a comment that lies between two places.
Blank(from, to, j) ==
  \/ src[j] \in White
  \/ \E a \in from..j, b \in j..to - 1 :
       \/ src[a] = "{" /\ src[b] = "}"
       \/ /\ a + 2 < b
          /\ src[a] = "(" /\ src[a + 1] = "*"
          /\ src[b - 1] = "*" /\ src[b] = ")"

\* A token stands where its line and column say, behind the one before it, and
\* what lies between two tokens is white space or comment, unless an error says
\* otherwise: no character is dropped in silence.  (But for the codes #n that
\* scanHashRef writes in another way.)
NothingDropped ==
  \A k \in 1..Len(tokens) :
    LET at == PlaceOf(tokens[k])
        before == IF k = 1 THEN 1 ELSE Behind(tokens[k - 1])
    IN  /\ before <= at /\ Behind(tokens[k]) <= End
        /\ SubSeq(src, at, Behind(tokens[k]) - 1) = tokens[k].text
        /\ errors = 0 => \A j \in before..at - 1 : Blank(before, at, j)
=============================================================================
