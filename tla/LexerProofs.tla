---------------------------- MODULE LexerProofs ----------------------------
(***************************************************************************)
(* For every text the loop of the tokenizer ends: each scan leaves pos     *)
(* further on and not behind the end.  What has to be shown of every scan  *)
(* is that its token ends behind its first character.                      *)
(*                                                                         *)
(* And nothing of the text is dropped.  That needs the invariant TextInv:  *)
(* line and column are those of pos (Placed), and what lies between the    *)
(* last token and pos is blank (GapBlank).  Every scan either skips what   *)
(* is blank, or writes a token of exactly the text it moves over.          *)
(***************************************************************************)
EXTENDS Lexer, TLAPS, WellFoundedInduction, FiniteSetTheorems

Scanning == /\ src \in Seq(STRING)
            /\ pos \in 1..End
            /\ \E S : tokens \in Seq(S)

\* Least is what its name says, of any set of natural numbers.
LEMMA LeastIsMember ==
  ASSUME NEW S, S \subseteq Nat, S # {}
  PROVE  Least(S) \in S
<1>1. PICK x \in S : \A y \in S : <<y, x>> \notin OpToRel(<, Nat)
  BY WFMin, NatLessThanWellFounded
<1>2. ASSUME NEW y \in S PROVE x <= y
  <2>1. y \in Nat /\ x \in Nat /\ <<y, x>> \in Nat \X Nat
    OBVIOUS
  <2>2. y < x => <<y, x>> \in OpToRel(<, Nat)
    BY <2>1 DEF OpToRel
  <2>3. ~ (y < x)
    BY <1>1, <2>2, Zenon
  <2> QED
    BY <2>1, <2>3
<1> QED
  BY <1>2 DEF Least

LEMMA LeastIsLeast ==
  ASSUME NEW S, S \subseteq Nat, NEW x \in S
  PROVE  Least(S) <= x
<1>1. PICK m \in S : \A y \in S : <<y, m>> \notin OpToRel(<, Nat)
  BY WFMin, NatLessThanWellFounded
<1>2. ASSUME NEW y \in S PROVE m <= y
  <2>1. y \in Nat /\ m \in Nat /\ <<y, m>> \in Nat \X Nat
    OBVIOUS
  <2>2. y < m => <<y, m>> \in OpToRel(<, Nat)
    BY <2>1 DEF OpToRel
  <2>3. ~ (y < m)
    BY <1>1, <2>2, Zenon
  <2> QED
    BY <2>1, <2>3
<1> QED
  BY <1>2 DEF Least

\* A scan that looks for a place from k on finds one there, or the end.
LEMMA LeastFrom ==
  ASSUME Scanning, NEW k \in 1..End, NEW S, S \subseteq k..Len(src)
  PROVE  Least(S \cup {End}) \in k..End
<1>1. Len(src) \in Nat
  BY DEF Scanning
<1>2. S \cup {End} \subseteq k..End
  <2>1. End = Len(src) + 1 /\ End \in Nat
    BY <1>1 DEF End
  <2>2. ASSUME NEW j \in S PROVE j \in k..End
    <3>1. j \in k..Len(src)
      OBVIOUS
    <3> QED
      BY <1>1, <2>1, <3>1
  <2>3. End \in k..End
    BY <2>1
  <2> QED
    BY <2>2, <2>3
<1>3. S \cup {End} \subseteq Nat
  BY <1>2
<1> QED
  BY <1>2, <1>3, LeastIsMember

LEMMA SkipsOn ==
  ASSUME Scanning, NEW k \in 1..End, NEW class
  PROVE  SkipFrom(k, class) \in k..End
  BY LeastFrom DEF SkipFrom

LEMMA FindsOn ==
  ASSUME Scanning, NEW k \in 1..End, NEW class
  PROVE  FindFrom(k, class) \in k..End
  BY LeastFrom DEF FindFrom

\* A character that is there, and what it says of the next place.
LEMMA Inside ==
  ASSUME Scanning
  PROVE  /\ End \in Nat \ {0}
         /\ More => pos \in 1..Len(src) /\ pos + 1 \in 1..End
         /\ \A k \in Nat : At(k) # "" => k < End
<1>1. Len(src) \in Nat /\ End = Len(src) + 1 /\ pos \in 1..End
  BY DEF Scanning, End
<1>2. \A k \in Nat : ~(k < End) => At(k) = ""
  BY DEF At
<1>3. More => pos \in 1..Len(src) /\ pos + 1 \in 1..End
  BY <1>1 DEF More
<1>4. \A k \in Nat : At(k) # "" => k < End
  BY <1>2, Zenon
<1>5. End \in Nat \ {0}
  BY <1>1
<1> QED
  BY <1>3, <1>4, <1>5
LEMMA Places ==
  ASSUME Scanning
  PROVE  /\ pos \in Nat /\ End \in Nat /\ pos >= 1 /\ pos <= End
         /\ More => pos + 1 \in 1..End
<1>1. pos \in 1..End /\ End \in Nat
  BY Inside DEF Scanning
<1>2. More => pos + 1 \in 1..End
  BY Inside
<1> QED
  BY <1>1, <1>2

\* Where there is a character the text has not ended.
LEMMA Present == ASSUME Scanning, NEW k \in Nat, At(k) # "" PROVE k < End
  BY Inside

-----------------------------------------------------------------------------
\* What every scan does: it moves on, and writes at most one token.
Moved == pos' \in pos + 1..End
Wrote == tokens' = tokens \/ \E t : tokens' = Append(tokens, t)

LEMMA MovedTo ==
  ASSUME Scanning, NEW e, MoveTo(e), e \in pos + 1..End
  PROVE  Moved
  BY DEF Moved, MoveTo

LEMMA BlanksMove == ASSUME Scanning, SkipWhitespace PROVE Moved
<1> DEFINE e == SkipFrom(pos + 1, White)
<1>1. pos + 1 \in 1..End
  BY Inside DEF SkipWhitespace
<1>2. e \in pos + 1..End
  BY <1>1, SkipsOn
<1> QED
  BY <1>2, MovedTo DEF SkipWhitespace

LEMMA DirectiveMoves == ASSUME Scanning, ScanDirective PROVE Moved
<1> DEFINE close == FindFrom(pos + 2, {"}"})
           e == IF close < End THEN close + 1 ELSE End
<1>1. pos \in Nat /\ End \in Nat /\ pos + 1 \in 1..End
  BY Places DEF ScanDirective
<1>2. pos + 1 < End
  <2>1. At(pos + 1) # ""
    BY DEF ScanDirective
  <2>2. pos + 1 \in Nat
    BY <1>1
  <2> HIDE DEF close, e
  <2> QED
    BY <2>1, <2>2, Present
<1>3. pos + 2 \in 1..End
  BY <1>1, <1>2
<1>4. close \in pos + 2..End
  BY <1>3, FindsOn
<1> HIDE DEF close
<1>5. e \in pos + 1..End
  BY <1>1, <1>2, <1>4
<1> USE DEF close
<1> QED
  BY <1>5, MovedTo DEF ScanDirective

LEMMA BraceCommentMoves == ASSUME Scanning, ScanBraceComment PROVE Moved
<1> DEFINE close == FindFrom(pos + 1, {"}"})
           e == IF close < End THEN close + 1 ELSE End
<1>1. pos \in Nat /\ End \in Nat /\ pos + 1 \in 1..End
  BY Places DEF ScanBraceComment
<1>2. close \in pos + 1..End
  BY <1>1, FindsOn
<1> HIDE DEF close
<1>3. e \in pos + 1..End
  BY <1>1, <1>2
<1> USE DEF close
<1> QED
  BY <1>3, MovedTo DEF ScanBraceComment

LEMMA ParenCommentMoves == ASSUME Scanning, ScanParenComment PROVE Moved
<1> DEFINE S == {k \in pos + 2..Len(src) : src[k] = "*" /\ At(k + 1) = ")"}
           close == Least(S \cup {End})
           e == IF close < End THEN close + 2 ELSE End
<1>1. pos \in Nat /\ End \in Nat /\ pos + 1 \in 1..End
  BY Places DEF ScanParenComment
<1>2. pos + 1 < End
  <2>1. At(pos + 1) # ""
    BY DEF ScanParenComment
  <2>2. pos + 1 \in Nat
    BY <1>1
  <2> HIDE DEF close, e
  <2> QED
    BY <2>1, <2>2, Present
<1>3. pos + 2 \in 1..End
  BY <1>1, <1>2
<1>4. close \in pos + 2..End /\ close \in S \cup {End}
  <2>1. close \in pos + 2..End
    BY <1>3, LeastFrom
  <2>2. S \cup {End} \subseteq Nat
    BY <1>1
  <2> QED
    BY <2>1, <2>2, LeastIsMember
\* What closes the comment is followed by a parenthesis.
<1>5. close < End => close + 1 < End
  <2>1. close < End => close \in S
    BY <1>1, <1>4
  <2>2. close < End => At(close + 1) = ")" /\ close + 1 \in Nat
    BY <1>1, <1>4, <2>1
  <2> QED
    BY <2>2, Inside
<1>6. e \in pos + 1..End
  BY <1>1, <1>2, <1>4, <1>5
<1> QED
  BY <1>6, MovedTo DEF ScanParenComment

LEMMA StringMoves == ASSUME Scanning, ScanString PROVE Moved
<1> DEFINE S == {j \in pos + 1..Len(src) : Closes(pos + 1, j)}
           close == ClosingQuote(pos + 1)
           e == IF close < End THEN close + 1 ELSE End
<1>1. pos \in Nat /\ End \in Nat /\ pos + 1 \in 1..End
  BY Places DEF ScanString
<1>2. close = Least(S \cup {End})
  BY DEF ClosingQuote
<1>3. close \in pos + 1..End
  BY <1>1, <1>2, LeastFrom
<1>4. e \in pos + 1..End
  BY <1>1, <1>3
<1> QED
  BY <1>4, MovedTo DEF ScanString

LEMMA HashRefMoves == ASSUME Scanning, ScanHashRef PROVE Moved
<1> DEFINE e == SkipFrom(pos + 1, Digits)
<1>1. pos + 1 \in 1..End
  BY Inside DEF ScanHashRef
<1>2. e \in pos + 1..End
  BY <1>1, SkipsOn
<1> QED
  BY <1>2, MovedTo DEF ScanHashRef

LEMMA WordMoves == ASSUME Scanning, ScanIdentOrKeyword PROVE Moved
<1> DEFINE e == SkipFrom(pos + 1, IdentCont)
<1>1. pos + 1 \in 1..End
  BY Inside DEF ScanIdentOrKeyword
<1>2. e \in pos + 1..End
  BY <1>1, SkipsOn
<1> QED
  BY <1>2, MovedTo DEF ScanIdentOrKeyword

LEMMA HexMoves == ASSUME Scanning, ScanHex PROVE Moved
<1> DEFINE e == SkipFrom(pos + 1, HexDigits)
<1>1. pos + 1 \in 1..End
  BY Inside DEF ScanHex
<1>2. e \in pos + 1..End
  BY <1>1, SkipsOn
<1> QED
  BY <1>2, MovedTo DEF ScanHex

LEMMA NumberMoves == ASSUME Scanning, ScanNumber PROVE Moved
<1> DEFINE int == SkipFrom(pos + 1, Digits)
           frac == IF HasFraction(int) THEN SkipFrom(int + 1, Digits) ELSE int
           digits == IF At(frac + 1) \in {"+", "-"} THEN frac + 2 ELSE frac + 1
           e == IF At(frac) \in {"e", "E"} THEN SkipFrom(digits, Digits) ELSE frac
<1>1. pos \in Nat /\ End \in Nat /\ pos + 1 \in 1..End
  BY Places DEF ScanNumber
<1>2. int \in pos + 1..End
  BY <1>1, SkipsOn
<1>3. frac \in pos + 1..End
  <2>1. CASE HasFraction(int)
    <3>1. At(int) # ""
      BY <2>1 DEF HasFraction
    <3>2. int < End
      <4>1. int \in Nat
        BY <1>1, <1>2
      <4> QED
        BY <3>1, <4>1, Present
    <3>3. int + 1 \in 1..End
      BY <1>1, <1>2, <3>2
    <3>4. SkipFrom(int + 1, Digits) \in int + 1..End
      BY <3>3, SkipsOn
    <3> QED
      BY <1>1, <1>2, <2>1, <3>4
  <2>2. CASE ~HasFraction(int)
    BY <1>2, <2>2
  <2> QED
    BY <2>1, <2>2
<1>4. e \in pos + 1..End
  <2>1. CASE At(frac) \in {"e", "E"}
    <3>1. frac \in Nat /\ frac + 1 \in Nat
      BY <1>1, <1>3
    <3>2. frac < End
      <4>1. At(frac) # ""
        BY <2>1
      <4> QED
        BY <3>1, <4>1, Present
    <3>3. At(frac + 1) \in {"+", "-"} => frac + 1 < End
      BY <3>1, Present
    <3>4. digits \in 1..End /\ digits > pos
      BY <1>1, <1>3, <3>2, <3>3
    <3>5. SkipFrom(digits, Digits) \in digits..End
      BY <3>4, SkipsOn
    <3> QED
      BY <1>1, <2>1, <3>4, <3>5
  <2>2. CASE ~(At(frac) \in {"e", "E"})
    BY <1>3, <2>2
  <2> QED
    BY <2>1, <2>2
<1> QED
  BY <1>4, MovedTo DEF ScanNumber

LEMMA PunctMoves == ASSUME Scanning, ScanPunct PROVE Moved
<1> DEFINE e == IF <<src[pos], At(pos + 1)>> \in Pairs THEN pos + 2 ELSE pos + 1
<1>1. pos \in Nat /\ End \in Nat /\ pos + 1 \in 1..End
  BY Places DEF ScanPunct
<1>2. <<src[pos], At(pos + 1)>> \in Pairs => At(pos + 1) # ""
  BY DEF Pairs
<1>3. <<src[pos], At(pos + 1)>> \in Pairs => pos + 1 < End
  <2>1. pos + 1 \in Nat
    BY <1>1
  <2> QED
    BY <1>2, <2>1, Present
<1>4. e \in pos + 1..End
  BY <1>1, <1>3
<1> QED
  BY <1>4, MovedTo DEF ScanPunct

LEMMA ScanStep == ASSUME Scanning, Scan PROVE Moved /\ Wrote /\ UNCHANGED src
<1>1. Moved
  BY BlanksMove, DirectiveMoves, ParenCommentMoves, BraceCommentMoves, StringMoves, HashRefMoves,
     WordMoves, HexMoves, NumberMoves, PunctMoves DEF Scan
<1>2. UNCHANGED src
  BY DEF Scan, SkipWhitespace, ScanDirective, ScanParenComment, ScanBraceComment, ScanString, ScanHashRef,
         ScanIdentOrKeyword, ScanHex, ScanNumber, ScanPunct
<1>3. Wrote
  BY DEF Wrote, Scan, SkipWhitespace, ScanDirective, ScanParenComment, ScanBraceComment, ScanString, ScanHashRef,
         ScanIdentOrKeyword, ScanHex, ScanNumber, ScanPunct, Emit, EmitWith
<1> QED
  BY <1>1, <1>2, <1>3

\* A sequence stays one, whatever is appended.
LEMMA WroteSequence ==
  ASSUME NEW S, tokens \in Seq(S), NEW t
  PROVE  /\ Append(tokens, t) \in Seq(S \cup {t})
         /\ Append(tokens, t) # <<>>
         /\ Append(tokens, t)[Len(Append(tokens, t))] = t
<1>1. tokens \in Seq(S \cup {t}) /\ t \in S \cup {t}
  OBVIOUS
<1> QED
  BY <1>1

LEMMA StaysScanning == Scanning /\ [LexNext]_lexVars => Scanning'
<1> SUFFICES ASSUME Scanning, [LexNext]_lexVars PROVE Scanning'
  OBVIOUS
<1>1. PICK S : tokens \in Seq(S)
  BY DEF Scanning
<1>2. \A t : Append(tokens, t) \in Seq(S \cup {t})
  BY <1>1, WroteSequence
<1>3. CASE Scan
  <2>1. Moved /\ Wrote /\ src' = src /\ End' = End
    BY <1>3, ScanStep DEF End
  <2>2. \E R : tokens' \in Seq(R)
    BY <1>1, <1>2, <2>1 DEF Wrote
  <2>3. pos' \in 1..End
    BY <2>1, Places DEF Moved
  <2> QED
    BY <2>1, <2>2, <2>3 DEF Scanning
<1>4. CASE EmitEof
  <2>1. src' = src /\ End' = End /\ pos' = pos
    BY <1>4 DEF EmitEof, End
  <2>2. \E R : tokens' \in Seq(R)
    BY <1>2, <1>4 DEF EmitEof
  <2> QED
    BY <2>1, <2>2 DEF Scanning
<1>5. CASE UNCHANGED lexVars
  BY <1>5 DEF lexVars, Scanning, End
<1> QED
  BY <1>3, <1>4, <1>5 DEF LexNext

(* The tokenizer stands in its text or at its end, whatever the text.      *)
THEOREM LexerInvariant == LexSpec => []Scanning
<1>1. src \in Seq(STRING) /\ LexInit => Scanning
  <2> SUFFICES ASSUME src \in Seq(STRING), LexInit PROVE Scanning
    OBVIOUS
  <2>1. pos \in 1..End
    BY DEF LexInit, End
  <2>2. tokens \in Seq({})
    BY DEF LexInit
  <2> QED
    BY <2>1, <2>2 DEF Scanning
<1> QED
  BY <1>1, StaysScanning, PTL DEF LexSpec

(* A scan moves on and not behind the end, also where the text breaks off  *)
(* within a token: run's loop has no more turns than the text characters.  *)
THEOREM ScansMoveOn ==
  ASSUME Scanning, Scan
  PROVE  pos < pos' /\ pos' <= End
<1>1. pos' \in pos + 1..End /\ pos \in Nat /\ End \in Nat
  BY ScanStep, Places DEF Moved
<1> QED
  BY <1>1

(* No scan leaves the text or goes back in it; the token that ends the     *)
(* text is the only step that does not move on, and it is written once.    *)
THEOREM LexerEnds == LexSpec => ScanMoves
<1>1. Scanning /\ [LexNext]_lexVars => [(pos < pos' /\ pos' <= End) \/ (~Lexed /\ Lexed')]_lexVars
  <2> SUFFICES ASSUME Scanning, LexNext
               PROVE  (pos < pos' /\ pos' <= End) \/ (~Lexed /\ Lexed')
    OBVIOUS
  <2>1. CASE Scan
    BY <2>1, ScansMoveOn
  <2>2. CASE EmitEof
    <3>1. PICK S : tokens \in Seq(S)
      BY DEF Scanning
    <3> DEFINE t == Token("eof", <<>>)
    <3>2. tokens' = Append(tokens, t) /\ ~Lexed
      BY <2>2 DEF EmitEof
    <3>3. tokens' # <<>> /\ tokens'[Len(tokens')] = t
      BY <3>1, <3>2, WroteSequence
    <3>4. t.kind = "eof"
      BY DEF Token
    <3> QED
      BY <3>2, <3>3, <3>4 DEF Lexed
  <2> QED
    BY <2>1, <2>2 DEF LexNext
<1> QED
  BY <1>1, LexerInvariant, PTL DEF LexSpec, ScanMoves

-----------------------------------------------------------------------------
(* Lines and columns.                                                        *)

LEMMA NewlinesFinite ==
  ASSUME Scanning, NEW k \in 1..End
  PROVE  IsFiniteSet(Newlines(k)) /\ Cardinality(Newlines(k)) \in Nat
<1>1. k - 1 \in Int /\ 1 \in Int
  BY Places
<1>2. IsFiniteSet(1..k - 1)
  BY <1>1, FS_Interval
<1>3. Newlines(k) \in SUBSET (1..k - 1)
  BY DEF Newlines
<1> QED
  BY <1>2, <1>3, FS_Subset, FS_CardinalityType

\* Each start of a line has its own number of line feeds before it.
LEMMA LinesApart ==
  ASSUME Scanning, NEW s \in 1..End, NEW t \in 1..End, StartsLine(t), s < t
  PROVE  Cardinality(Newlines(s)) # Cardinality(Newlines(t))
<1>1. s \in Nat /\ t \in Nat /\ s >= 1 /\ t > 1
  BY Places
<1>2. src[t - 1] = "\n"
  BY <1>1 DEF StartsLine
<1>3. Newlines(s) \in SUBSET Newlines(t)
  BY <1>1 DEF Newlines
<1>4. t - 1 \in Newlines(t)
  BY <1>1, <1>2 DEF Newlines
<1>5. t - 1 \notin Newlines(s)
  BY <1>1 DEF Newlines
<1>6. Newlines(s) # Newlines(t)
  BY <1>4, <1>5
<1> QED
  BY <1>3, <1>6, NewlinesFinite, FS_Subset

LEMMA LineStartIs ==
  ASSUME Scanning, NEW s \in 1..End, StartsLine(s)
  PROVE  LineStart(Cardinality(Newlines(s)) + 1) = s
<1>1. ASSUME NEW t \in 1..End, StartsLine(t),
             Cardinality(Newlines(t)) + 1 = Cardinality(Newlines(s)) + 1
      PROVE  t = s
  <2>1. Cardinality(Newlines(t)) = Cardinality(Newlines(s))
    BY <1>1, NewlinesFinite
  <2>2. ~ (s < t) /\ ~ (t < s)
    BY <1>1, <2>1, LinesApart
  <2>3. s \in Nat /\ t \in Nat
    BY Places
  <2> QED
    BY <2>2, <2>3
<1> QED
  BY <1>1 DEF LineStart

\* The line and column the tokenizer keeps are those of pos.
Placed ==
  \E s \in 1..pos :
    /\ StartsLine(s)
    /\ \A j \in s..pos - 1 : src[j] # "\n"
    /\ line = Cardinality(Newlines(s)) + 1
    /\ col = pos - s + 1

LEMMA StartIsPlaced ==
  ASSUME LexInit
  PROVE  Placed
<1>0. pos = 1 /\ line = 1 /\ col = 1
  BY DEF LexInit
<1>1. Newlines(1) = {}
  BY DEF Newlines
<1>2. Cardinality({}) = 0
  BY FS_EmptySet
<1>3. StartsLine(1)
  BY DEF StartsLine
<1>4. 1 \in 1..pos /\ (\A j \in 1..pos - 1 : src[j] # "\n") /\ col = pos - 1 + 1
  BY <1>0
<1>5. line = Cardinality(Newlines(1)) + 1
  <2>1. Cardinality(Newlines(1)) = 0
    BY <1>1, <1>2, Zenon
  <2> QED
    BY <1>0, <2>1
<1> QED
  BY <1>3, <1>4, <1>5 DEF Placed

LEMMA PlaceOfHere ==
  ASSUME Scanning, Placed, NEW t, t.line = line, t.col = col
  PROVE  PlaceOf(t) = pos
<1>1. PICK s \in 1..pos : StartsLine(s) /\ line = Cardinality(Newlines(s)) + 1 /\ col = pos - s + 1
  BY DEF Placed
<1>2. s \in 1..End /\ s \in Nat /\ pos \in Nat
  BY Places
<1>3. LineStart(line) = s
  BY <1>1, <1>2, LineStartIs
<1> QED
  BY <1>1, <1>2, <1>3 DEF PlaceOf

\* The last of the places in a set, where there is one.
LEMMA LastExists ==
  ASSUME NEW from \in Nat, NEW to \in Nat, NEW S, S \subseteq from..to, S # {}
  PROVE  LET m == CHOOSE j \in S : \A i \in S : i <= j
         IN  m \in S /\ \A i \in S : i <= m
<1> DEFINE D == {d \in 0..to : to - d \in S}
<1>1. PICK x \in S : TRUE
  OBVIOUS
<1>2. to - x \in D
  BY <1>1
<1>3. D \subseteq Nat /\ D # {}
  <2>1. 0..to \subseteq Nat
    OBVIOUS
  <2>2. D \subseteq 0..to
    OBVIOUS
  <2> HIDE DEF D
  <2> QED
    BY <1>2, <2>1, <2>2
<1>4. Least(D) \in D
  BY <1>3, LeastIsMember
<1>5. \A i \in S : to - i \in D
  OBVIOUS
<1>6. \A i \in S : Least(D) <= to - i
  BY <1>3, <1>5, LeastIsLeast
<1>7. to - Least(D) \in S /\ Least(D) \in Nat
  BY <1>4
<1> HIDE DEF D
<1>8. \A i \in S : i <= to - Least(D)
  <2> SUFFICES ASSUME NEW i \in S PROVE i <= to - Least(D)
    OBVIOUS
  <2>1. i \in Nat /\ Least(D) <= to - i
    BY <1>6
  <2> QED
    BY <1>7, <2>1
<1> QED
  BY <1>7, <1>8

LEMMA MovingKeepsPlaced ==
  ASSUME Scanning, Placed, NEW e \in pos + 1..End, MoveTo(e), UNCHANGED src
  PROVE  Placed'
<1> DEFINE lines == {j \in pos..e - 1 : src[j] = "\n"}
           last == CHOOSE j \in lines : \A i \in lines : i <= j
<1>1. PICK s \in 1..pos :
        /\ StartsLine(s)
        /\ \A j \in s..pos - 1 : src[j] # "\n"
        /\ line = Cardinality(Newlines(s)) + 1
        /\ col = pos - s + 1
  BY DEF Placed
<1>2. /\ pos \in Nat /\ e \in Nat /\ End \in Nat /\ s \in Nat /\ s \in 1..End /\ 1 <= s /\ s <= pos
      /\ pos < e /\ e <= End
  BY Places
<1>3. /\ pos' = e
      /\ line' = line + Cardinality(lines)
      /\ col' = IF lines = {} THEN col + (e - pos) ELSE e - last
  BY DEF MoveTo
<1>4. Cardinality(Newlines(s)) \in Nat /\ IsFiniteSet(Newlines(s))
  BY <1>2, NewlinesFinite
<1>5. \A k : (StartsLine(k))' = StartsLine(k) /\ (Newlines(k))' = Newlines(k)
  BY DEF StartsLine, Newlines
<1>6. ASSUME NEW k \in 1..e, StartsLine(k), \A j \in k..e - 1 : src[j] # "\n",
             line' = Cardinality(Newlines(k)) + 1, col' = e - k + 1
      PROVE  Placed'
  BY <1>3, <1>5, <1>6 DEF Placed, StartsLine, Newlines
<1>7. CASE lines = {}
  <2>1. \A j \in s..e - 1 : src[j] # "\n"
    BY <1>1, <1>2, <1>7
  <2>2. Cardinality(lines) = 0
    BY <1>7, FS_EmptySet
  <2>3. line' = Cardinality(Newlines(s)) + 1
    BY <1>1, <1>3, <1>4, <2>2
  <2>4. col' = e - s + 1
    BY <1>1, <1>2, <1>3, <1>7
  <2>5. s \in 1..e
    BY <1>2
  <2> QED
    BY <1>1, <1>6, <2>1, <2>3, <2>4, <2>5
<1>8. CASE lines # {}
  <2>1. last \in lines /\ \A i \in lines : i <= last
    <3>1. lines \subseteq pos..e - 1 /\ e - 1 \in Nat
      BY <1>2
    <3> QED
      BY <1>2, <1>8, <3>1, LastExists
  <2>2. last \in Nat /\ pos <= last /\ last <= e - 1 /\ src[last] = "\n"
    BY <1>2, <2>1
  <2> DEFINE k == last + 1
  <2>3. k \in 1..e /\ k \in 1..End /\ StartsLine(k)
    BY <1>2, <2>2 DEF StartsLine
  <2>4. \A j \in k..e - 1 : src[j] # "\n"
    <3> SUFFICES ASSUME NEW j \in k..e - 1, src[j] = "\n" PROVE FALSE
      OBVIOUS
    <3>1. j \in lines
      BY <1>2, <2>2
    <3> QED
      BY <1>2, <2>1, <2>2, <3>1
  <2>5. Newlines(k) = Newlines(s) \cup lines
    <3>1. ASSUME NEW j \in Newlines(k) PROVE j \in Newlines(s) \cup lines
      <4>1. j \in 1..k - 1 /\ src[j] = "\n"
        BY DEF Newlines
      <4>2. j \in Nat /\ j <= last /\ j >= 1
        BY <2>2, <4>1
      <4>3. CASE j < s
        BY <1>2, <4>1, <4>2, <4>3 DEF Newlines
      <4>4. CASE s <= j /\ j < pos
        BY <1>1, <1>2, <4>1, <4>2, <4>4
      <4>5. CASE pos <= j
        BY <1>2, <2>2, <4>1, <4>2, <4>5
      <4> QED
        BY <1>2, <4>2, <4>3, <4>4, <4>5
    <3>2. ASSUME NEW j \in Newlines(s) PROVE j \in Newlines(k)
      BY <1>2, <2>2 DEF Newlines
    <3>3. ASSUME NEW j \in lines PROVE j \in Newlines(k)
      <4>1. j \in Nat /\ pos <= j /\ j <= last /\ src[j] = "\n"
        BY <1>2, <2>1
      <4>2. j \in 1..k - 1
        BY <1>2, <2>2, <4>1
      <4> QED
        BY <4>1, <4>2 DEF Newlines
    <3> QED
      BY <3>1, <3>2, <3>3
  <2>6. Newlines(s) \cap lines = {}
    BY <1>2 DEF Newlines
  <2>7. IsFiniteSet(lines) /\ Cardinality(lines) \in Nat
    <3>1. IsFiniteSet(pos..e - 1)
      BY <1>2, FS_Interval
    <3>2. lines \in SUBSET (pos..e - 1)
      OBVIOUS
    <3> QED
      BY <3>1, <3>2, FS_Subset, FS_CardinalityType
  <2> HIDE DEF lines
  <2>8. Cardinality(Newlines(s) \cup lines) = Cardinality(Newlines(s)) + Cardinality(lines)
    <3>1. Cardinality(Newlines(s) \cup lines)
            = Cardinality(Newlines(s)) + Cardinality(lines) - Cardinality(Newlines(s) \cap lines)
      BY <1>4, <2>7, FS_Union
    <3>2. Cardinality({}) = 0
      BY FS_EmptySet
    <3> QED
      BY <1>4, <2>6, <2>7, <3>1, <3>2
  <2>9. line' = Cardinality(Newlines(k)) + 1
    <3>1. ASSUME NEW a \in Nat, NEW b \in Nat PROVE a + 1 + b = a + b + 1
      OBVIOUS
    <3>2. line' = Cardinality(Newlines(s)) + 1 + Cardinality(lines)
      BY <1>1, <1>3 DEF lines
    <3>3. line' = Cardinality(Newlines(s)) + Cardinality(lines) + 1
      BY <1>4, <2>7, <3>1, <3>2
    <3> QED
      BY <2>5, <2>8, <3>3
  <2>10. col' = e - k + 1
    BY <1>2, <1>3, <1>8, <2>2
  <2> QED
    BY <1>6, <2>3, <2>4, <2>9, <2>10
<1> QED
  BY <1>7, <1>8
-----------------------------------------------------------------------------
(* What lies between the tokens.                                             *)

\* The place behind the last token.
After == IF tokens = <<>> THEN 1 ELSE Behind(tokens[Len(tokens)])

\* From there up to pos there is nothing but white space and comments.
GapBlank ==
  /\ After \in 1..pos
  /\ errors = 0 => \A j \in After..pos - 1 : Blank(After, pos, j)

\* The text of a code is written anew from its number: that of #01 loses the zero,
\* and more than 18 digits may be more than an int holds.
CodesPlain ==
  \A k \in 1..Len(src) :
    src[k] = "#" => /\ ~ (At(k + 1) = "0" /\ At(k + 2) \in Digits)
                    /\ SkipFrom(k + 1, Digits) <= k + 19

TextInv ==
  /\ Scanning /\ CodesPlain
  /\ errors \in Nat
  /\ Placed
  /\ GapBlank
  /\ NothingDropped

\* A scan that emits nothing: blank, unless it reports an error.
Skips ==
  \E n \in Nat : \E e \in pos + 1..End :
    /\ MoveTo(e)
    /\ errors' = errors + n
    /\ UNCHANGED <<src, tokens>>
    /\ n = 0 => \A j \in pos..e - 1 : Blank(pos, e, j)

\* A scan that emits the text it moves over.
Writes ==
  \E n \in Nat : \E e \in pos + 1..End : \E t :
    /\ MoveTo(e)
    /\ errors' = errors + n
    /\ UNCHANGED src
    /\ tokens' = Append(tokens, t)
    /\ t.line = line /\ t.col = col /\ t.text = SubSeq(src, pos, e - 1)

LEMMA BlankGrows ==
  ASSUME NEW a \in Nat, NEW b \in Nat, NEW c \in Nat, NEW d \in Nat, c <= a, b <= d,
         NEW j \in a..b - 1, Blank(a, b, j)
  PROVE  Blank(c, d, j)
<1>1. CASE src[j] \in White
  BY <1>1 DEF Blank
<1>2. CASE src[j] \notin White
  <2>1. PICK x \in a..j, y \in j..b - 1 :
          \/ src[x] = "{" /\ src[y] = "}"
          \/ /\ x + 2 < y
             /\ src[x] = "(" /\ src[x + 1] = "*"
             /\ src[y - 1] = "*" /\ src[y] = ")"
    BY <1>2 DEF Blank
  <2>2. x \in c..j /\ y \in j..d - 1
    OBVIOUS
  <2> QED
    BY <2>1, <2>2 DEF Blank
<1> QED
  BY <1>1, <1>2

\* Where a token stands does not change while the text is read.
LEMMA SameText ==
  ASSUME UNCHANGED src
  PROVE  /\ End' = End
         /\ \A t : (PlaceOf(t))' = PlaceOf(t) /\ (Behind(t))' = Behind(t)
         /\ \A a, b, j : (Blank(a, b, j))' = Blank(a, b, j)
         /\ CodesPlain => CodesPlain'
<1>1. End' = End
  BY DEF End
<1>2. \A t : (PlaceOf(t))' = PlaceOf(t) /\ (Behind(t))' = Behind(t)
  BY DEF End, PlaceOf, Behind, LineStart, StartsLine, Newlines
<1>3. \A a, b, j : (Blank(a, b, j))' = Blank(a, b, j)
  BY DEF Blank
<1>4. CodesPlain => CodesPlain'
  BY DEF CodesPlain, At, SkipFrom, End
<1> QED
  BY <1>1, <1>2, <1>3, <1>4

LEMMA SkipKeepsText ==
  ASSUME TextInv, Scanning', Skips
  PROVE  TextInv'
<1>1. PICK n \in Nat, e \in pos + 1..End :
        /\ MoveTo(e)
        /\ errors' = errors + n
        /\ UNCHANGED <<src, tokens>>
        /\ n = 0 => \A j \in pos..e - 1 : Blank(pos, e, j)
  <2>1. PICK n \in Nat : \E e \in pos + 1..End :
        /\ MoveTo(e)
        /\ errors' = errors + n
        /\ UNCHANGED <<src, tokens>>
        /\ n = 0 => \A j \in pos..e - 1 : Blank(pos, e, j)
    BY DEF Skips
  <2> QED
    BY <2>1
<1>2. Scanning /\ Placed /\ errors \in Nat /\ GapBlank /\ CodesPlain
  BY DEF TextInv
<1>3. pos \in Nat /\ End \in Nat /\ e \in Nat /\ pos < e /\ pos' = e /\ src' = src
  BY <1>1, <1>2, Places DEF MoveTo
<1>4. errors' \in Nat /\ (errors' = 0 => errors = 0 /\ n = 0)
  BY <1>1, <1>2
<1>5. Placed'
  BY <1>1, <1>2, MovingKeepsPlaced
<1>6. After' = After /\ After \in 1..pos /\ After \in Nat
  BY <1>1, <1>2, <1>3 DEF After, GapBlank, Behind, PlaceOf, LineStart, StartsLine, Newlines, End
<1>7. ASSUME errors' = 0, NEW j \in After..e - 1 PROVE Blank(After, e, j)
  <2>1. CASE j < pos
    <3>1. j \in After..pos - 1
      BY <1>3, <1>6, <2>1
    <3>2. Blank(After, pos, j)
      BY <1>2, <1>4, <1>7, <3>1 DEF GapBlank
    <3> QED
      BY <1>3, <1>6, <3>1, <3>2, BlankGrows
  <2>2. CASE ~ (j < pos)
    <3>1. j \in pos..e - 1
      BY <1>3, <1>6, <2>2
    <3>2. Blank(pos, e, j)
      BY <1>1, <1>4, <1>7, <3>1
    <3> QED
      BY <1>3, <1>6, <3>1, <3>2, BlankGrows
  <2> QED
    BY <2>1, <2>2
<1>9. GapBlank'
  BY <1>3, <1>6, <1>7, SameText DEF GapBlank
<1>10. CodesPlain'
  BY <1>2, <1>3, SameText
<1>11. NothingDropped'
  <2>1. CASE errors' = errors
    <3>1. UNCHANGED <<src, tokens, errors>>
      BY <1>1, <2>1
    <3> QED
      BY <3>1, SameText DEF TextInv, NothingDropped
  <2>2. CASE errors' # errors
    <3>1. UNCHANGED <<src, tokens>> /\ errors' # 0
      BY <1>1, <1>2, <2>2
    <3> QED
      BY <3>1, SameText DEF TextInv, NothingDropped
  <2> QED
    BY <2>1, <2>2
<1> QED
  BY <1>4, <1>5, <1>9, <1>10, <1>11 DEF TextInv
\* A token is written where the last gap ends, and covers all up to pos.
LEMMA TokenKeepsText ==
  ASSUME TextInv, Scanning', Placed', UNCHANGED src,
         NEW n \in Nat, errors' = errors + n,
         NEW e \in pos..End, pos' = e,
         NEW t, tokens' = Append(tokens, t),
         t.line = line, t.col = col, t.text = SubSeq(src, pos, e - 1)
  PROVE  TextInv'
<1> DEFINE N == Len(tokens)
<1>1. Scanning /\ Placed /\ errors \in Nat /\ GapBlank /\ CodesPlain /\ NothingDropped
  BY DEF TextInv
<1>2. pos \in Nat /\ End \in Nat /\ e \in Nat /\ 1 <= pos /\ pos <= e /\ e <= End /\ End = Len(src) + 1
      /\ src \in Seq(STRING) /\ Len(src) \in Nat
  BY <1>1, Places DEF Scanning, End
<1>3. errors' \in Nat /\ (errors' = 0 => errors = 0)
  BY <1>1
<1>4. PICK S : tokens \in Seq(S)
  BY <1>1 DEF Scanning
<1>5. /\ N \in Nat /\ Len(tokens') = N + 1 /\ tokens'[N + 1] = t /\ tokens' # <<>>
      /\ \A k \in 1..N : tokens'[k] = tokens[k]
  BY <1>4
<1>6. PlaceOf(t) = pos
  BY <1>1, PlaceOfHere
<1>7. Len(t.text) = e - pos
  <2>1. \A i \in pos..e - 1 : src[i] \in STRING
    BY <1>2
  <2>2. Len(SubSeq(src, pos, e - 1)) = IF pos <= e - 1 THEN e - 1 - pos + 1 ELSE 0
    BY <1>2
  <2> QED
    BY <1>2, <2>2
<1>8. Behind(t) = e
  BY <1>2, <1>6, <1>7 DEF Behind
<1>9. GapBlank'
  <2>1. After' = e
    <3>1. tokens' # <<>> /\ tokens'[Len(tokens')] = t
      BY <1>5
    <3> QED
      BY <1>8, <3>1, SameText DEF After
  <2>2. After' \in 1..pos' /\ \A j \in After'..pos' - 1 : FALSE
    BY <1>2, <2>1
  <2> QED
    BY <2>2 DEF GapBlank
<1>10. CodesPlain'
  BY <1>1, SameText
<1>11. NothingDropped'
  <2>1. ASSUME NEW k \in 1..Len(tokens')
        PROVE  LET at == PlaceOf(tokens'[k])
                   before == IF k = 1 THEN 1 ELSE Behind(tokens'[k - 1])
               IN  /\ before <= at /\ Behind(tokens'[k]) <= End
                   /\ SubSeq(src, at, Behind(tokens'[k]) - 1) = tokens'[k].text
                   /\ errors' = 0 => \A j \in before..at - 1 : Blank(before, at, j)
    <3>1. CASE k \in 1..N
      <4>1. k # 1 => k - 1 \in 1..N
        BY <1>5, <3>1
      <4>2. tokens'[k] = tokens[k] /\ (k # 1 => tokens'[k - 1] = tokens[k - 1])
        BY <1>5, <3>1, <4>1
      <4> QED
        BY <1>1, <1>3, <3>1, <4>2 DEF NothingDropped
    <3>2. CASE k = N + 1
      <4>1. (IF k = 1 THEN 1 ELSE Behind(tokens'[k - 1])) = After
        <5>1. CASE N = 0
          <6>1. tokens = <<>>
            BY <1>4, <5>1
          <6> QED
            BY <3>2, <5>1, <6>1 DEF After
        <5>2. CASE N # 0
          <6>1. tokens # <<>> /\ k # 1 /\ k - 1 = N /\ N \in 1..N
            BY <1>4, <1>5, <3>2, <5>2
          <6> QED
            BY <1>5, <6>1 DEF After
        <5> QED
          BY <5>1, <5>2
      <4>2. tokens'[k] = t
        BY <1>5, <3>2
      <4>3. /\ After <= pos /\ e <= End
            /\ errors' = 0 => \A j \in After..pos - 1 : Blank(After, pos, j)
        BY <1>1, <1>2, <1>3 DEF GapBlank
      <4> QED
        BY <1>6, <1>8, <4>1, <4>2, <4>3
    <3> QED
      BY <1>5, <3>1, <3>2
  <2>2. /\ End' = End
        /\ \A x : (PlaceOf(x))' = PlaceOf(x)
        /\ \A x : (Behind(x))' = Behind(x)
        /\ \A a, b, j : (Blank(a, b, j))' = Blank(a, b, j)
    BY SameText
  <2> HIDE DEF N
  <2> QED
    BY <2>1, <2>2, Zenon DEF NothingDropped
<1> QED
  BY <1>1, <1>3, <1>9, <1>10, <1>11 DEF TextInv
\* What a scan that looks for a place passes over has no such place.
LEMMA PassedOver ==
  ASSUME Scanning, NEW k \in 1..End, NEW S, S \subseteq k..Len(src),
         NEW j \in k..Least(S \cup {End}) - 1
  PROVE  j \in 1..Len(src) /\ j \notin S
<1> DEFINE m == Least(S \cup {End})
<1>0. Len(src) \in Nat /\ End = Len(src) + 1
  BY DEF Scanning, End
<1>1. End \in Nat /\ k \in Nat /\ k >= 1
  BY <1>0
<1>2. m \in k..End
  BY LeastFrom
<1>3. j \in k..m - 1
  OBVIOUS
<1>5. S \cup {End} \subseteq Nat
  <2>1. k..Len(src) \subseteq Nat
    BY <1>0, <1>1
  <2> QED
    BY <1>1, <2>1
<1> HIDE DEF m
<1>6a. j \in Nat /\ j >= k /\ j < m /\ m <= End /\ m \in Nat
  BY <1>1, <1>2, <1>3
<1>4. j \in 1..Len(src)
  BY <1>0, <1>1, <1>6a
<1>6. ASSUME j \in S PROVE FALSE
  <2>1. m <= j
    BY <1>5, <1>6, LeastIsLeast DEF m
  <2> QED
    BY <1>6a, <2>1
<1> QED
  BY <1>4, <1>6

LEMMA MovedThere ==
  ASSUME Moved, NEW e, MoveTo(e)
  PROVE  e \in pos + 1..End
  BY DEF Moved, MoveTo

LEMMA BlanksSkip == ASSUME TextInv, SkipWhitespace PROVE Skips
<1> DEFINE S == {j \in pos + 1..Len(src) : src[j] \notin White}
           e == Least(S \cup {End})
<1>1. Scanning /\ errors \in Nat
  BY DEF TextInv
<1>2. MoveTo(e) /\ src[pos] \in White /\ UNCHANGED <<src, tokens, errors>>
  BY DEF SkipWhitespace, SkipFrom
<1>3. e \in pos + 1..End /\ pos + 1 \in 1..End /\ pos \in Nat
  BY <1>1, <1>2, BlanksMove, MovedThere, Places DEF SkipWhitespace
<1>4. ASSUME NEW j \in pos..e - 1 PROVE Blank(pos, e, j)
  <2>1. CASE j = pos
    BY <1>2, <2>1 DEF Blank
  <2>2. CASE j # pos
    <3>1. j \in pos + 1..e - 1
      BY <1>3, <2>2
    <3>2. j \notin S /\ j \in 1..Len(src)
      BY <1>1, <1>3, <3>1, PassedOver
    <3>3. src[j] \in White
      BY <1>3, <3>1, <3>2
    <3> QED
      BY <3>3 DEF Blank
  <2> QED
    BY <2>1, <2>2
<1>5. errors' = errors + 0
  BY <1>1, <1>2
<1> HIDE DEF e
<1> QED
  BY <1>2, <1>3, <1>4, <1>5 DEF Skips

\* A comment in braces, with or without a directive in it.
LEMMA BracesBlank ==
  ASSUME Scanning
  PROVE  \A k \in pos + 1..End : \A close \in Nat :
           close = FindFrom(k, {"}"}) /\ src[pos] = "{" /\ close < End
           => \A j \in pos..close : Blank(pos, close + 1, j)
<1>1. pos \in Nat /\ pos >= 1 /\ End \in Nat
  BY Places
<1>2. \A k \in pos + 1..End : k \in Nat /\ k > pos /\ k \in 1..End
  BY <1>1
<1> SUFFICES ASSUME NEW k \in pos + 1..End, NEW close \in Nat
             PROVE  close = FindFrom(k, {"}"}) /\ src[pos] = "{" /\ close < End
                    => \A j \in pos..close : Blank(pos, close + 1, j)
  OBVIOUS
<1> DEFINE S == {i \in k..Len(src) : src[i] \in {"}"}}
<1>3. k \in Nat /\ k > pos /\ k \in 1..End
  BY <1>2
<1>4. S \cup {End} \subseteq Nat
  <2>1. Len(src) \in Nat
    BY DEF Scanning
  <2>2. k..Len(src) \subseteq Nat
    BY <1>3, <2>1
  <2> QED
    BY <1>1, <2>2
<1>5. close = FindFrom(k, {"}"}) => close \in S \cup {End}
  BY <1>4, LeastIsMember DEF FindFrom
<1>6. close = FindFrom(k, {"}"}) /\ close < End => src[close] = "}"
  <2>1. close < End => close # End
    BY <1>1
  <2> QED
    BY <1>5, <2>1
<1>7. \A j \in pos..close : pos \in pos..j /\ close \in j..(close + 1) - 1
  BY <1>1, <1>3
<1>8. SUFFICES ASSUME src[pos] = "{", src[close] = "}", NEW j \in pos..close
               PROVE  Blank(pos, close + 1, j)
  BY <1>6
<1>9. pos \in pos..j /\ close \in j..(close + 1) - 1
  BY <1>7, <1>8, Zenon
<1>10. \E a \in pos..j, b \in j..(close + 1) - 1 : src[a] = "{" /\ src[b] = "}"
  BY <1>8, <1>9, Zenon
<1> QED
  BY <1>10, Zenon DEF Blank

LEMMA DirectiveSkips == ASSUME TextInv, ScanDirective PROVE Skips
<1> DEFINE close == FindFrom(pos + 2, {"}"})
           e == IF close < End THEN close + 1 ELSE End
           n == IF close < End THEN 0 ELSE 1
<1>1. Scanning /\ errors \in Nat
  BY DEF TextInv
<1>2. MoveTo(e) /\ UNCHANGED <<src, tokens>> /\ errors' = errors + n
  BY DEF ScanDirective, Errors
<1>3. src[pos] = "{" /\ At(pos + 1) = "$"
  BY DEF ScanDirective
<1>4. e \in pos + 1..End
  BY <1>1, <1>2, DirectiveMoves, MovedThere
<1> HIDE DEF close, e, n
<1>5. pos \in Nat /\ End \in Nat
  BY <1>1, Places
<1>6. pos + 1 < End
  <2>1. At(pos + 1) # ""
    BY <1>3
  <2>2. pos + 1 \in Nat
    BY <1>5
  <2> QED
    BY <1>1, <2>1, <2>2, Present
<1>7. pos + 2 \in pos + 1..End
  BY <1>5, <1>6
<1>9. n \in Nat /\ (n = 0 => close < End /\ e = close + 1)
  BY DEF n, e
<1>10. close \in Nat
  <2>1. pos + 2 \in 1..End
    BY <1>5, <1>6
  <2>2. close \in pos + 2..End
    BY <1>1, <2>1, FindsOn DEF close
  <2> QED
    BY <1>5, <2>2
<1>8. close < End => \A j \in pos..close : Blank(pos, close + 1, j)
  BY <1>1, <1>3, <1>7, <1>10, BracesBlank DEF close
<1>11. n = 0 => \A j \in pos..e - 1 : Blank(pos, e, j)
  BY <1>5, <1>8, <1>9, <1>10
<1> QED
  BY <1>2, <1>4, <1>9, <1>11 DEF Skips

LEMMA BraceCommentSkips == ASSUME TextInv, ScanBraceComment PROVE Skips
<1> DEFINE close == FindFrom(pos + 1, {"}"})
           e == IF close < End THEN close + 1 ELSE End
           n == IF close < End THEN 0 ELSE 1
<1>1. Scanning /\ errors \in Nat
  BY DEF TextInv
<1>2. MoveTo(e) /\ UNCHANGED <<src, tokens>> /\ errors' = errors + n
  BY DEF ScanBraceComment, Errors
<1>3. src[pos] = "{" /\ More
  BY DEF ScanBraceComment
<1>4. e \in pos + 1..End
  BY <1>1, <1>2, BraceCommentMoves, MovedThere
<1> HIDE DEF close, e, n
<1>5. pos \in Nat /\ End \in Nat /\ pos + 1 \in 1..End
  BY <1>1, <1>3, Places
<1>6. pos + 1 \in pos + 1..End
  BY <1>5
<1>8. n \in Nat /\ (n = 0 => close < End /\ e = close + 1)
  BY DEF n, e
<1>9. close \in Nat
  <2>1. close \in pos + 1..End
    BY <1>1, <1>5, FindsOn DEF close
  <2> QED
    BY <1>5, <2>1
<1>7. close < End => \A j \in pos..close : Blank(pos, close + 1, j)
  BY <1>1, <1>3, <1>6, <1>9, BracesBlank DEF close
<1>10. n = 0 => \A j \in pos..e - 1 : Blank(pos, e, j)
  BY <1>5, <1>7, <1>8, <1>9
<1> QED
  BY <1>2, <1>4, <1>8, <1>10 DEF Skips

LEMMA ParenCommentSkips == ASSUME TextInv, ScanParenComment PROVE Skips
<1> DEFINE S == {k \in pos + 2..Len(src) : src[k] = "*" /\ At(k + 1) = ")"}
           close == Least(S \cup {End})
           e == IF close < End THEN close + 2 ELSE End
           n == IF close < End THEN 0 ELSE 1
<1>1. Scanning /\ errors \in Nat
  BY DEF TextInv
<1>2. MoveTo(e) /\ UNCHANGED <<src, tokens>> /\ errors' = errors + n
  BY DEF ScanParenComment, Errors
<1>3. src[pos] = "(" /\ At(pos + 1) = "*"
  BY DEF ScanParenComment
<1>4. e \in pos + 1..End
  BY <1>1, <1>2, ParenCommentMoves, MovedThere
<1>5. n \in Nat /\ (n = 0 => close < End /\ e = close + 2)
  BY DEF n, e
<1> HIDE DEF e, n
<1>6. pos \in Nat /\ End \in Nat
  BY <1>1, Places
<1>7. src[pos + 1] = "*"
  BY <1>3 DEF At
<1>8. ASSUME close < End
      PROVE  close \in Nat /\ close >= pos + 2 /\ src[close] = "*" /\ src[close + 1] = ")"
  <2>1. S \cup {End} \subseteq Nat
    BY <1>6
  <2>2. close \in S \cup {End}
    BY <2>1, LeastIsMember
  <2>3. close # End
    BY <1>6, <1>8
  <2> HIDE DEF close
  <2>4. close \in S
    BY <2>2, <2>3
  <2>5. close \in Nat /\ close >= pos + 2
    BY <1>6, <2>4
  <2>6. src[close] = "*" /\ At(close + 1) = ")"
    BY <2>4
  <2> QED
    BY <2>5, <2>6 DEF At
<1> HIDE DEF close, S
<1>9. ASSUME n = 0 PROVE \A j \in pos..e - 1 : Blank(pos, e, j)
  <2>1. close \in Nat /\ close >= pos + 2 /\ e = close + 2
    BY <1>5, <1>8, <1>9
  <2>2. SUFFICES ASSUME NEW j \in pos..e - 1 PROVE Blank(pos, e, j)
    OBVIOUS
  <2> DEFINE b == close + 1
  <2>3. pos \in pos..j /\ b \in j..e - 1 /\ pos + 2 < b /\ b - 1 = close
    BY <1>6, <2>1, <2>2
  <2>4. src[b] = ")" /\ src[b - 1] = "*"
    BY <1>5, <1>8, <1>9, <2>3
  <2> HIDE DEF b
  <2> QED
    BY <1>3, <1>7, <2>3, <2>4 DEF Blank
<1> QED
  BY <1>2, <1>4, <1>5, <1>9 DEF Skips

\* A scan that emits all it moves over.
LEMMA EmitWrites ==
  ASSUME NEW n \in Nat, NEW e, NEW kind, MoveTo(e), Moved,
         errors' = errors + n, UNCHANGED src, Emit(kind, e)
  PROVE  Writes
<1> DEFINE t == Token(kind, SubSeq(src, pos, e - 1))
<1>1. e \in pos + 1..End
  BY MovedThere
<1>2. tokens' = Append(tokens, t)
  BY DEF Emit
<1>3. t.line = line /\ t.col = col /\ t.text = SubSeq(src, pos, e - 1)
  BY DEF Token
<1> HIDE DEF t
<1> QED
  BY <1>1, <1>2, <1>3 DEF Writes

LEMMA WordWrites == ASSUME TextInv, ScanIdentOrKeyword PROVE Writes
<1>1. Scanning /\ errors \in Nat
  BY DEF TextInv
<1>2. Moved
  BY <1>1, WordMoves
<1>3. errors' = errors + 0
  BY <1>1 DEF ScanIdentOrKeyword, Quiet
<1>4. \E e, kind : MoveTo(e) /\ Emit(kind, e) /\ UNCHANGED src
  BY DEF ScanIdentOrKeyword
<1> QED
  BY <1>2, <1>3, <1>4, EmitWrites

LEMMA HexWrites == ASSUME TextInv, ScanHex PROVE Writes
<1>1. Scanning /\ errors \in Nat
  BY DEF TextInv
<1>2. Moved
  BY <1>1, HexMoves
<1>3. errors' = errors + 0
  BY <1>1 DEF ScanHex, Quiet
<1>4. \E e, kind : MoveTo(e) /\ Emit(kind, e) /\ UNCHANGED src
  BY DEF ScanHex
<1> QED
  BY <1>2, <1>3, <1>4, EmitWrites

LEMMA NumberWrites == ASSUME TextInv, ScanNumber PROVE Writes
<1>1. Scanning /\ errors \in Nat
  BY DEF TextInv
<1>2. Moved
  BY <1>1, NumberMoves
<1>3. \E e, kind, c : /\ MoveTo(e) /\ Emit(kind, e) /\ UNCHANGED src
                      /\ c \in BOOLEAN /\ errors' = errors + (IF c THEN 1 ELSE 0)
  <2> DEFINE int == SkipFrom(pos + 1, Digits)
             frac == IF HasFraction(int) THEN SkipFrom(int + 1, Digits) ELSE int
             digits == IF At(frac + 1) \in {"+", "-"} THEN frac + 2 ELSE frac + 1
             hasExponent == At(frac) \in {"e", "E"}
             e == IF hasExponent THEN SkipFrom(digits, Digits) ELSE frac
             kind == IF HasFraction(int) \/ hasExponent THEN "real" ELSE "int"
             c == hasExponent /\ e = digits
  <2>1. /\ MoveTo(e) /\ Emit(kind, e) /\ UNCHANGED src
        /\ errors' = errors + (IF c THEN 1 ELSE 0)
    BY DEF ScanNumber, Errors
  <2>2. c \in BOOLEAN
    OBVIOUS
  <2> HIDE DEF e, kind, c
  <2> QED
    BY <2>1, <2>2
<1>4. PICK e, kind, c : /\ MoveTo(e) /\ Emit(kind, e) /\ UNCHANGED src
                        /\ c \in BOOLEAN /\ errors' = errors + (IF c THEN 1 ELSE 0)
  BY <1>3
<1>5. (IF c THEN 1 ELSE 0) \in Nat
  OBVIOUS
<1> QED
  BY <1>2, <1>4, <1>5, EmitWrites

LEMMA PunctWrites == ASSUME TextInv, ScanPunct PROVE Writes
<1> DEFINE n == IF src[pos] \in Punctuation THEN 0 ELSE 1
<1>1. Scanning /\ errors \in Nat
  BY DEF TextInv
<1>2. Moved
  BY <1>1, PunctMoves
<1>3. errors' = errors + n
  BY DEF ScanPunct, Errors
<1>4. \E e, kind : MoveTo(e) /\ Emit(kind, e) /\ UNCHANGED src
  BY DEF ScanPunct
<1>5. n \in Nat
  OBVIOUS
<1> HIDE DEF n
<1> QED
  BY <1>2, <1>3, <1>4, <1>5, EmitWrites

LEMMA StringWrites == ASSUME TextInv, ScanString PROVE Writes
<1> DEFINE close == ClosingQuote(pos + 1)
           closed == close < End
           e == IF closed THEN close + 1 ELSE End
           token == Token(IF closed THEN "str" ELSE "error", SubSeq(src, pos, e - 1))
           val == IF closed THEN StringValue(pos + 1, close) ELSE <<>>
           t == [token EXCEPT !.val = val]
           bad == BadCodes(pos + 1, close)
           n == Cardinality(bad) + (IF closed THEN 0 ELSE 1)
<1>1. Scanning /\ errors \in Nat
  BY DEF TextInv
<1>2. MoveTo(e) /\ UNCHANGED src /\ tokens' = Append(tokens, t) /\ errors' = errors + n
  BY DEF ScanString, EmitWith, Errors
<1>3. e \in pos + 1..End
  BY <1>1, <1>2, StringMoves, MovedThere
<1>4. t.line = line /\ t.col = col /\ t.text = SubSeq(src, pos, e - 1)
  BY DEF Token
<1> HIDE DEF t, e
<1>5. n \in Nat
  <2>1. pos + 1 \in Int /\ close - 1 \in Int
    <3>1. pos \in Nat /\ End \in Nat /\ pos + 1 \in 1..End
      BY <1>1, Places DEF ScanString
    <3>2. close \in pos + 1..End
      BY <1>1, <3>1, LeastFrom DEF ClosingQuote
    <3> HIDE DEF close
    <3> QED
      BY <3>1, <3>2
  <2>2. IsFiniteSet(pos + 1..close - 1)
    BY <2>1, FS_Interval
  <2>3. bad \in SUBSET (pos + 1..close - 1)
    BY DEF BadCodes
  <2>4. Cardinality(bad) \in Nat
    BY <2>2, <2>3, FS_Subset, FS_CardinalityType
  <2> HIDE DEF bad, closed
  <2> QED
    BY <2>4
<1> HIDE DEF n
<1> QED
  BY <1>2, <1>3, <1>4, <1>5 DEF Writes

\* The digits of a code are written as they are read, if the first is no zero.
LEMMA NoZerosToDrop ==
  ASSUME NEW T, NEW ds \in Seq(T), Len(ds) >= 1, ds[1] # "0" \/ Len(ds) = 1
  PROVE  WithoutZeros(ds) = ds
<1>7. CASE ds[1] = "0"
  <2>1. ds \in Seq(T) /\ Len(ds) = 1
    BY <1>7
  <2>2. ds = <<"0">> /\ \A k \in DOMAIN ds : ds[k] = "0"
    BY <1>7, <2>1
  <2> QED
    BY <2>2 DEF WithoutZeros
<1>8. CASE ds[1] # "0"
  <2> DEFINE S == {k \in DOMAIN ds : ds[k] # "0"}
  <2>1. Len(ds) \in Nat /\ DOMAIN ds = 1..Len(ds) /\ 1 \in DOMAIN ds
    OBVIOUS
  <2>2. S \subseteq Nat /\ 1 \in S
    BY <1>8, <2>1
  <2>3. Least(S) \in S /\ Least(S) <= 1
    BY <2>2, LeastIsMember, LeastIsLeast
  <2>4. Least(S) = 1
    BY <2>1, <2>3
  <2>5. SubSeq(ds, 1, Len(ds)) = ds
    BY <2>1
  <2>6. ~ (\A k \in DOMAIN ds : ds[k] = "0")
    BY <1>8, <2>1
  <2> QED
    BY <2>4, <2>5, <2>6 DEF WithoutZeros
<1> QED
  BY <1>7, <1>8

LEMMA HashThenDigits ==
  ASSUME NEW a \in Nat, NEW b \in Nat, NEW s \in Seq(STRING), 1 <= a, a < b, b <= Len(s), s[a] = "#"
  PROVE  <<"#">> \o SubSeq(s, a + 1, b) = SubSeq(s, a, b)
<1> DEFINE x == <<"#">> \o SubSeq(s, a + 1, b)
           y == SubSeq(s, a, b)
<1>1. SubSeq(s, a + 1, b) \in Seq(STRING) /\ Len(SubSeq(s, a + 1, b)) = b - a
  OBVIOUS
<1>2. y \in Seq(STRING) /\ Len(y) = b - a + 1
  OBVIOUS
<1>3. x \in Seq(STRING) /\ Len(x) = b - a + 1
  BY <1>1
<1>4. ASSUME NEW k \in 1..b - a + 1 PROVE x[k] = y[k]
  <2>1. CASE k = 1
    BY <1>1, <2>1
  <2>2. CASE k # 1
    <3>1. k - 1 \in 1..b - a
      BY <2>2
    <3>2. x[k] = SubSeq(s, a + 1, b)[k - 1]
      BY <1>1, <2>2, <3>1
    <3>3. SubSeq(s, a + 1, b)[k - 1] = s[a + 1 + (k - 1) - 1]
      BY <1>1, <3>1
    <3>4. y[k] = s[a + k - 1]
      BY <1>2
    <3>5. a + 1 + (k - 1) - 1 = a + k - 1
      BY <2>2
    <3> QED
      BY <3>2, <3>3, <3>4, <3>5
  <2> QED
    BY <2>1, <2>2
<1> HIDE DEF x, y
<1>5. x = y
  BY <1>2, <1>3, <1>4
<1> QED
  BY <1>5 DEF x, y

LEMMA HashRefKeeps == ASSUME TextInv, ScanHashRef PROVE Skips \/ Writes
<1> DEFINE e == SkipFrom(pos + 1, Digits)
           digits == SubSeq(src, pos + 1, e - 1)
           token == Token("int", <<"#">> \o WithoutZeros(digits))
           t == [token EXCEPT !.val = <<NumberOf(digits)>>]
<1>1. Scanning /\ errors \in Nat /\ CodesPlain
  BY DEF TextInv
<1>2. MoveTo(e) /\ UNCHANGED src /\ src[pos] = "#"
  BY DEF ScanHashRef
<1>3. e \in pos + 1..End
  BY <1>1, <1>2, HashRefMoves, MovedThere
<1>4. CASE e = pos + 1
  <2>1. errors' = errors + 1 /\ UNCHANGED tokens
    BY <1>4 DEF ScanHashRef, Errors
  <2> HIDE DEF e
  <2>2. 1 \in Nat /\ 1 # 0
    OBVIOUS
  <2>3. Skips
    BY <1>2, <1>3, <2>1, <2>2 DEF Skips
  <2> QED
    BY <2>3
<1>5. CASE e # pos + 1
  <2>1. tokens' = Append(tokens, t) /\ errors' = errors + 0
    BY <1>1, <1>5 DEF ScanHashRef, EmitWith, Quiet
  <2>2. t.line = line /\ t.col = col /\ t.text = <<"#">> \o WithoutZeros(digits)
    BY DEF Token
  <2> HIDE DEF t, e
  <2>3. pos \in Nat /\ End \in Nat /\ pos >= 1 /\ src \in Seq(STRING) /\ End = Len(src) + 1
    BY <1>1, Places DEF Scanning, End
  <2>4. e \in Nat /\ pos + 1 < e /\ e <= End
    BY <1>3, <1>5, <2>3
  <2>5. digits \in Seq(STRING) /\ Len(digits) = e - 1 - pos /\ Len(digits) >= 1 /\ digits[1] = src[pos + 1]
    BY <2>3, <2>4
  <2>6. digits[1] # "0" \/ Len(digits) = 1
    <3> SUFFICES ASSUME Len(digits) # 1 PROVE digits[1] # "0"
      OBVIOUS
    <3>0. pos + 2 \in pos + 1..e - 1 /\ pos + 2 < End
      BY <2>3, <2>4, <2>5
    <3>3. At(pos + 2) \in Digits
      <4> DEFINE S == {j \in pos + 1..Len(src) : src[j] \notin Digits}
      <4>1. pos + 1 \in 1..End /\ pos + 2 \in pos + 1..Len(src)
        BY <2>3, <2>4, <3>0
      <4>2. pos + 2 \notin S
        BY <1>1, <3>0, <4>1, PassedOver DEF e, SkipFrom
      <4>3. src[pos + 2] \in Digits
        BY <4>1, <4>2
      <4> QED
        BY <3>0, <4>3 DEF At
    <3>1. At(pos + 1) # "0"
      BY <1>1, <1>2, <2>3, <2>4, <3>3 DEF CodesPlain
    <3>2. At(pos + 1) = src[pos + 1]
      <4>1. pos + 1 < End
        BY <2>3, <2>4
      <4> QED
        BY <4>1 DEF At
    <3> QED
      BY <2>5, <3>1, <3>2
  <2>7. WithoutZeros(digits) = digits
    BY <2>5, <2>6, NoZerosToDrop
  <2> DEFINE b == e - 1
  <2>8. b \in Nat /\ pos < b /\ b <= Len(src)
    BY <2>3, <2>4
  <2> HIDE DEF b
  <2>9. <<"#">> \o SubSeq(src, pos + 1, b) = SubSeq(src, pos, b)
    BY <1>2, <2>3, <2>8, HashThenDigits
  <2>10. t.text = SubSeq(src, pos, e - 1)
    BY <2>2, <2>7, <2>9 DEF b
  <2> HIDE DEF digits
  <2>11. Writes
    BY <1>2, <1>3, <2>1, <2>2, <2>10 DEF Writes
  <2> QED
    BY <2>11
<1> QED
  BY <1>4, <1>5

LEMMA ScanKeepsText ==
  ASSUME TextInv, Scan
  PROVE  TextInv'
<1>1. Skips \/ Writes
  BY BlanksSkip, DirectiveSkips, ParenCommentSkips, BraceCommentSkips, StringWrites, HashRefKeeps,
     WordWrites, HexWrites, NumberWrites, PunctWrites DEF Scan
<1>2. Scanning /\ Placed /\ errors \in Nat
  BY DEF TextInv
<1>3. Scanning'
  BY <1>2, StaysScanning DEF LexNext
<1>4. CASE Skips
  BY <1>3, <1>4, SkipKeepsText
<1>5. CASE Writes
  <2>1. PICK n \in Nat : \E e \in pos + 1..End : \E t :
          /\ MoveTo(e)
          /\ errors' = errors + n
          /\ UNCHANGED src
          /\ tokens' = Append(tokens, t)
          /\ t.line = line /\ t.col = col /\ t.text = SubSeq(src, pos, e - 1)
    BY <1>5 DEF Writes
  <2>1a. PICK e \in pos + 1..End : \E t :
          /\ MoveTo(e)
          /\ errors' = errors + n
          /\ UNCHANGED src
          /\ tokens' = Append(tokens, t)
          /\ t.line = line /\ t.col = col /\ t.text = SubSeq(src, pos, e - 1)
    BY <2>1
  <2>2. PICK t :
          /\ MoveTo(e)
          /\ errors' = errors + n
          /\ UNCHANGED src
          /\ tokens' = Append(tokens, t)
          /\ t.line = line /\ t.col = col /\ t.text = SubSeq(src, pos, e - 1)
    BY <2>1a
  <2>3. Placed'
    BY <1>2, <2>2, MovingKeepsPlaced
  <2>4. pos' = e /\ e \in pos..End
    <3>1. pos \in Nat /\ End \in Nat
      BY <1>2, Places
    <3>2. e \in pos..End
      BY <3>1
    <3> QED
      BY <2>2, <3>2 DEF MoveTo
  <2> QED
    BY <1>3, <2>2, <2>3, <2>4, TokenKeepsText
<1> QED
  BY <1>1, <1>4, <1>5

LEMMA EofKeepsText ==
  ASSUME TextInv, EmitEof
  PROVE  TextInv'
<1> DEFINE t == Token("eof", <<>>)
<1>1. Scanning /\ Placed /\ errors \in Nat
  BY DEF TextInv
<1>2. Scanning'
  BY <1>1, StaysScanning DEF LexNext
<1>3. /\ UNCHANGED <<src, pos, line, col, errors>> /\ pos = End
      /\ tokens' = Append(tokens, t)
  BY DEF EmitEof
<1>4. Placed'
  BY <1>1, <1>3 DEF Placed, End, StartsLine, Newlines
<1>5. t.line = line /\ t.col = col /\ t.text = <<>>
  BY DEF Token
<1> HIDE DEF t
<1>6. pos \in Nat /\ End \in Nat /\ pos \in pos..End
  <2>1. pos \in Nat /\ End \in Nat
    BY <1>1, Places
  <2> QED
    BY <1>3, <2>1
<1>7. SubSeq(src, pos, pos - 1) = <<>>
  BY <1>1, <1>6 DEF Scanning
<1>8. errors' = errors + 0
  BY <1>1, <1>3
<1> QED
  BY <1>2, <1>3, <1>4, <1>5, <1>6, <1>7, <1>8, TokenKeepsText

(* Nothing of a text is dropped in silence, of whatever length and         *)
(* characters it is: every token stands where its line and column say,     *)
(* with the text it has, and between two of them there is only white space *)
(* and comment unless an error is reported.  CodesPlain leaves out texts   *)
(* with a # and a code that itoa, in scanHashRef, spells in another way    *)
(* than the text does: the token's text is then not what was read.         *)
THEOREM NothingIsDropped == CodesPlain /\ LexSpec => []NothingDropped
<1>1. CodesPlain /\ src \in Seq(STRING) /\ LexInit => TextInv
  <2> SUFFICES ASSUME CodesPlain, src \in Seq(STRING), LexInit PROVE TextInv
    OBVIOUS
  <2>1. Len(src) \in Nat /\ End = Len(src) + 1 /\ 1 \in 1..End /\ 1 \in 1..1
    BY DEF End
  <2>2. pos = 1 /\ line = 1 /\ col = 1 /\ tokens = <<>> /\ errors = 0
    BY DEF LexInit
  <2>3. Scanning
    <3>1. tokens \in Seq({})
      BY <2>2
    <3> QED
      BY <2>1, <2>2, <3>1 DEF Scanning
  <2>4. Placed
    BY StartIsPlaced
  <2>5. GapBlank
    BY <2>2 DEF GapBlank, After
  <2>6. NothingDropped
    BY <2>2 DEF NothingDropped
  <2> QED
    BY <2>2, <2>3, <2>4, <2>5, <2>6 DEF TextInv
<1>2. TextInv /\ [LexNext]_lexVars => TextInv'
  <2> SUFFICES ASSUME TextInv, [LexNext]_lexVars PROVE TextInv'
    OBVIOUS
  <2>1. CASE Scan
    BY <2>1, ScanKeepsText
  <2>2. CASE EmitEof
    BY <2>2, EofKeepsText
  <2>3. CASE UNCHANGED lexVars
    <3>1. UNCHANGED <<src, pos, line, col, tokens, errors>>
      BY <2>3 DEF lexVars
    <3>2. Scanning' /\ CodesPlain' /\ Placed'
      BY <3>1, SameText DEF TextInv, Scanning, Placed, End, StartsLine, Newlines
    <3>3. GapBlank'
      <4>1. After' = After
        BY <3>1, SameText DEF After
      <4> QED
        BY <3>1, <4>1, SameText DEF TextInv, GapBlank
    <3>4. NothingDropped'
      BY <3>1, SameText DEF TextInv, NothingDropped
    <3> QED
      BY <3>1, <3>2, <3>3, <3>4 DEF TextInv
  <2> QED
    BY <2>1, <2>2, <2>3 DEF LexNext
<1>3. TextInv => NothingDropped
  BY DEF TextInv
<1> QED
  BY <1>1, <1>2, <1>3, PTL DEF LexSpec
=============================================================================
