--------------------------- MODULE WrittenProofs ---------------------------
(***************************************************************************)
(* What was written is what is read, of texts with any number of tokens in *)
(* any layout.  The grammar of Written says what stands at a place; here   *)
(* each scan is shown to find exactly that, one lemma of the form "...Read" *)
(* for every kind of token and layout, and no other scan to apply.  The    *)
(* invariant ReadSoFar then says how far the reading has come.             *)
(***************************************************************************)
EXTENDS Written, LexerProofs

\* The least of a set, where it is known.
LEMMA LeastIs ==
  ASSUME NEW S, S \subseteq Nat, NEW x \in S, \A y \in S : x <= y
  PROVE  Least(S) = x
<1>1. Least(S) \in S /\ Least(S) <= x
  BY LeastIsMember, LeastIsLeast
<1>2. Least(S) \in Nat /\ x \in Nat /\ x <= Least(S)
  BY <1>1
<1> QED
  BY <1>1, <1>2

\* A scan over a range that lies in the class and ends it.
LEMMA SkipExact ==
  ASSUME Scanning, NEW a \in Nat, NEW e \in a..End, NEW class, a >= 1,
         All(a, e, class), At(e) \notin class
  PROVE  SkipFrom(a, class) = e
<1> DEFINE S == {j \in a..Len(src) : src[j] \notin class}
<1>1. Len(src) \in Nat /\ End = Len(src) + 1 /\ End \in Nat /\ e \in Nat /\ a <= e /\ e <= End
  BY Places DEF Scanning, End
<1>2. S \cup {End} \subseteq Nat
  BY <1>1
<1>3. e \in S \cup {End}
  <2>1. CASE e = End
    BY <2>1
  <2>2. CASE e # End
    <3>1. e < End /\ e \in a..Len(src)
      BY <1>1, <2>2
    <3>2. src[e] \notin class
      BY <3>1 DEF At
    <3> QED
      BY <3>1, <3>2
  <2> QED
    BY <2>1, <2>2
<1>4. ASSUME NEW y \in S \cup {End} PROVE e <= y
  <2>1. CASE y = End
    BY <1>1, <2>1
  <2>2. CASE y \in S
    <3>1. y \in a..Len(src) /\ src[y] \notin class /\ y \in Nat
      BY <1>1, <2>2
    <3>2. y \notin a..e - 1
      BY <3>1 DEF All
    <3> QED
      BY <1>1, <3>1, <3>2
  <2> QED
    BY <2>1, <2>2
<1>5. Least(S \cup {End}) = e
  <2> HIDE DEF S
  <2> QED
    BY <1>2, <1>3, <1>4, LeastIs
<1> QED
  BY <1>5 DEF SkipFrom

\* A place one looks for, with none before it.
LEMMA LeastExact ==
  ASSUME Scanning, NEW a \in Nat, NEW S, S \subseteq a..Len(src), NEW x \in S,
         \A j \in a..x - 1 : j \notin S
  PROVE  Least(S \cup {End}) = x
<1>1. Len(src) \in Nat /\ End = Len(src) + 1 /\ End \in Nat
  BY Places DEF Scanning, End
<1>2. S \cup {End} \subseteq Nat
  <2>1. a..Len(src) \subseteq Nat
    BY <1>1
  <2> QED
    BY <1>1, <2>1
<1>3. x \in Nat /\ x <= Len(src)
  <2>1. x \in a..Len(src)
    OBVIOUS
  <2> QED
    BY <1>1, <2>1
<1>4. ASSUME NEW y \in S PROVE x <= y
  <2>1. y \in a..Len(src)
    OBVIOUS
  <2>2. y \in Nat /\ a <= y /\ y \notin a..x - 1
    BY <1>1, <2>1
  <2> QED
    BY <1>3, <2>2
<1>5. \A y \in S \cup {End} : x <= y
  BY <1>1, <1>3, <1>4
<1> QED
  BY <1>2, <1>5, LeastIs

-----------------------------------------------------------------------------
(* Which scan applies. *)

\* The characters that begin different scans are different.
LEMMA Apart ==
  /\ \A c \in White : c \notin {"{", "(", "'", "#", "$"} \cup IdentStart \cup Digits
  /\ \A c \in IdentStart : c \notin {"{", "(", "'", "#", "$"} \cup Digits
  /\ \A c \in Digits : c \notin {"{", "(", "'", "#", "$"}
  /\ \A c \in Punctuation : c \notin {"{", "'", "#", "$"} \cup White \cup IdentStart \cup Digits
  BY DEF White, Digits, IdentStart, Lower, Upper, Punctuation, OpChars

\* The guards of the scans.
LEMMA Guarded ==
  ASSUME Scan
  PROVE  /\ More
         /\ \/ SkipWhitespace /\ src[pos] \in White
            \/ ScanDirective /\ src[pos] = "{" /\ At(pos + 1) = "$"
            \/ ScanBraceComment /\ src[pos] = "{" /\ At(pos + 1) # "$"
            \/ ScanParenComment /\ src[pos] = "(" /\ At(pos + 1) = "*"
            \/ ScanString /\ src[pos] = "'"
            \/ ScanHashRef /\ src[pos] = "#" /\ LastTokenWasString
            \/ ScanIdentOrKeyword /\ src[pos] \in IdentStart
            \/ ScanHex /\ src[pos] = "$" /\ At(pos + 1) \in HexDigits
            \/ ScanNumber /\ src[pos] \in Digits
            \/ /\ ScanPunct
               /\ src[pos] \notin White \cup {"{", "'"} \cup IdentStart \cup Digits
               /\ ~(src[pos] = "(" /\ At(pos + 1) = "*")
               /\ ~(src[pos] = "#" /\ LastTokenWasString)
               /\ ~(src[pos] = "$" /\ At(pos + 1) \in HexDigits)
<1>1. SkipWhitespace => More /\ src[pos] \in White
  BY DEF SkipWhitespace
<1>2. ScanDirective => More /\ src[pos] = "{" /\ At(pos + 1) = "$"
  BY DEF ScanDirective
<1>3. ScanBraceComment => More /\ src[pos] = "{" /\ At(pos + 1) # "$"
  BY DEF ScanBraceComment
<1>4. ScanParenComment => More /\ src[pos] = "(" /\ At(pos + 1) = "*"
  BY DEF ScanParenComment
<1>5. ScanString => More /\ src[pos] = "'"
  BY DEF ScanString
<1>6. ScanHashRef => More /\ src[pos] = "#" /\ LastTokenWasString
  BY DEF ScanHashRef
<1>7. ScanIdentOrKeyword => More /\ src[pos] \in IdentStart
  BY DEF ScanIdentOrKeyword
<1>8. ScanHex => More /\ src[pos] = "$" /\ At(pos + 1) \in HexDigits
  BY DEF ScanHex
<1>9. ScanNumber => More /\ src[pos] \in Digits
  BY DEF ScanNumber
<1>10. ScanPunct => /\ More
                    /\ src[pos] \notin White \cup {"{", "'"} \cup IdentStart \cup Digits
                    /\ ~(src[pos] = "(" /\ At(pos + 1) = "*")
                    /\ ~(src[pos] = "#" /\ LastTokenWasString)
                    /\ ~(src[pos] = "$" /\ At(pos + 1) \in HexDigits)
  BY DEF ScanPunct
<1> QED
  BY <1>1, <1>2, <1>3, <1>4, <1>5, <1>6, <1>7, <1>8, <1>9, <1>10, Zenon DEF Scan

LEMMA OneScanApplies ==
  ASSUME Scan
  PROVE  /\ src[pos] \in White => SkipWhitespace
         /\ src[pos] = "{" => ScanDirective \/ ScanBraceComment
         /\ src[pos] = "(" /\ At(pos + 1) = "*" => ScanParenComment
         /\ src[pos] = "'" => ScanString
         /\ src[pos] = "#" /\ LastTokenWasString => ScanHashRef
         /\ src[pos] \in IdentStart => ScanIdentOrKeyword
         /\ src[pos] = "$" /\ At(pos + 1) \in HexDigits => ScanHex
         /\ src[pos] \in Digits => ScanNumber
         /\ src[pos] \in Punctuation /\ ~(src[pos] = "(" /\ At(pos + 1) = "*") => ScanPunct
<1> DEFINE c == src[pos]
           n == At(pos + 1)
<1>0. \/ SkipWhitespace /\ c \in White
      \/ ScanDirective /\ c = "{"
      \/ ScanBraceComment /\ c = "{"
      \/ ScanParenComment /\ c = "(" /\ n = "*"
      \/ ScanString /\ c = "'"
      \/ ScanHashRef /\ c = "#" /\ LastTokenWasString
      \/ ScanIdentOrKeyword /\ c \in IdentStart
      \/ ScanHex /\ c = "$" /\ n \in HexDigits
      \/ ScanNumber /\ c \in Digits
      \/ /\ ScanPunct
         /\ c \notin White \cup {"{", "'"} \cup IdentStart \cup Digits
         /\ ~(c = "(" /\ n = "*") /\ ~(c = "#" /\ LastTokenWasString) /\ ~(c = "$" /\ n \in HexDigits)
  BY Guarded, Zenon
<1> HIDE DEF c, n
<1>1. c \in White => SkipWhitespace
  BY <1>0, Apart
<1>2. c = "{" => ScanDirective \/ ScanBraceComment
  BY <1>0, Apart
<1>3. c = "(" /\ n = "*" => ScanParenComment
  BY <1>0, Apart
<1>4. c = "'" => ScanString
  BY <1>0, Apart
<1>5. c = "#" /\ LastTokenWasString => ScanHashRef
  BY <1>0, Apart
<1>6. c \in IdentStart => ScanIdentOrKeyword
  BY <1>0, Apart
<1>7. c = "$" /\ n \in HexDigits => ScanHex
  BY <1>0, Apart
<1>8. c \in Digits => ScanNumber
  BY <1>0, Apart
<1>9. c \in Punctuation /\ ~(c = "(" /\ n = "*") => ScanPunct
  BY <1>0, Apart
<1> QED
  BY <1>1, <1>2, <1>3, <1>4, <1>5, <1>6, <1>7, <1>8, <1>9, Zenon DEF c, n

-----------------------------------------------------------------------------
(* What lies between the tokens is skipped. *)

Skipped(e) == MoveTo(e) /\ UNCHANGED <<src, tokens, errors>>

LEMMA WhiteRead ==
  ASSUME Scanning, NEW e \in pos + 1..End, Run(pos, e, White), SkipWhitespace
  PROVE  Skipped(e)
<1>1. pos \in Nat /\ End \in Nat /\ pos + 1 \in Nat /\ pos + 1 >= 1
  BY Places
<1>2. All(pos + 1, e, White) /\ At(e) \notin White
  BY <1>1 DEF Run, All
<1>3. SkipFrom(pos + 1, White) = e
  BY <1>1, <1>2, SkipExact
<1> QED
  BY <1>3 DEF SkipWhitespace, Skipped

LEMMA BracesRead ==
  ASSUME Scanning, errors \in Nat, NEW e \in pos + 1..End, BracesAt(pos, e),
         ScanDirective \/ ScanBraceComment
  PROVE  Skipped(e)
<1> DEFINE close == e - 1
<1>1. pos \in Nat /\ End \in Nat /\ End = Len(src) + 1 /\ Len(src) \in Nat
  BY Places DEF Scanning, End
<1>2. close \in Nat /\ pos + 1 <= close /\ close + 1 = e /\ close < End /\ close <= Len(src)
  <2>1. e \in Nat /\ e <= End
    BY <1>1
  <2>2. pos + 1 < e
    BY DEF BracesAt
  <2> QED
    BY <1>1, <2>1, <2>2
<1>3. src[close] = "}" /\ \A j \in pos + 1..close - 1 : src[j] # "}"
  <2>1. close - 1 = e - 2
    BY <1>1
  <2> QED
    BY <2>1 DEF BracesAt
<1>4. ASSUME NEW k \in {pos + 1, pos + 2}, k <= close
      PROVE  FindFrom(k, {"}"}) = close
  <2> HIDE DEF close
  <2> DEFINE S == {j \in k..Len(src) : src[j] \in {"}"}}
  <2>1. k \in Nat /\ k >= pos + 1
    BY <1>1
  <2>2. close \in S
    <3>1. close \in k..Len(src)
      BY <1>1, <1>2, <1>4, <2>1
    <3> QED
      BY <1>3, <3>1
  <2>3. \A j \in k..close - 1 : j \notin S
    <3>1. \A j \in k..close - 1 : j \in pos + 1..close - 1
      BY <1>1, <1>2, <2>1
    <3> QED
      BY <1>3, <3>1
  <2>4. S \subseteq k..Len(src)
    OBVIOUS
  <2>5. Least(S \cup {End}) = close
    <3> HIDE DEF S
    <3> QED
      BY <2>1, <2>2, <2>3, <2>4, LeastExact
  <2> QED
    BY <2>5 DEF FindFrom
<1>5. CASE ScanBraceComment
  <2>1. FindFrom(pos + 1, {"}"}) = close
    BY <1>2, <1>4
  <2> HIDE DEF close
  <2>2. /\ MoveTo(IF close < End THEN close + 1 ELSE End)
        /\ Errors(IF close < End THEN 0 ELSE 1) /\ UNCHANGED <<src, tokens>>
    BY <1>5, <2>1 DEF ScanBraceComment
  <2>3. MoveTo(e) /\ Errors(0) /\ UNCHANGED <<src, tokens>>
    BY <1>2, <2>2
  <2> QED
    BY <2>3 DEF Errors, Skipped
<1>6. CASE ScanDirective
  <2>1. At(pos + 1) = "$"
    BY <1>6 DEF ScanDirective
  <2>2. pos + 1 # close
    <3>1. close = pos + 1 => At(pos + 1) = "}"
      BY <1>2, <1>3 DEF At
    <3> QED
      BY <2>1, <3>1
  <2>3. pos + 2 <= close
    BY <1>1, <1>2, <2>2
  <2>4. FindFrom(pos + 2, {"}"}) = close
    BY <1>4, <2>3
  <2> HIDE DEF close
  <2>5. /\ MoveTo(IF close < End THEN close + 1 ELSE End)
        /\ Errors(IF close < End THEN 0 ELSE 1) /\ UNCHANGED <<src, tokens>>
    BY <1>6, <2>4 DEF ScanDirective
  <2>6. MoveTo(e) /\ Errors(0) /\ UNCHANGED <<src, tokens>>
    BY <1>2, <2>5
  <2> QED
    BY <2>6 DEF Errors, Skipped
<1> QED
  BY <1>5, <1>6

LEMMA ParensRead ==
  ASSUME Scanning, errors \in Nat, NEW e \in pos + 1..End, ParensAt(pos, e), ScanParenComment
  PROVE  Skipped(e)
<1> DEFINE close == e - 2
           S == {k \in pos + 2..Len(src) : src[k] = "*" /\ At(k + 1) = ")"}
<1>1. pos \in Nat /\ End \in Nat /\ End = Len(src) + 1 /\ Len(src) \in Nat
  BY Places DEF Scanning, End
<1>2. close \in Nat /\ pos + 2 <= close /\ close + 2 = e /\ close + 1 < End /\ close <= Len(src) /\ close < End
      /\ close + 1 = e - 1 /\ close - 1 = e - 3
  BY <1>1 DEF ParensAt
<1>3. src[close] = "*" /\ src[close + 1] = ")"
      /\ \A j \in pos + 2..close - 1 : ~(src[j] = "*" /\ src[j + 1] = ")")
  BY <1>2 DEF ParensAt
<1> HIDE DEF close
<1>4. close \in S
  BY <1>1, <1>2, <1>3 DEF At
<1>5. ASSUME NEW j \in pos + 2..close - 1 PROVE j \notin S
  <2>1. j + 1 < End
    BY <1>1, <1>2
  <2> QED
    BY <1>3, <2>1 DEF At
<1>6. pos + 2 \in Nat /\ S \subseteq pos + 2..Len(src)
  BY <1>1
<1>7. Least(S \cup {End}) = close
  <2> HIDE DEF S
  <2> QED
    BY <1>4, <1>5, <1>6, LeastExact
<1>8. /\ MoveTo(IF close < End THEN close + 2 ELSE End)
      /\ Errors(IF close < End THEN 0 ELSE 1) /\ UNCHANGED <<src, tokens>>
  BY <1>7 DEF ScanParenComment
<1>9. MoveTo(e) /\ Errors(0) /\ UNCHANGED <<src, tokens>>
  BY <1>2, <1>8
<1> QED
  BY <1>9 DEF Errors, Skipped

\* Where a gap goes on, a scan skips white space or a comment of it.
LEMMA LayoutRead ==
  ASSUME Scanning, errors \in Nat, NEW e \in pos + 1..End, Layout(pos, e), Scan
  PROVE  Skipped(e)
<1>1. CASE Run(pos, e, White)
  <2>1. pos \in pos..e - 1
    BY Places
  <2>2. src[pos] \in White
    BY <1>1, <2>1 DEF Run, All
  <2> QED
    BY <1>1, <2>2, OneScanApplies, WhiteRead
<1>2. CASE BracesAt(pos, e)
  BY <1>2, OneScanApplies, BracesRead DEF BracesAt
<1>3. CASE ParensAt(pos, e)
  <2>1. pos + 1 < End
    BY <1>3, Places DEF ParensAt
  <2>2. src[pos] = "(" /\ At(pos + 1) = "*"
    BY <1>3, <2>1 DEF ParensAt, At
  <2> QED
    BY <1>3, <2>2, OneScanApplies, ParensRead
<1> QED
  BY <1>1, <1>2, <1>3 DEF Layout

-----------------------------------------------------------------------------
(* What a token is written as is what is read, by kind. *)

Read(kind, e) ==
  /\ MoveTo(e)
  /\ UNCHANGED <<src, errors>>
  /\ \E t : /\ tokens' = Append(tokens, t)
            /\ t.kind = kind
            /\ t.line = line /\ t.col = col /\ t.text = SubSeq(src, pos, e - 1)

LEMMA EmitReads ==
  ASSUME NEW kind, NEW e, MoveTo(e), Emit(kind, e), UNCHANGED <<src, errors>>
  PROVE  Read(kind, e)
<1> DEFINE t == Token(kind, SubSeq(src, pos, e - 1))
<1>1. tokens' = Append(tokens, t)
  BY DEF Emit
<1>2. t.kind = kind /\ t.line = line /\ t.col = col /\ t.text = SubSeq(src, pos, e - 1)
  BY DEF Token
<1> HIDE DEF t
<1> QED
  BY <1>1, <1>2 DEF Read

\* A run that starts one place earlier, and its first character.
LEMMA RunFrom ==
  ASSUME Scanning, NEW a \in Nat, a >= 1, NEW e \in Nat, e <= End, NEW class, Run(a, e, class)
  PROVE  /\ a < e /\ a < End
         /\ src[a] \in class /\ At(a) \in class
         /\ SkipFrom(a, class) = e /\ SkipFrom(a + 1, class) = e
<1>1. End \in Nat /\ a < e /\ a < End /\ a \in a..e - 1
  <2>1. End \in Nat /\ a < e
    BY Places DEF Run
  <2> QED
    BY <2>1
<1>2. src[a] \in class /\ At(a) \in class
  BY <1>1 DEF Run, All, At
<1>3. e \in a..End /\ e \in a + 1..End /\ a + 1 \in Nat /\ a + 1 >= 1
  BY <1>1
<1>4. All(a, e, class) /\ All(a + 1, e, class) /\ At(e) \notin class
  BY <1>1 DEF Run, All
<1> QED
  BY <1>1, <1>2, <1>3, <1>4, SkipExact

LEMMA NameRead ==
  ASSUME Scanning, NEW e \in pos + 1..End, NameAt(pos, e), ScanIdentOrKeyword
  PROVE  Read(IF Reserved(SubSeq(src, pos, e - 1)) THEN "keyword" ELSE "ident", e)
<1>1. pos \in Nat /\ pos >= 1 /\ End \in Nat
  BY Places
<1>2. e \in Nat /\ e <= End
  BY <1>1
<1>3. SkipFrom(pos + 1, IdentCont) = e
  BY <1>1, <1>2, RunFrom DEF NameAt
<1> DEFINE kind == IF Reserved(SubSeq(src, pos, e - 1)) THEN "keyword" ELSE "ident"
<1>4. MoveTo(e) /\ UNCHANGED <<src, errors>>
  BY <1>3 DEF ScanIdentOrKeyword, Quiet
<1>5. Emit(kind, e)
  BY <1>3 DEF ScanIdentOrKeyword, Reserved
<1> HIDE DEF kind
<1>6. Read(kind, e)
  BY <1>4, <1>5, EmitReads
<1> QED
  BY <1>6 DEF kind

LEMMA HexRead ==
  ASSUME Scanning, NEW e \in pos + 1..End, HexAt(pos, e), ScanHex
  PROVE  Read("hex", e)
<1>1. pos \in Nat /\ pos >= 1 /\ End \in Nat
  BY Places
<1>2. e \in Nat /\ e <= End /\ pos + 1 \in Nat /\ pos + 1 >= 1
  BY <1>1
<1>3. SkipFrom(pos + 1, HexDigits) = e
  BY <1>2, RunFrom DEF HexAt
<1>4. MoveTo(e) /\ Emit("hex", e) /\ UNCHANGED <<src, errors>>
  BY <1>3 DEF ScanHex, Quiet
<1> QED
  BY <1>4, EmitReads

\* A number, once it is known where its parts end.
LEMMA NumberParts ==
  ASSUME Scanning, errors \in Nat, ScanNumber,
         NEW int, int = SkipFrom(pos + 1, Digits),
         NEW frac, frac = IF HasFraction(int) THEN SkipFrom(int + 1, Digits) ELSE int,
         NEW digits, digits = IF At(frac + 1) \in {"+", "-"} THEN frac + 2 ELSE frac + 1,
         NEW e, e = IF At(frac) \in {"e", "E"} THEN SkipFrom(digits, Digits) ELSE frac,
         At(frac) \in {"e", "E"} => e # digits,
         NEW kind, kind = IF HasFraction(int) \/ At(frac) \in {"e", "E"} THEN "real" ELSE "int"
  PROVE  Read(kind, e)
<1>1. MoveTo(e) /\ Emit(kind, e) /\ Errors(IF At(frac) \in {"e", "E"} /\ e = digits THEN 1 ELSE 0)
      /\ UNCHANGED src
  BY Zenon DEF ScanNumber
<1>2. errors' = errors + 0
  BY <1>1 DEF Errors
<1>3. errors' = errors
  BY <1>2
<1> QED
  BY <1>1, <1>3, EmitReads

LEMMA IntegerRead ==
  ASSUME Scanning, errors \in Nat, NEW e \in pos + 1..End, IntegerAt(pos, e), ScanNumber
  PROVE  Read("int", e)
<1>1. pos \in Nat /\ pos >= 1 /\ End \in Nat
  BY Places
<1>2. e \in Nat /\ e <= End
  BY <1>1
<1>3. SkipFrom(pos + 1, Digits) = e
  BY <1>1, <1>2, RunFrom DEF IntegerAt
<1>4. ~HasFraction(e) /\ At(e) \notin {"e", "E"}
  BY DEF IntegerAt, HasFraction, Exponent
<1>5. e = IF HasFraction(e) THEN SkipFrom(e + 1, Digits) ELSE e
  BY <1>4
<1> DEFINE digits == IF At(e + 1) \in {"+", "-"} THEN e + 2 ELSE e + 1
<1>6. e = IF At(e) \in {"e", "E"} THEN SkipFrom(digits, Digits) ELSE e
  BY <1>4
<1>7. "int" = IF HasFraction(e) \/ At(e) \in {"e", "E"} THEN "real" ELSE "int"
  BY <1>4
<1> QED
  BY <1>3, <1>4, <1>5, <1>6, <1>7, NumberParts, Zenon

LEMMA RealRead ==
  ASSUME Scanning, errors \in Nat, NEW e \in pos + 1..End, RealAt(pos, e), ScanNumber
  PROVE  Read("real", e)
<1>1. pos \in Nat /\ pos >= 1 /\ End \in Nat
  BY Places
<1>2. e \in Nat /\ e <= End
  BY <1>1
<1>3. PICK m \in pos..e, f \in pos..e :
        /\ Run(pos, m, Digits)
        /\ f = m \/ (At(m) = "." /\ Run(m + 1, f, Digits))
        /\ \/ f = e /\ f # m /\ At(e) \notin Exponent
           \/ /\ At(f) \in Exponent
              /\ \/ Run(f + 1, e, Digits)
                 \/ At(f + 1) \in {"+", "-"} /\ Run(f + 2, e, Digits)
  BY DEF RealAt
<1>4. m \in Nat /\ f \in Nat /\ m <= End /\ f <= End /\ m >= 1 /\ f >= 1
  BY <1>1, <1>2
<1>5. SkipFrom(pos + 1, Digits) = m
  BY <1>1, <1>3, <1>4, RunFrom
<1>6. /\ HasFraction(m) <=> f # m
      /\ HasFraction(m) => SkipFrom(m + 1, Digits) = f
  <2>1. CASE f = m
    <3>1. At(m) \in {"e", "E"}
      BY <1>3, <2>1 DEF Exponent
    <3>2. ~HasFraction(m)
      BY <3>1 DEF HasFraction
    <3> QED
      BY <2>1, <3>2
  <2>2. CASE f # m
    <3>1. At(m) = "." /\ Run(m + 1, f, Digits)
      BY <1>3, <2>2
    <3>2. m + 1 \in Nat /\ m + 1 >= 1
      BY <1>4
    <3>3. At(m + 1) \in Digits /\ SkipFrom(m + 1, Digits) = f
      BY <1>4, <3>1, <3>2, RunFrom
    <3> QED
      BY <2>2, <3>1, <3>3 DEF HasFraction
  <2> QED
    BY <2>1, <2>2
<1>7. f = IF HasFraction(m) THEN SkipFrom(m + 1, Digits) ELSE m
  BY <1>6
<1> DEFINE digits == IF At(f + 1) \in {"+", "-"} THEN f + 2 ELSE f + 1
<1>8. /\ e = IF At(f) \in {"e", "E"} THEN SkipFrom(digits, Digits) ELSE f
      /\ At(f) \in {"e", "E"} => e # digits
  <2>1. CASE At(f) \in {"e", "E"}
    <3>1. \/ Run(f + 1, e, Digits)
          \/ At(f + 1) \in {"+", "-"} /\ Run(f + 2, e, Digits)
      BY <1>3, <2>1 DEF Exponent
    <3>2. f + 1 \in Nat /\ f + 1 >= 1 /\ f + 2 \in Nat /\ f + 2 >= 1
      BY <1>4
    <3>3. CASE Run(f + 1, e, Digits)
      <4>1. f + 1 < e /\ At(f + 1) \in Digits /\ SkipFrom(f + 1, Digits) = e
        BY <1>2, <3>2, <3>3, RunFrom
      <4>2. At(f + 1) \notin {"+", "-"}
        BY <4>1 DEF Digits
      <4>3. digits = f + 1
        BY <4>2
      <4> QED
        BY <1>2, <2>1, <3>2, <4>1, <4>3
    <3>4. CASE At(f + 1) \in {"+", "-"} /\ Run(f + 2, e, Digits)
      <4>1. f + 2 < e /\ SkipFrom(f + 2, Digits) = e
        BY <1>2, <3>2, <3>4, RunFrom
      <4>2. digits = f + 2
        BY <3>4
      <4> QED
        BY <1>2, <2>1, <3>2, <4>1, <4>2
    <3> QED
      BY <3>1, <3>3, <3>4
  <2>2. CASE ~(At(f) \in {"e", "E"})
    BY <1>3, <2>2 DEF Exponent
  <2> QED
    BY <2>1, <2>2
<1>9. "real" = IF HasFraction(m) \/ At(f) \in {"e", "E"} THEN "real" ELSE "int"
  BY <1>3, <1>6 DEF Exponent
<1>10. digits = IF At(f + 1) \in {"+", "-"} THEN f + 2 ELSE f + 1
  OBVIOUS
<1> HIDE DEF digits
<1>11. /\ m = SkipFrom(pos + 1, Digits)
       /\ e = IF At(f) \in {"e", "E"} THEN SkipFrom(digits, Digits) ELSE f
       /\ At(f) \in {"e", "E"} => e # digits
  BY <1>5, <1>8
<1> QED
  BY <1>7, <1>9, <1>10, <1>11, NumberParts

LEMMA SymbolRead ==
  ASSUME Scanning, errors \in Nat, NEW e \in pos + 1..End, SymbolAt(pos, e), ScanPunct
  PROVE  Read("symbol", e)
<1>1. pos \in Nat /\ End \in Nat
  BY Places
<1>2. src[pos] \in Punctuation
  BY DEF SymbolAt, Pairs, Punctuation, OpChars
<1>3. e = IF <<src[pos], At(pos + 1)>> \in Pairs THEN pos + 2 ELSE pos + 1
  BY DEF SymbolAt
<1>4. MoveTo(e) /\ Emit("symbol", e) /\ Errors(0) /\ UNCHANGED src
  BY <1>2, <1>3 DEF ScanPunct
<1>5. errors' = errors
  BY <1>4 DEF Errors
<1> QED
  BY <1>4, <1>5, EmitReads

LEMMA CodeRead ==
  ASSUME Scanning, errors \in Nat, NEW e \in pos + 1..End, CodeAt(pos, e), ScanHashRef
  PROVE  Read("int", e)
<1> DEFINE b == e - 1
           digits == SubSeq(src, pos + 1, b)
           token == Token("int", <<"#">> \o WithoutZeros(digits))
           t == [token EXCEPT !.val = <<NumberOf(digits)>>]
<1>1. pos \in Nat /\ pos >= 1 /\ End \in Nat /\ End = Len(src) + 1 /\ src \in Seq(STRING) /\ Len(src) \in Nat
  BY Places DEF Scanning, End
<1>2. e \in Nat /\ e <= End /\ pos + 1 \in Nat /\ pos + 1 >= 1
  BY <1>1
<1>3. pos + 1 < e /\ SkipFrom(pos + 1, Digits) = e
  BY <1>2, RunFrom DEF CodeAt
<1>4. MoveTo(e) /\ UNCHANGED <<src, errors>> /\ tokens' = Append(tokens, t)
  <2>1. e # pos + 1
    BY <1>2, <1>3
  <2> QED
    BY <1>3, <2>1 DEF ScanHashRef, EmitWith, Quiet
<1>5. t.kind = "int" /\ t.line = line /\ t.col = col /\ t.text = <<"#">> \o WithoutZeros(digits)
  BY DEF Token
<1> HIDE DEF t
<1>6. b \in Nat /\ pos < b /\ pos + 1 <= b /\ b <= Len(src)
  BY <1>1, <1>2, <1>3
<1>7. src[pos] = "#" /\ (src[pos + 1] # "0" \/ b = pos + 1)
  BY <1>1, <1>2 DEF CodeAt
<1> HIDE DEF b
<1>8. digits \in Seq(STRING) /\ Len(digits) = b - pos /\ Len(digits) >= 1 /\ digits[1] = src[pos + 1]
  BY <1>1, <1>6
<1>9. digits[1] # "0" \/ Len(digits) = 1
  BY <1>1, <1>7, <1>8
<1>10. WithoutZeros(digits) = digits
  BY <1>8, <1>9, NoZerosToDrop
<1>11. <<"#">> \o digits = SubSeq(src, pos, b)
  BY <1>1, <1>6, <1>7, HashThenDigits
<1>12. t.text = SubSeq(src, pos, e - 1)
  BY <1>5, <1>10, <1>11 DEF b
<1> QED
  BY <1>4, <1>5, <1>12 DEF Read

\* In a run of quotes within a string every second one is the first of a pair.
LEMMA PairsInRun ==
  ASSUME NEW a \in Nat, NEW c \in Nat,
         NEW firsts \in SUBSET (a..c - 2),
         \A j \in a..c - 1 : /\ src[j] = "'" <=> (j \in firsts \/ j - 1 \in firsts)
                             /\ ~(j \in firsts /\ j - 1 \in firsts),
         NEW i \in a..c, i = a \/ src[i - 1] # "'",
         NEW j \in i..c - 1, \A h \in i..j : src[h] = "'"
  PROVE  j \in firsts <=> (j - i) % 2 = 0
<1> DEFINE D == {d \in 0..j - i : ~((i + d) \in firsts <=> d % 2 = 0)}
<1>1. i \in Nat /\ j \in Nat /\ a <= i /\ i <= j /\ j <= c - 1 /\ j - i \in Nat
  OBVIOUS
<1>2. CASE D = {}
  <2>1. j - i \in 0..j - i /\ i + (j - i) = j
    BY <1>1
  <2>2. (i + (j - i)) \in firsts <=> (j - i) % 2 = 0
    BY <1>2, <2>1
  <2> QED
    BY <2>1, <2>2
<1>3. CASE D # {}
  <2>1. D \subseteq Nat
    BY <1>1
  <2> DEFINE m == Least(D)
  <2>2. m \in D /\ \A d \in D : m <= d
    BY <1>3, <2>1, LeastIsMember, LeastIsLeast
  <2> HIDE DEF m
  <2>3. m \in Nat /\ m <= j - i /\ ~((i + m) \in firsts <=> m % 2 = 0)
    BY <1>1, <2>2
  <2>4. i + m \in i..j /\ i + m \in a..c - 1
    BY <1>1, <2>3
  <2>5. src[i + m] = "'"
    BY <2>4
  <2>6. (i + m \in firsts \/ (i + m) - 1 \in firsts) /\ ~(i + m \in firsts /\ (i + m) - 1 \in firsts)
    BY <2>4, <2>5, Zenon
  <2>7. CASE m = 0
    <3>1. i - 1 \in firsts => i - 1 \in a..c - 1 /\ i # a
      BY <1>1
    <3>2. i - 1 \notin firsts
      BY <3>1
    <3>3. i + m = i /\ (i + m) - 1 = i - 1
      BY <1>1, <2>7
    <3>4. i + m \in firsts
      BY <2>6, <3>2, <3>3
    <3>5. m % 2 = 0
      BY <2>7
    <3> QED
      BY <2>3, <3>4, <3>5
  <2>8. CASE m # 0
    <3>1. m - 1 \in 0..j - i /\ ~(m <= m - 1)
      BY <1>1, <2>3, <2>8
    <3>2. m - 1 \notin D
      BY <2>2, <3>1
    <3>3. (i + (m - 1)) \in firsts <=> (m - 1) % 2 = 0
      BY <3>1, <3>2
    <3>4. i + (m - 1) = (i + m) - 1
      BY <1>1, <2>3
    <3>5. m % 2 = 0 <=> ~((m - 1) % 2 = 0)
      BY <2>3, <2>8
    <3> QED
      BY <2>3, <2>6, <3>3, <3>4, <3>5
  <2> QED
    BY <2>7, <2>8
<1> QED
  BY <1>2, <1>3

\* The quote that ends a string is the first that is not one of a pair.
LEMMA QuoteCloses ==
  ASSUME Scanning, NEW a \in Nat, NEW c \in Nat, a <= c, c < End, a >= 1,
         src[c] = "'", At(c + 1) # "'", QuotesDoubled(a, c)
  PROVE  ClosingQuote(a) = c
<1> DEFINE S == {j \in a..Len(src) : Closes(a, j)}
<1>1. Len(src) \in Nat /\ End = Len(src) + 1 /\ End \in Nat
  BY Places DEF Scanning, End
<1>2. PICK firsts \in SUBSET (a..c - 2) :
        \A j \in a..c - 1 : /\ src[j] = "'" <=> (j \in firsts \/ j - 1 \in firsts)
                            /\ ~(j \in firsts /\ j - 1 \in firsts)
  BY DEF QuotesDoubled
<1>3. \A i \in a..c : i = a \/ src[i - 1] # "'"
        => \A j \in i..c - 1 : (\A h \in i..j : src[h] = "'") => (j \in firsts <=> (j - i) % 2 = 0)
  BY <1>2, PairsInRun
<1>4. c \in S
  <2> DEFINE Q == {i \in a..c : \A h \in i..c : src[h] = "'"}
             i == Least(Q)
  <2>1. Q \subseteq Nat
    OBVIOUS
  <2>2. c \in Q
    OBVIOUS
  <2>3. i \in Q /\ \A x \in Q : i <= x
    <3> HIDE DEF Q
    <3> QED
      BY <2>1, <2>2, LeastIsMember, LeastIsLeast
  <2> HIDE DEF i
  <2>4. i \in Nat /\ a <= i /\ i <= c /\ i \in a..c /\ \A h \in i..c : src[h] = "'"
    BY <2>3
  <2>5. i = a \/ src[i - 1] # "'"
    <3> SUFFICES ASSUME i # a, src[i - 1] = "'" PROVE FALSE
      OBVIOUS
    <3>1. i - 1 \in a..c
      BY <2>4
    <3>2. \A h \in i - 1..c : h = i - 1 \/ h \in i..c
      BY <2>4
    <3>3. i - 1 \in Q
      BY <2>4, <3>1, <3>2
    <3>4. i <= i - 1
      BY <2>3, <3>3
    <3> QED
      BY <2>4, <3>4
  <2>6. (c - i) % 2 = 0
    <3>1. CASE i = c
      BY <2>4, <3>1
    <3>2. CASE i # c
      <4>1. c - 1 \in i..c - 1 /\ \A h \in i..c - 1 : h \in i..c
        BY <2>4, <3>2
      <4>2. c - 1 \in firsts <=> ((c - 1) - i) % 2 = 0
        BY <1>3, <2>4, <2>5, <4>1
      <4>3. c - 1 \notin firsts
        BY <1>2
      <4>4. (c - 1) - i = (c - i) - 1 /\ c - i \in Nat /\ c - i # 0
        BY <2>4, <3>2
      <4>5. \A n \in Nat : n # 0 => (n % 2 = 0 <=> ~((n - 1) % 2 = 0))
        OBVIOUS
      <4> QED
        BY <4>2, <4>3, <4>4, <4>5
    <3> QED
      BY <3>1, <3>2
  <2>7. Closes(a, c)
    BY <2>4, <2>5, <2>6 DEF Closes
  <2>8. c \in a..Len(src)
    BY <1>1
  <2> QED
    BY <2>7, <2>8
<1>5. ASSUME NEW j \in a..c - 1 PROVE j \notin S
  <2> SUFFICES ASSUME Closes(a, j) PROVE FALSE
    OBVIOUS
  <2>1. j \in Nat /\ a <= j /\ j <= c - 1
    BY <1>5
  <2>2. PICK i \in a..j : (\A h \in i..j : src[h] = "'") /\ (i = a \/ src[i - 1] # "'") /\ (j - i) % 2 = 0
    BY DEF Closes
  <2>3. i \in a..c /\ j \in i..c - 1
    BY <2>1
  <2>4. j \in firsts
    BY <1>3, <2>2, <2>3
  <2>5. j \in a..c - 2
    BY <1>2, <2>4
  <2>6. j + 1 \in a..c - 1 /\ (j + 1) - 1 = j /\ j + 1 < End
    BY <1>1, <2>1, <2>5
  <2>7. src[j + 1] = "'"
    BY <1>2, <2>4, <2>6
  <2>8. At(j + 1) = "'"
    BY <2>6, <2>7 DEF At
  <2> QED
    BY <2>8 DEF Closes
<1>6. S \subseteq a..Len(src)
  OBVIOUS
<1>7. Least(S \cup {End}) = c
  <2> HIDE DEF S
  <2> QED
    BY <1>4, <1>5, <1>6, LeastExact
<1> QED
  BY <1>7 DEF ClosingQuote

LEMMA StringRead ==
  ASSUME Scanning, errors \in Nat, NEW e \in pos + 1..End, StringAt(pos, e), ScanString
  PROVE  Read("str", e)
<1> DEFINE c == e - 1
           token == Token("str", SubSeq(src, pos, e - 1))
           t == [token EXCEPT !.val = StringValue(pos + 1, c)]
<1>1. pos \in Nat /\ pos >= 1 /\ End \in Nat
  BY Places
<1>2. e \in Nat /\ e <= End /\ pos + 1 < e
  BY <1>1 DEF StringAt
<1>3. c \in Nat /\ pos + 1 <= c /\ c < End /\ c + 1 = e /\ pos + 1 \in Nat /\ pos + 1 >= 1
  BY <1>1, <1>2
<1>4. src[c] = "'" /\ At(e) # "'" /\ QuotesDoubled(pos + 1, c) /\ BadCodes(pos + 1, c) = {}
  BY DEF StringAt
<1> HIDE DEF c
<1>5. ClosingQuote(pos + 1) = c
  BY <1>3, <1>4, QuoteCloses
<1>6. /\ MoveTo(IF c < End THEN c + 1 ELSE End) /\ UNCHANGED src
      /\ Errors(Cardinality(BadCodes(pos + 1, c)) + (IF c < End THEN 0 ELSE 1))
      /\ EmitWith(Token(IF c < End THEN "str" ELSE "error",
                        SubSeq(src, pos, (IF c < End THEN c + 1 ELSE End) - 1)),
                  IF c < End THEN StringValue(pos + 1, c) ELSE <<>>)
  BY <1>5 DEF ScanString
<1>7. MoveTo(e) /\ EmitWith(token, StringValue(pos + 1, c)) /\ Errors(Cardinality({}) + 0) /\ UNCHANGED src
  BY <1>3, <1>4, <1>6
<1>8. errors' = errors
  <2>1. Cardinality({}) = 0
    BY FS_EmptySet
  <2>2. errors' = errors + (Cardinality({}) + 0)
    BY <1>7 DEF Errors
  <2>3. \A x \in Nat : \A n : n = 0 => x + (n + 0) = x
    OBVIOUS
  <2> QED
    BY <2>1, <2>2, <2>3
<1>9. tokens' = Append(tokens, t)
  BY <1>7 DEF EmitWith
<1>10. t.kind = "str" /\ t.line = line /\ t.col = col /\ t.text = SubSeq(src, pos, e - 1)
  BY DEF Token
<1> HIDE DEF t
<1> QED
  BY <1>7, <1>8, <1>9, <1>10 DEF Read

\* A token takes up at least one character, and is none that ends the text.
LEMMA TokenThere ==
  ASSUME NEW a \in Nat, NEW e \in Nat, NEW kind, NEW before, TokenAt(kind, a, e, before)
  PROVE  a < e /\ kind # "eof"
<1>1. NameAt(a, e) => a < e
  BY DEF NameAt, Run
<1>2. IntegerAt(a, e) => a < e
  BY DEF IntegerAt, Run
<1>3. CodeAt(a, e) => a < e
  <2>1. CodeAt(a, e) => a + 1 < e
    BY DEF CodeAt, Run
  <2> QED
    BY <2>1
<1>4. RealAt(a, e) => a < e
  <2> SUFFICES ASSUME RealAt(a, e) PROVE a < e
    OBVIOUS
  <2>1. PICK m \in a..e : Run(a, m, Digits)
    BY DEF RealAt
  <2>2. a < m
    BY <2>1 DEF Run
  <2> QED
    BY <2>2
<1>5. HexAt(a, e) => a < e
  <2>1. HexAt(a, e) => a + 1 < e
    BY DEF HexAt, Run
  <2> QED
    BY <2>1
<1>6. StringAt(a, e) => a < e
  <2>1. StringAt(a, e) => a + 1 < e
    BY DEF StringAt
  <2> QED
    BY <2>1
<1>7. SymbolAt(a, e) => a < e
  <2>1. SymbolAt(a, e) => e = a + 1 \/ e = a + 2
    BY DEF SymbolAt
  <2> QED
    BY <2>1
<1>8. a < e
  BY <1>1, <1>2, <1>3, <1>4, <1>5, <1>6, <1>7, Zenon DEF TokenAt
<1>9. kind \in {"keyword", "ident", "int", "real", "hex", "str", "symbol"}
  BY DEF TokenAt
<1> QED
  BY <1>8, <1>9

\* The token that stands at pos is the one the tokenizer reads.
LEMMA TokenRead ==
  ASSUME Scanning, errors \in Nat, NEW e \in pos + 1..End, NEW kind, NEW before,
         TokenAt(kind, pos, e, before), before = "str" => LastTokenWasString, Scan
  PROVE  Read(kind, e)
<1>1. pos \in Nat /\ pos >= 1 /\ End \in Nat
  BY Places
<1>2. e \in Nat /\ e <= End /\ pos + 1 \in Nat /\ pos + 1 >= 1
  BY <1>1
<1>3. CASE /\ kind = (IF Reserved(SubSeq(src, pos, e - 1)) THEN "keyword" ELSE "ident")
           /\ NameAt(pos, e)
  <2>1. ScanIdentOrKeyword
    BY <1>3, OneScanApplies DEF NameAt
  <2> QED
    BY <1>3, <2>1, NameRead
<1>4. CASE kind = "int" /\ IntegerAt(pos, e)
  <2>1. src[pos] \in Digits
    BY <1>1, <1>2, <1>4, RunFrom DEF IntegerAt
  <2>2. ScanNumber
    BY <2>1, OneScanApplies
  <2> QED
    BY <1>4, <2>2, IntegerRead
<1>5. CASE kind = "int" /\ CodeAt(pos, e) /\ before = "str"
  <2>1. ScanHashRef
    BY <1>5, OneScanApplies DEF CodeAt
  <2> QED
    BY <1>5, <2>1, CodeRead
<1>6. CASE kind = "real" /\ RealAt(pos, e)
  <2>1. PICK m \in pos..e : Run(pos, m, Digits)
    BY <1>6 DEF RealAt
  <2>2. m \in Nat /\ m <= End
    BY <1>1, <1>2
  <2>3. src[pos] \in Digits
    BY <1>1, <2>1, <2>2, RunFrom
  <2>4. ScanNumber
    BY <2>3, OneScanApplies
  <2> QED
    BY <1>6, <2>4, RealRead
<1>7. CASE kind = "hex" /\ HexAt(pos, e)
  <2>1. src[pos] = "$" /\ At(pos + 1) \in HexDigits
    BY <1>2, <1>7, RunFrom DEF HexAt
  <2>2. ScanHex
    BY <2>1, OneScanApplies
  <2> QED
    BY <1>7, <2>2, HexRead
<1>8. CASE kind = "str" /\ StringAt(pos, e)
  <2>1. ScanString
    BY <1>8, OneScanApplies DEF StringAt
  <2> QED
    BY <1>8, <2>1, StringRead
<1>9. CASE kind = "symbol" /\ SymbolAt(pos, e)
  <2>1. src[pos] \in Punctuation
    BY <1>9 DEF SymbolAt, Pairs, Punctuation, OpChars
  <2>2. ~(src[pos] = "(" /\ At(pos + 1) = "*")
    BY <1>9 DEF SymbolAt, Pairs
  <2>3. ScanPunct
    BY <2>1, <2>2, OneScanApplies
  <2> QED
    BY <1>9, <2>3, SymbolRead
<1> QED
  BY <1>3, <1>4, <1>5, <1>6, <1>7, <1>8, <1>9, Zenon DEF TokenAt

-----------------------------------------------------------------------------
(* How far the reading has come. *)

\* The tokens read so far are the first that were written, and from pos to the
\* next one there is nothing but white space and comments.
ReadSoFar ==
  /\ errors = 0
  /\ Placed
  /\ Len(tokens) <= Len(written) + 1
  /\ \A k \in 1..Len(tokens) : k <= Len(written) =>
       /\ tokens[k].kind = written[k].kind
       /\ tokens[k].text = written[k].text
       /\ PlaceOf(tokens[k]) = written[k].at
  /\ Len(tokens) <= Len(written) => Gap(pos, Ahead(Len(tokens)))
  /\ Len(tokens) > Len(written) => pos = End /\ Lexed

WrittenInv ==
  /\ Scanning
  /\ written \in Seq(Word)
  /\ LaidOut => ReadSoFar

\* The grammar speaks of the text alone.
LEMMA SameGrammar ==
  ASSUME UNCHANGED <<src, written>>
  PROVE  /\ \A a, b : (Gap(a, b))' = Gap(a, b)
         /\ \A k : (Ahead(k))' = Ahead(k)
         /\ LaidOut' = LaidOut
<1>0. /\ End' = End
      /\ \A k : (At(k))' = At(k)
      /\ \A k : (Past(k))' = Past(k)
      /\ \A k : (Ahead(k))' = Ahead(k)
      /\ \A a, e, class : (Run(a, e, class))' = Run(a, e, class)
  BY DEF End, At, Past, Ahead, Run, All
<1>1. \A a, e : (Layout(a, e))' = Layout(a, e)
  BY <1>0 DEF Layout, BracesAt, ParensAt
<1>2. \A a, b : (Gap(a, b))' = Gap(a, b)
  BY <1>1 DEF Gap
<1>3. /\ \A a, e : (NameAt(a, e))' = NameAt(a, e)
      /\ \A a, e : (IntegerAt(a, e))' = IntegerAt(a, e)
      /\ \A a, e : (HexAt(a, e))' = HexAt(a, e)
      /\ \A a, e : (CodeAt(a, e))' = CodeAt(a, e)
      /\ \A a, e : (SymbolAt(a, e))' = SymbolAt(a, e)
  BY <1>0 DEF NameAt, IntegerAt, HexAt, CodeAt, SymbolAt
<1>4. \A a, e : (RealAt(a, e))' = RealAt(a, e)
  BY <1>0 DEF RealAt
<1>5. \A a, e : (StringAt(a, e))' = StringAt(a, e)
  <2>1. \A a, e : (QuotesDoubled(a, e))' = QuotesDoubled(a, e)
    BY DEF QuotesDoubled
  <2>2. \A k : (SkipFrom(k, Digits))' = SkipFrom(k, Digits)
    BY <1>0 DEF SkipFrom
  <2>3. \A a, e : (BadCodes(a, e))' = BadCodes(a, e)
    BY <1>0, <2>2 DEF BadCodes
  <2> QED
    BY <1>0, <2>1, <2>3 DEF StringAt
<1>6. \A kind, a, e, before : (TokenAt(kind, a, e, before))' = TokenAt(kind, a, e, before)
  BY <1>3, <1>4, <1>5 DEF TokenAt
<1>7. LaidOut' = LaidOut
  BY <1>0, <1>2, <1>6 DEF LaidOut
<1> QED
  BY <1>0, <1>2, <1>7

\* Where a written token stands, and what it says of the gaps beside it.
LEMMA WordThere ==
  ASSUME Scanning, written \in Seq(Word), LaidOut, NEW k \in 1..Len(written)
  PROVE  /\ written[k].at \in Nat /\ Past(k) \in Nat
         /\ written[k].at < Past(k) /\ Past(k) <= End
         /\ SubSeq(src, written[k].at, Past(k) - 1) = written[k].text
         /\ TokenAt(written[k].kind, written[k].at, Past(k), IF k = 1 THEN "" ELSE written[k - 1].kind)
         /\ written[k].kind # "eof"
         /\ Gap(Past(k), Ahead(k))
<1>1. written[k] \in Word /\ k # 0 /\ k \in 0..Len(written)
  OBVIOUS
<1>2. written[k].at \in Nat /\ Len(written[k].text) \in Nat
  BY <1>1 DEF Word
<1>3. Past(k) = written[k].at + Len(written[k].text)
  BY <1>1 DEF Past
<1>4. Past(k) \in Nat
  BY <1>2, <1>3
<1>5. /\ Past(k) <= End
      /\ SubSeq(src, written[k].at, Past(k) - 1) = written[k].text
      /\ TokenAt(written[k].kind, written[k].at, Past(k), IF k = 1 THEN "" ELSE written[k - 1].kind)
      /\ Gap(Past(k), Ahead(k))
  BY <1>1, Zenon DEF LaidOut
<1> QED
  BY <1>2, <1>4, <1>5, TokenThere

\* A gap that has not ended goes on with white space or a comment.
LEMMA GapGoesOn ==
  ASSUME NEW a \in Nat, NEW b \in Nat, Gap(a, b), a # b
  PROVE  \E d \in a + 1..b : Layout(a, d) /\ Gap(d, b)
<1>1. PICK cuts \in SUBSET (a..b) :
        /\ a \in cuts /\ b \in cuts
        /\ \A c \in cuts \ {b} : \E d \in cuts : Layout(c, d)
  BY DEF Gap
<1>2. \A c \in Nat, d \in Nat : Layout(c, d) => c < d
  <2> SUFFICES ASSUME NEW c \in Nat, NEW d \in Nat, Layout(c, d) PROVE c < d
    OBVIOUS
  <2>1. Run(c, d, White) => c < d
    BY DEF Run
  <2>2. BracesAt(c, d) => c < d
    <3>1. BracesAt(c, d) => c + 1 < d
      BY DEF BracesAt
    <3> QED
      BY <3>1
  <2>3. ParensAt(c, d) => c < d
    <3>1. ParensAt(c, d) => c + 3 < d
      BY DEF ParensAt
    <3> QED
      BY <3>1
  <2> QED
    BY <2>1, <2>2, <2>3 DEF Layout
<1>3. PICK d \in cuts : Layout(a, d)
  BY <1>1
<1>4. d \in Nat /\ d \in a + 1..b
  <2>1. d \in a..b
    BY <1>1
  <2>2. d \in Nat
    BY <2>1
  <2>3. a < d
    BY <1>2, <1>3, <2>2
  <2> QED
    BY <2>1, <2>2, <2>3
<1> DEFINE rest == cuts \cap (d..b)
<1>5. rest \in SUBSET (d..b) /\ d \in rest /\ b \in rest
  BY <1>1, <1>4
<1>6. ASSUME NEW c \in rest \ {b} PROVE \E x \in rest : Layout(c, x)
  <2>1. c \in cuts \ {b} /\ c \in Nat /\ d <= c
    BY <1>4
  <2>2. PICK x \in cuts : Layout(c, x)
    BY <1>1, <2>1
  <2>3. x \in Nat /\ x <= b
    <3>1. x \in a..b
      BY <1>1
    <3> QED
      BY <3>1
  <2>4. c < x
    BY <1>2, <2>1, <2>2, <2>3
  <2>5. x \in rest
    BY <1>4, <2>1, <2>3, <2>4
  <2> QED
    BY <2>2, <2>5
<1>7. Gap(d, b)
  <2> HIDE DEF rest
  <2> QED
    BY <1>5, <1>6 DEF Gap
<1> QED
  BY <1>3, <1>4, <1>7
LEMMA GapForward ==
  ASSUME NEW a \in Nat, NEW b \in Nat, Gap(a, b)
  PROVE  a <= b
<1>1. a \in a..b
  BY DEF Gap
<1> QED
  BY <1>1

LEMMA AheadWithin ==
  ASSUME Scanning, written \in Seq(Word), LaidOut, NEW k \in 0..Len(written)
  PROVE  /\ Ahead(k) \in Nat /\ Ahead(k) <= End
         /\ k < Len(written) => Ahead(k) = written[k + 1].at /\ Ahead(k) < End
         /\ k = Len(written) => Ahead(k) = End
<1>1. End \in Nat
  BY Places
<1>2. CASE k < Len(written)
  <2>1. k + 1 \in 1..Len(written) /\ k # Len(written)
    BY <1>2
  <2>2. Ahead(k) = written[k + 1].at
    BY <1>2 DEF Ahead
  <2>3. written[k + 1].at \in Nat /\ Past(k + 1) \in Nat /\ written[k + 1].at < Past(k + 1) /\ Past(k + 1) <= End
    BY <2>1, WordThere
  <2> QED
    BY <1>1, <2>1, <2>2, <2>3
<1>3. CASE ~(k < Len(written))
  BY <1>1, <1>3 DEF Ahead
<1> QED
  BY <1>2, <1>3

\* Nothing new is read while white space and comments are skipped.
LEMMA SkippedKeeps ==
  ASSUME Scanning, written \in Seq(Word), LaidOut, ReadSoFar,
         NEW e \in pos + 1..End, Skipped(e), UNCHANGED written,
         Len(tokens) <= Len(written), Gap(e, Ahead(Len(tokens)))
  PROVE  ReadSoFar'
<1>1. UNCHANGED <<src, tokens, errors, written>> /\ MoveTo(e) /\ pos' = e
  BY DEF Skipped, MoveTo
<1>2. Placed'
  BY <1>1, MovingKeepsPlaced DEF ReadSoFar
<1>3. (Gap(pos, Ahead(Len(tokens))))'
  <2>1. \A a, b : (Gap(a, b))' = Gap(a, b)
    BY <1>1, SameGrammar
  <2>2. \A k : (Ahead(k))' = Ahead(k)
    BY <1>1, SameGrammar
  <2> QED
    BY <1>1, <2>1, <2>2
<1>4. \A t : (PlaceOf(t))' = PlaceOf(t)
  BY <1>1, SameText
<1>5. ~(Len(tokens) > Len(written))
  <2>1. Len(written) \in Nat /\ Len(tokens) \in Nat
    <3>1. \E S : tokens \in Seq(S)
      BY DEF Scanning
    <3> QED
      BY <3>1
  <2> QED
    BY <2>1
<1> QED
  BY <1>1, <1>2, <1>3, <1>4, <1>5 DEF ReadSoFar

\* The next token that was written is read.
LEMMA ReadKeeps ==
  ASSUME Scanning, written \in Seq(Word), LaidOut, ReadSoFar,
         NEW k \in 1..Len(written), Len(tokens) + 1 = k, pos = written[k].at,
         Read(written[k].kind, Past(k)), Past(k) \in pos + 1..End, UNCHANGED written
  PROVE  ReadSoFar'
<1> DEFINE e == Past(k)
           w == written[k]
<1>1. PICK S : tokens \in Seq(S)
  BY DEF Scanning
<1>2. PICK t : /\ tokens' = Append(tokens, t)
               /\ t.kind = w.kind
               /\ t.line = line /\ t.col = col /\ t.text = SubSeq(src, pos, e - 1)
  BY DEF Read
<1>3. /\ Len(tokens) \in Nat /\ Len(tokens') = k /\ tokens'[k] = t
      /\ \A i \in 1..k - 1 : tokens'[i] = tokens[i] /\ i \in 1..Len(tokens)
  BY <1>1, <1>2
<1>4. MoveTo(e) /\ UNCHANGED <<src, errors, written>> /\ pos' = e
  BY DEF Read, MoveTo
<1>5. Placed'
  BY <1>4, MovingKeepsPlaced DEF ReadSoFar
<1>6. \A x : (PlaceOf(x))' = PlaceOf(x)
  BY <1>4, SameText
<1>7. t.kind = w.kind /\ t.text = w.text /\ PlaceOf(t) = w.at
  <2>1. PlaceOf(t) = pos
    BY <1>2, PlaceOfHere DEF ReadSoFar
  <2>2. SubSeq(src, w.at, e - 1) = w.text
    BY WordThere
  <2> QED
    BY <1>2, <2>1, <2>2
<1>8. ASSUME NEW i \in 1..Len(tokens'), i <= Len(written)
      PROVE  /\ tokens'[i].kind = written[i].kind
             /\ tokens'[i].text = written[i].text
             /\ PlaceOf(tokens'[i]) = written[i].at
  <2>1. CASE i = k
    BY <1>3, <1>7, <2>1
  <2>2. CASE i # k
    <3>1. i \in 1..k - 1
      BY <1>3, <2>2
    <3> QED
      BY <1>3, <1>8, <3>1 DEF ReadSoFar
  <2> QED
    BY <2>1, <2>2
<1>9. (Gap(pos, Ahead(Len(tokens))))'
  <2>1. \A a, b : (Gap(a, b))' = Gap(a, b)
    BY <1>4, SameGrammar
  <2>2. \A x : (Ahead(x))' = Ahead(x)
    BY <1>4, SameGrammar
  <2>3. Gap(e, Ahead(k))
    BY WordThere
  <2> HIDE DEF e
  <2> QED
    BY <1>3, <1>4, <2>1, <2>2, <2>3
<1>10. Len(tokens') <= Len(written) /\ ~(Len(tokens') > Len(written)) /\ Len(tokens') <= Len(written) + 1
  BY <1>3
<1> HIDE DEF e, w
<1>11. errors' = 0 /\ written' = written
  BY <1>4 DEF ReadSoFar
<1> QED
  BY <1>5, <1>6, <1>8, <1>9, <1>10, <1>11 DEF ReadSoFar

LEMMA ScanReadsOn ==
  ASSUME Scanning, written \in Seq(Word), LaidOut, ReadSoFar, Scan, UNCHANGED written
  PROVE  ReadSoFar'
<1> DEFINE N == Len(tokens)
           n == Len(written)
           b == Ahead(N)
<1>1. pos \in Nat /\ End \in Nat /\ pos < End
  <2>1. pos \in Nat /\ End \in Nat
    BY Places
  <2>2. More
    BY Guarded
  <2> QED
    BY <2>1, <2>2 DEF More
<1>2. N \in Nat /\ n \in Nat
  <2>1. \E S : tokens \in Seq(S)
    BY DEF Scanning
  <2> QED
    BY <2>1
<1>3. N <= n
  <2>1. ~(N > n)
    BY <1>1 DEF ReadSoFar
  <2> QED
    BY <1>2, <2>1
<1>4. errors \in Nat /\ Gap(pos, b)
  BY <1>3 DEF ReadSoFar
<1>5. N \in 0..n
  BY <1>2, <1>3
<1>6. b \in Nat /\ b <= End /\ (N < n => b = written[N + 1].at) /\ (N = n => b = End)
  BY <1>5, AheadWithin
<1>7. CASE pos # b
  <2> HIDE DEF b
  <2>1. PICK e \in pos + 1..b : Layout(pos, e) /\ Gap(e, b)
    BY <1>1, <1>4, <1>6, <1>7, GapGoesOn
  <2>2. e \in pos + 1..End
    BY <1>1, <1>6
  <2>3. Skipped(e)
    BY <1>4, <2>1, <2>2, LayoutRead
  <2> QED
    BY <1>3, <2>1, <2>2, <2>3, SkippedKeeps DEF b
<1>8. CASE pos = b
  <2> DEFINE k == N + 1
             before == IF k = 1 THEN "" ELSE written[k - 1].kind
  <2>1. N < n /\ k \in 1..n /\ pos = written[k].at
    BY <1>1, <1>2, <1>3, <1>6, <1>8
  <2> HIDE DEF b
  <2>2. /\ Past(k) \in Nat /\ written[k].at < Past(k) /\ Past(k) <= End
        /\ TokenAt(written[k].kind, written[k].at, Past(k), before)
    BY <2>1, WordThere
  <2>3. Past(k) \in pos + 1..End
    <3>1. pos < Past(k)
      BY <2>1, <2>2
    <3>2. \A x \in Nat : pos < x /\ x <= End => x \in pos + 1..End
      BY <1>1
    <3> QED
      BY <2>2, <3>1, <3>2, Zenon
  <2>4. before = "str" => LastTokenWasString
    <3> SUFFICES ASSUME before = "str" PROVE LastTokenWasString
      OBVIOUS
    <3>1. k # 1 /\ written[k - 1].kind = "str"
      OBVIOUS
    <3>2. k - 1 = N /\ N \in 1..N /\ N <= n
      BY <1>2, <1>3, <3>1
    <3>3. tokens[N].kind = "str"
      BY <3>1, <3>2 DEF ReadSoFar
    <3>4. tokens # <<>>
      BY <3>2
    <3> QED
      BY <3>3, <3>4 DEF LastTokenWasString
  <2> HIDE DEF before
  <2>5. Read(written[k].kind, Past(k))
    BY <1>4, <2>1, <2>2, <2>3, <2>4, TokenRead
  <2> QED
    BY <2>1, <2>3, <2>5, ReadKeeps
<1> QED
  BY <1>7, <1>8

\* The text ends behind the last token and what follows it, and nowhere else.
LEMMA EofReadsOn ==
  ASSUME Scanning, written \in Seq(Word), LaidOut, ReadSoFar, EmitEof, UNCHANGED written
  PROVE  ReadSoFar'
<1> DEFINE N == Len(tokens)
           n == Len(written)
           t == Token("eof", <<>>)
<1>1. PICK S : tokens \in Seq(S)
  BY DEF Scanning
<1>2. N \in Nat /\ n \in Nat /\ pos \in Nat /\ End \in Nat
  BY <1>1, Places
<1>3. /\ UNCHANGED <<src, pos, line, col, errors, written>> /\ pos = End /\ ~Lexed
      /\ tokens' = Append(tokens, t)
  BY DEF EmitEof
<1>4. N <= n /\ Gap(pos, Ahead(N))
  <2>1. ~(N > n)
    BY <1>3 DEF ReadSoFar
  <2>2. N <= n
    BY <1>2, <2>1
  <2> QED
    BY <2>2 DEF ReadSoFar
<1>5. N = n
  <2> SUFFICES ASSUME N # n PROVE FALSE
    OBVIOUS
  <2>1. N \in 0..n /\ N < n
    BY <1>2, <1>4
  <2>2. Ahead(N) \in Nat /\ Ahead(N) < End
    BY <2>1, AheadWithin
  <2>3. pos <= Ahead(N)
    BY <1>2, <1>4, <2>2, GapForward
  <2> QED
    BY <1>2, <1>3, <2>2, <2>3
<1>6. t.kind = "eof"
  BY DEF Token
<1> HIDE DEF t
<1>7. /\ Len(tokens') = n + 1 /\ tokens' # <<>> /\ tokens'[Len(tokens')] = t
      /\ \A i \in 1..n : tokens'[i] = tokens[i] /\ i \in 1..Len(tokens)
  BY <1>1, <1>2, <1>3, <1>5
<1>8. Lexed'
  BY <1>6, <1>7 DEF Lexed
<1>9. End' = End /\ \A x : (PlaceOf(x))' = PlaceOf(x)
  BY <1>3, SameText
<1>10. Placed'
  BY <1>3 DEF ReadSoFar, Placed, StartsLine, Newlines
<1>11. ASSUME NEW i \in 1..Len(tokens'), i <= Len(written)
       PROVE  /\ tokens'[i].kind = written[i].kind
              /\ tokens'[i].text = written[i].text
              /\ PlaceOf(tokens'[i]) = written[i].at
  <2>1. i \in 1..n
    BY <1>2, <1>7, <1>11
  <2> QED
    BY <1>7, <1>11, <2>1 DEF ReadSoFar
<1>12. errors' = 0 /\ written' = written /\ pos' = End'
  BY <1>3, <1>9 DEF ReadSoFar
<1>13. ~(Len(tokens') <= Len(written)) /\ Len(tokens') <= Len(written) + 1
  BY <1>2, <1>7
<1> QED
  BY <1>8, <1>9, <1>10, <1>11, <1>12, <1>13 DEF ReadSoFar

LEMMA StartReads ==
  ASSUME src \in Seq(STRING), written \in Seq(Word), LexInit
  PROVE  WrittenInv
<1>1. pos = 1 /\ errors = 0 /\ tokens = <<>>
  BY DEF LexInit
<1>2. Scanning
  <2>1. pos \in 1..End
    BY <1>1 DEF End
  <2>2. tokens \in Seq({})
    BY <1>1
  <2> QED
    BY <2>1, <2>2 DEF Scanning
<1>3. Placed
  BY StartIsPlaced
<1>4. Len(tokens) = 0 /\ Len(written) \in Nat
  BY <1>1
<1>5. LaidOut => Gap(1, Ahead(0))
  <2>1. 0 \in 0..Len(written) /\ Past(0) = 1
    BY <1>4 DEF Past
  <2> QED
    BY <2>1 DEF LaidOut
<1>6. LaidOut => ReadSoFar
  BY <1>1, <1>3, <1>4, <1>5 DEF ReadSoFar
<1> QED
  BY <1>2, <1>6 DEF WrittenInv

LEMMA StepReads == WrittenInv /\ [Next]_vars => WrittenInv'
<1> SUFFICES ASSUME WrittenInv, [Next]_vars PROVE WrittenInv'
  OBVIOUS
<1>1. Scanning /\ written \in Seq(Word) /\ (LaidOut => ReadSoFar)
  BY DEF WrittenInv
<1>2. UNCHANGED <<src, written>> /\ [LexNext]_lexVars
  <2>1. CASE Next
    <3>1. Scan => UNCHANGED src
      BY <1>1, ScanStep
    <3>2. EmitEof => UNCHANGED src
      BY DEF EmitEof
    <3> QED
      BY <2>1, <3>1, <3>2 DEF Next, LexNext
  <2>2. CASE UNCHANGED vars
    BY <2>2 DEF vars, lexVars
  <2> QED
    BY <2>1, <2>2
<1>3. Scanning' /\ written' \in Seq(Word)
  BY <1>1, <1>2, StaysScanning
<1>4. LaidOut' => LaidOut
  BY <1>2, SameGrammar
<1>5. LaidOut => ReadSoFar'
  <2> SUFFICES ASSUME LaidOut, ReadSoFar PROVE ReadSoFar'
    BY <1>1
  <2>1. CASE Scan
    BY <1>1, <1>2, <2>1, ScanReadsOn
  <2>2. CASE EmitEof
    BY <1>1, <1>2, <2>2, EofReadsOn
  <2>3. CASE UNCHANGED vars
    <3>1. UNCHANGED <<src, pos, line, col, tokens, errors, written>>
      BY <2>3 DEF vars
    <3>2. /\ End' = End
          /\ \A x : (PlaceOf(x))' = PlaceOf(x)
          /\ \A a, b : (Gap(a, b))' = Gap(a, b)
          /\ \A k : (Ahead(k))' = Ahead(k)
      BY <3>1, SameText, SameGrammar
    <3>3. Placed' = Placed
      BY <3>1 DEF Placed, StartsLine, Newlines
    <3>4. Lexed' = Lexed
      BY <3>1 DEF Lexed
    <3> QED
      BY <3>1, <3>2, <3>3, <3>4 DEF ReadSoFar
  <2> QED
    BY <2>1, <2>2, <2>3 DEF Next, LexNext
<1> QED
  BY <1>3, <1>4, <1>5 DEF WrittenInv

(* What was written is what is read, of texts with any number of tokens    *)
(* and whatever white space and comments lie between them: no scan reads   *)
(* more than its token, or less, or takes it for another kind.  Whether a  *)
(* text is such a row of tokens is said by the grammar of Written alone.   *)
THEOREM TextsReadBack == WrittenSpec => []ReadsBack
<1>1. src \in Seq(STRING) /\ written \in Seq(Word) /\ LexInit => WrittenInv
  BY StartReads
<1>2. WrittenInv => ReadsBack
  <2> SUFFICES ASSUME WrittenInv, Lexed, LaidOut
               PROVE  /\ errors = 0
                      /\ Len(tokens) = Len(written) + 1
                      /\ \A k \in 1..Len(written) :
                           [kind |-> tokens[k].kind, text |-> tokens[k].text, at |-> PlaceOf(tokens[k])]
                             = written[k]
    BY DEF ReadsBack
  <2>1. Scanning /\ written \in Seq(Word) /\ ReadSoFar
    BY DEF WrittenInv
  <2>2. Len(tokens) \in Nat /\ Len(written) \in Nat
    <3>1. \E S : tokens \in Seq(S)
      BY <2>1 DEF Scanning
    <3> QED
      BY <2>1, <3>1
  <2>3. ~(Len(tokens) <= Len(written))
    <3> SUFFICES ASSUME Len(tokens) <= Len(written) PROVE FALSE
      OBVIOUS
    <3> DEFINE N == Len(tokens)
    <3>1. tokens # <<>> /\ tokens[N].kind = "eof"
      BY DEF Lexed
    <3>2. N # 0
      <4>1. \E S : tokens \in Seq(S)
        BY <2>1 DEF Scanning
      <4> QED
        BY <3>1, <4>1
    <3>3. N \in 1..N /\ N \in 1..Len(written)
      BY <2>2, <3>2
    <3>4. tokens[N].kind = written[N].kind
      BY <2>1, <3>3 DEF ReadSoFar
    <3>5. written[N].kind # "eof"
      BY <2>1, <3>3, WordThere
    <3> QED
      BY <3>1, <3>4, <3>5
  <2>4. Len(tokens) = Len(written) + 1
    BY <2>1, <2>2, <2>3 DEF ReadSoFar
  <2>5. ASSUME NEW k \in 1..Len(written)
        PROVE  [kind |-> tokens[k].kind, text |-> tokens[k].text, at |-> PlaceOf(tokens[k])] = written[k]
    <3>1. written[k] \in Word
      BY <2>1
    <3>2. k \in 1..Len(tokens) /\ k <= Len(written)
      BY <2>2, <2>4
    <3>3. /\ tokens[k].kind = written[k].kind
          /\ tokens[k].text = written[k].text
          /\ PlaceOf(tokens[k]) = written[k].at
      BY <2>1, <3>2 DEF ReadSoFar
    <3>4. written[k] = [kind |-> written[k].kind, text |-> written[k].text, at |-> written[k].at]
      BY <3>1 DEF Word
    <3> QED
      BY <3>3, <3>4
  <2>6. errors = 0
    BY <2>1 DEF ReadSoFar
  <2> QED
    BY <2>4, <2>5, <2>6
<1> QED
  BY <1>1, <1>2, StepReads, PTL DEF WrittenSpec
=============================================================================
