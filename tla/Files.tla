-------------------------------- MODULE Files --------------------------------
(***************************************************************************)
(* The console input and the file variables of a program:                  *)
(* internal/codegen/files.go and the reading and formatting of run.go.  A  *)
(* file variable holds the number of an entry in a table; an entry has the *)
(* name given by Assign and the operating system's file, once one has been *)
(* opened.  Lines of text and records of eight bytes go through the same   *)
(* position.                                                               *)
(*                                                                         *)
(* The state is a record: the lines of input not read yet, the table, the  *)
(* directory from names to nodes, and the bytes of the nodes - a file that *)
(* is open keeps its node when the name is erased.  Nothing is ever        *)
(* reported: a call on a file that is not open, or that cannot be opened,  *)
(* written or read, does nothing.                                          *)
(*                                                                         *)
(* Bytes are numbers.  Reals, and failures of the disk, are left out.      *)
(***************************************************************************)
EXTENDS Values, SequencesExt, Functions

StartIO(lines) == [input |-> lines, files |-> <<>>, dir |-> <<>>, nodes |-> <<>>]

LineFeed == 10
Blank == 32
Minus == 45
Zero == 48

---------------------------------------------------------------------------
(* Text of values, and values from text. *)

RECURSIVE Digits(_), Fields(_)
Digits(n) == IF n < 10 THEN <<Zero + n>> ELSE Append(Digits(n \div 10), Zero + (n % 10))
FormatWrite(v) ==
  CASE v[1] = "int" -> IF v[2] < 0 THEN <<Minus>> \o Digits(-v[2]) ELSE Digits(v[2])
    [] v[1] = "bool" -> IF v[2] THEN <<84, 82, 85, 69>> ELSE <<70, 65, 76, 83, 69>>
    [] v[1] = "char" -> <<v[2]>>
    [] v[1] = "str" -> v[2]
    [] v[1] = "nil" -> <<>>
\* At least width characters.
FormatField(v, width) ==
  LET text == FormatWrite(v)
  IN  [k \in 1..(IF width > Len(text) THEN width - Len(text) ELSE 0) |-> Blank] \o text

\* The words of a line.
Fields(line) ==
  LET start == SelectInSeq(line, LAMBDA b : b # Blank)
      rest == SubSeq(line, start, Len(line))
      gap == SelectInSeq(rest, LAMBDA b : b = Blank)
  IN  IF start = 0 THEN <<>>
      ELSE IF gap = 0 THEN <<rest>>
      ELSE <<SubSeq(rest, 1, gap - 1)>> \o Fields(SubSeq(rest, gap, Len(rest)))
\* The number that a word is, 0 if it is none.
ParseInt(word) ==
  LET digits == IF Head(word) = Minus THEN Tail(word) ELSE word
      n == FoldLeft(LAMBDA sum, b : 10 * sum + b - Zero, 0, digits)
  IN  IF digits = <<>> \/ \E k \in DOMAIN digits : digits[k] \notin Zero..Zero + 9 THEN 0
      ELSE IF Head(word) = Minus THEN -n ELSE n

\* The words of a line, one after the other, into the cells referred to, each as
\* what the cell holds; a single string gets the line, a character its first
\* byte.  What finds no word keeps its value.
AssignToken(m, cell, word) ==
  [m EXCEPT ![cell] = IF @[1] = "str" THEN StrVal(word) ELSE IntVal(ParseInt(word))]
AssignTokens(m, line, refs) ==
  LET one(r, ref) ==
        LET kind == r.mem[ref[2]][1] IN
        IF ref[1] # "ptr" THEN r
        ELSE IF kind = "str" /\ Len(refs) = 1 THEN [r EXCEPT !.mem[ref[2]] = StrVal(line)]
        ELSE IF kind = "char" THEN IF line = <<>> THEN r ELSE [r EXCEPT !.mem[ref[2]] = CharVal(line[1])]
        ELSE IF r.words = <<>> THEN r
        ELSE [mem |-> AssignToken(r.mem, ref[2], Head(r.words)), words |-> Tail(r.words)]
  IN  FoldLeft(one, [mem |-> m, words |-> Fields(line)], refs).mem

---------------------------------------------------------------------------
(* Files. *)

TextOf(v) == CASE v[1] = "str" -> v[2] [] v[1] = "char" -> <<v[2]>> [] OTHER -> <<>>
ScalarInt(v) == CASE v[1] \in {"int", "char"} -> v[2] [] v[1] = "bool" -> IF v[2] THEN 1 ELSE 0 [] OTHER -> 0
\* The entry that a reference to a file variable, or its value, leads to.
Handle(m, v) ==
  CASE v[1] = "ptr" -> IF m[v[2]][1] = "int" THEN m[v[2]][2] ELSE 0
    [] v[1] = "int" -> v[2]
    [] OTHER -> 0

\* mode: "none" before the first open and after close; "dead" when a file that
\* was closed to be opened again could not be.
HasFile(io, h) == h \in DOMAIN io.files /\ io.files[h].mode # "none"
IsOpen(io, h) == HasFile(io, h) /\ io.files[h].mode # "dead"
Readable(io, h) == IsOpen(io, h) /\ io.files[h].mode \in {"read", "both"}
Writable(io, h) == IsOpen(io, h) /\ io.files[h].mode \in {"both", "append"}
Contents(io, h) == io.nodes[io.files[h].node]
MovedTo(io, h, pos) == [io EXCEPT !.files[h].pos = pos]

AssignFile(io, name) ==
  [io EXCEPT !.files = Append(@, [name |-> name, mode |-> "none", node |-> 0, pos |-> 0])]

\* Rewrite and Append make the file where there is none; Rewrite empties it.
Created(io, name) ==
  IF name \in DOMAIN io.dir THEN io
  ELSE [io EXCEPT !.nodes = Append(@, <<>>), !.dir = name :> Len(io.nodes) + 1 @@ @]
Opened(io, h, mode) ==
  LET name == io.files[h].name
      made == IF mode = "read" THEN io ELSE Created(io, name)
      node == made.dir[name]
      there == [made EXCEPT !.files[h] = [name |-> name, mode |-> mode, node |-> node, pos |-> 0]]
  IN  IF name = <<>> \/ name \notin DOMAIN made.dir
      THEN [io EXCEPT !.files[h].mode = IF @ = "none" THEN "none" ELSE "dead"]
      ELSE IF mode = "both" THEN [there EXCEPT !.nodes[node] = <<>>] ELSE there
OpenFile(io, h, mode) == IF h \in DOMAIN io.files THEN Opened(io, h, mode) ELSE io
CloseFile(io, h) == IF HasFile(io, h) THEN [io EXCEPT !.files[h].mode = "none"] ELSE io
EraseFile(io, h) ==
  IF h \notin DOMAIN io.files THEN io ELSE [io EXCEPT !.dir = Restrict(@, DOMAIN @ \ {io.files[h].name})]

\* From the position on, or at the end of a file opened by Append; what was never
\* written before is 0.
WriteBytes(io, h, bytes) ==
  LET old == Contents(io, h)
      at == IF io.files[h].mode = "append" THEN Len(old) ELSE io.files[h].pos
      end == at + Len(bytes)
      new == [k \in 1..(IF end > Len(old) THEN end ELSE Len(old)) |->
                IF k \in at + 1..end THEN bytes[k - at] ELSE IF k \in DOMAIN old THEN old[k] ELSE 0]
  IN  IF bytes = <<>> \/ ~Writable(io, h) THEN io
      ELSE MovedTo([io EXCEPT !.nodes[io.files[h].node] = new], h, end)

\* The bytes from the position to the end, none if they cannot be read.
Ahead(io, h) ==
  IF Readable(io, h) THEN SubSeq(Contents(io, h), io.files[h].pos + 1, Len(Contents(io, h))) ELSE <<>>
\* A line ends with a line feed or with the file.
ReadLine(io, h) ==
  LET rest == Ahead(io, h)
      end == SelectInSeq(rest, LAMBDA b : b = LineFeed)
  IN  IF end = 0 THEN [line |-> rest, io |-> MovedTo(io, h, io.files[h].pos + Len(rest))]
      ELSE [line |-> SubSeq(rest, 1, end - 1), io |-> MovedTo(io, h, io.files[h].pos + end)]

\* Eight bytes, the lowest first, two's complement.  (Numbers of programs have
\* three bytes; the others are those of the sign.)
TypedRecSize == 8
PutUint64(n) ==
  [k \in 1..TypedRecSize |-> IF k <= 3 THEN (n \div 256 ^ (k - 1)) % 256 ELSE IF n < 0 THEN 255 ELSE 0]
Uint64(bytes) ==
  bytes[1] + 256 * bytes[2] + 65536 * bytes[3] - IF bytes[TypedRecSize] = 255 THEN 256 ^ 3 ELSE 0
ReadRecord(io, h, m, cell) ==
  LET rest == Ahead(io, h)
      got == SubSeq(rest, 1, IF Len(rest) < TypedRecSize THEN Len(rest) ELSE TypedRecSize)
      n == Uint64([k \in 1..TypedRecSize |-> IF k \in DOMAIN got THEN got[k] ELSE 0])
      kind == m[cell][1]
      val == CASE kind = "char" -> CharVal(n % 256) [] kind = "bool" -> BoolVal(n # 0) [] OTHER -> IntVal(n)
  IN  IF rest = <<>> THEN [io |-> io, mem |-> m]
      ELSE [io |-> MovedTo(io, h, io.files[h].pos + Len(got)), mem |-> [m EXCEPT ![cell] = val]]

AtEnd(io, h) == ~IsOpen(io, h) \/ io.files[h].pos >= Len(Contents(io, h))
FilePos(io, h) == IF IsOpen(io, h) THEN io.files[h].pos \div TypedRecSize ELSE 0
FileSize(io, h) == IF IsOpen(io, h) THEN Len(Contents(io, h)) \div TypedRecSize ELSE 0
SeekTo(io, h, n) == IF IsOpen(io, h) /\ n >= 0 THEN MovedTo(io, h, n * TypedRecSize) ELSE io

---------------------------------------------------------------------------
(* The builtins: the files, the memory and the value after a call. *)

Opening == [reset |-> "read", rewrite |-> "both", append |-> "append"]
FileBuiltins ==
  DOMAIN Opening \cup {"assign", "close", "erase", "rename", "__fwrite", "__fwriteln", "__fread", "__freadln",
                       "__fwritetyped", "__freadtyped", "eof", "seek", "filepos", "filesize", "read", "readln"}
\* Assign numbers the variable anew; Rename has no effect.
CallFile(io, m, n, args) ==
  LET h == IF args = <<>> THEN 0 ELSE Handle(m, args[1])
      does(io1, m1) == [io |-> io1, mem |-> m1, val |-> NilValue]
      gives(v) == [io |-> io, mem |-> m, val |-> v]
      written == FlattenSeq([k \in 1..Len(args) - 1 |-> FormatWrite(args[k + 1])])
      line == ReadLine(io, h)
      record == ReadRecord(io, h, m, args[2][2])
      input == IF io.input = <<>> THEN <<>> ELSE Head(io.input)
  IN  CASE n = "assign" ->
             IF args[1][1] # "ptr" THEN does(io, m)
             ELSE does(AssignFile(io, TextOf(args[2])), [m EXCEPT ![args[1][2]] = IntVal(Len(io.files) + 1)])
        [] n \in DOMAIN Opening -> does(OpenFile(io, h, Opening[n]), m)
        [] n = "close" -> does(CloseFile(io, h), m)
        [] n = "erase" -> does(EraseFile(io, h), m)
        [] n = "rename" -> gives(IntVal(0))
        [] n \in {"__fwrite", "__fwriteln"} ->
             does(WriteBytes(io, h, written \o IF n = "__fwriteln" THEN <<LineFeed>> ELSE <<>>), m)
        [] n \in {"__fread", "__freadln"} ->
             IF HasFile(io, h) THEN does(line.io, AssignTokens(m, line.line, Tail(args))) ELSE does(io, m)
        [] n = "__fwritetyped" -> does(WriteBytes(io, h, PutUint64(ScalarInt(args[2]))), m)
        [] n = "__freadtyped" -> IF args[2][1] = "ptr" THEN does(record.io, record.mem) ELSE does(io, m)
        [] n = "eof" -> gives(BoolVal(AtEnd(io, h)))
        [] n = "seek" -> does(SeekTo(io, h, ScalarInt(args[2])), m)
        [] n = "filepos" -> gives(IntVal(FilePos(io, h)))
        [] n = "filesize" -> gives(IntVal(FileSize(io, h)))
        [] n \in {"read", "readln"} ->
             does([io EXCEPT !.input = IF @ = <<>> THEN @ ELSE Tail(@)], AssignTokens(m, input, args))
=============================================================================
