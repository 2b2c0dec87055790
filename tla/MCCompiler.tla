---------------------------- MODULE MCCompiler ----------------------------
(***************************************************************************)
(* Programs, written as text and read by the parser, compiled and run; and *)
(* what is asked of the code and of the run.                               *)
(***************************************************************************)
EXTENDS Machine

CONSTANT Groups  \* the groups of programs that are compiled

P == INSTANCE Parser
C == INSTANCE Compiler
S == INSTANCE Source
N == INSTANCE Snapshot

RECURSIVE Words(_)
\* The tokens of a line, which are separated by spaces.
Words(line) ==
  LET gaps == {k \in 1..Len(line) : SubSeq(line, k, k) = " "}
      gap == CHOOSE k \in gaps : \A j \in gaps : k <= j
  IN  IF gaps = {} THEN <<line>>
      ELSE <<SubSeq(line, 1, gap - 1)>> \o Words(SubSeq(line, gap + 1, Len(line)))
Parsed(lines, modern) == P!Parse(FlattenSeq([k \in DOMAIN lines |-> Words(lines[k])]) \o <<Eof>>, modern)
Tree(lines, modern) == Last(Parsed(lines, modern).out)

---------------------------------------------------------------------------
(* The programs. *)

Plain == {
  << "program scalars ; const one = 1 ; name = 's' ; type color = ( red , green ) ;",
     "var i , j : integer ; b : boolean ; c : char ; s : string ; k : color ; m : set of color ;",
     "begin i := one + 2 * 3 - 1 ; j := - i div 2 ; write ( i , j , i mod 2 ) ;",
     "s := name + 't' ; c := s [ 2 ] ; s [ 1 ] := c ; s := s + c ; write ( s , length ( s ) , c ) ;",
     "k := succ ( red ) ; m := [ green , 2 .. 3 ] + [ red ] - [ 3 ] ; b := k in m ;",
     "if b and not ( 3 in m ) then writeln ( ord ( k ) , odd ( i ) , abs ( j ) ) ;",
     "write ( m * [ 1 .. 3 ] = [ green , 2 ] , [ red ] <= m , name < s , pred ( i ) , chr ( 1 ) ) end ." >>,
  << "program records ; type point = record x , y : integer end ;",
     "row = array [ 1 .. 2 ] of point ; link = ^ node ; node = record next : link ; at : point end ;",
     "var p , q : point ; r , t : row ; g : array [ 0 .. 1 , 1 .. 2 ] of integer ; first , n : link ; i : integer ;",
     "begin p . x := 1 ; p . y := 2 ; q := p ; q . x := 3 ; r [ 1 ] := p ; r [ 2 ] := q ; t := r ;",
     "t [ 1 ] . y := r [ 2 ] . x ; write ( p . x , r [ 1 ] . y , t [ 1 ] . y , t [ 2 ] . x ) ;",
     "with t [ 2 ] do begin x := x + y ; write ( x ) end ; g [ 1 ] [ 2 ] := t [ 2 ] . x ; write ( g [ 1 ] [ 2 ] ) ;",
     "first := nil ; for i := 1 to 2 do begin new ( n ) ; n ^ . next := first ; n ^ . at . x := i ; first := n end ;",
     "while first <> nil do begin write ( first ^ . at . x ) ; first := first ^ . next end ;",
     "dispose ( n ) ; write ( n = nil ) ; n ^ . at := p end ." >>,
  << "program routines ; type pair = record a , b : integer end ;",
     "var g : integer ; p : pair ; function next : integer ; forward ;",
     "procedure swap ( var x , y : integer ) ; var t : integer ; begin t := x ; x := y ; y := t end ;",
     "function sum ( v : pair ; n : integer ) : integer ; const k = 1 ; var w : pair ;",
     "begin v . a := v . a + n ; w . b := k ; sum := v . a + v . b + w . b ; result := result + w . a end ;",
     "function made ( n : integer ) : pair ; begin result . a := n ; result . b := n + 1 end ;",
     "function fact ( n : integer ) : integer ; begin if n < 2 then fact := 1 else fact := n * fact ( n - 1 ) end ;",
     "function next : integer ; begin g := g + 1 ; next := g end ;",
     "begin p := made ( 2 ) ; swap ( p . a , p . b ) ; write ( p . a , sum ( p , 1 ) , p . a , fact ( 3 ) , next + next ) ;",
     "inc ( g ) ; dec ( g , 3 ) ; write ( g ) ; halt ( g + 2 ) end ." >>,
  << "program objects ; type base = object x : integer ; constructor init ( n : integer ) ; function get : integer ; virtual ;",
     "procedure twice ; end ; sub = object ( base ) y : integer ; function get : integer ; virtual ; procedure add ; end ;",
     "var b : base ; s : sub ;",
     "constructor base . init ( n : integer ) ; begin x := n end ;",
     "function base . get : integer ; begin get := x end ;",
     "procedure base . twice ; begin write ( get + self . get ) end ;",
     "function sub . get : integer ; begin get := x + y end ;",
     "procedure sub . add ; begin inherited twice ; y := y + 1 ; twice end ;",
     "begin b . init ( 1 ) ; s . init ( 2 ) ; s . y := 3 ; b . twice ; s . add ; write ( s . get , b . x ) end ." >>,
  << "program classes ; type base = class n : integer ; constructor create ( k : integer ) ; function kind : string ; virtual ;",
     "property size read n write setsize ; procedure setsize ( k : integer ) ; end ;",
     "sub = class ( base ) function kind : string ; override ; property width read n write n ; end ; plain = class end ;",
     "var a , b : base ; p : plain ;",
     "constructor base . create ( k : integer ) ; begin n := k end ;",
     "function base . kind : string ; begin kind := 's' end ;",
     "procedure base . setsize ( k : integer ) ; begin n := n + k end ;",
     "function sub . kind : string ; begin kind := 't' end ;",
     "begin a := base . create ( 1 ) ; b := sub . create ( 2 ) ; a . size := 3 ; write ( a . size , a . kind , b . kind ) ;",
     "b := a ; b . n := 0 ; write ( a . n , a = b ) ; p := plain . create ; p . free ; p := nil ; a . free ; p . free ;",
     "a := nil ; write ( a . n ) end ." >>,
  << "program arrays ; type grid = array [ 1 .. 2 ] of integer ; var a : array of integer ; g : grid ; x : integer ; s : string ; c : char ;",
     "begin setlength ( a , 2 ) ; a [ 1 ] := 3 ; setlength ( a , 3 ) ; write ( length ( a ) , high ( a ) , low ( a ) , a [ 1 ] , a [ 2 ] ) ;",
     "for x in a do write ( x ) ; s := 's' + 't' ; for c in s do write ( c ) ; setlength ( a , 1 ) ; g [ 2 ] := 1 ;",
     "for x := 2 downto 1 do write ( g [ x ] ) ; for j := 0 to 1 do g [ j + 1 ] := j ; a [ 1 ] := 1 end ." >>,
  << "program money ; var m , n : currency ; t : record pay : currency end ;",
     "begin m := 2 ; n := m * m + 1 ; t . pay := n - m ; write ( m , n , t . pay , m * 3 , n > m , n = 3 ) ; m := tocurrency ( 3 ) ;",
     "if m > t . pay then write ( m ) end ." >>,
  << "program control ; label 1 , 2 ; var i : integer ; begin i := 0 ; 1 : i := i + 1 ; case i of 1 : goto 1 ; 2 , 3 : write ( i ) else goto 2 end ;",
     "repeat i := i + 1 ; if i = 3 then goto 1 until i > 3 ; 2 : write ( i ) end ." >>,
  << "program variants ; type shape = record case kind : integer of 0 : ( r : integer ) ; 1 : ( w , h : integer ) end ;",
     "var s , t : shape ; begin s . kind := 1 ; s . w := 2 ; t := s ; t . w := 3 ; write ( s . w , t . kind , t . h ) end ." >>,
  << "program deep ; function f ( n : integer ) : integer ; begin f := f ( n + 1 ) end ; begin write ( f ( 0 ) ) end ." >>,
  << "program used ; uses crt , shapes ; var x : integer ; begin clrscr ; x := area ( side , 2 ) ; write ( x , unitword ) end ." >>,
  << "program hosted ; var given : string ; begin hostcall ( 1 ) ; write ( hostcall ( given ) = nil ) end ." >>,
  << "program missing ; type t = object procedure p ; end ; var v : t ; begin write ( 1 ) ; v . p end ." >> }

ModernPrograms == {
  << "program sums ; type shape = ( circle ( integer ) , box ( integer , integer ) , dot ) ;",
     "var a , b : shape ; i : integer ;",
     "function area ( s : shape ) : integer ; begin result := match s of circle ( r ) when r > 2 => r * r ; circle ( r ) => r ;",
     "box ( w , h ) => w * h ; dot => 0 end end ;",
     "begin a := circle ( 3 ) ; b := box ( 2 , 3 ) ; write ( area ( a ) , area ( b ) , area ( dot ) , area ( circle ( 1 ) ) ) ;",
     "match a of box ( w , h ) => write ( w ) ; circle ( r ) => begin i := r ; write ( i ) end ; end ;",
     "match i of 1 , 2 => write ( 's' ) ; _ => write ( 't' ) end ; i := match i of 1 => 2 ; else 3 end ;",
     "match some ( i ) of none => write ( 0 ) ; some ( v ) => write ( v ) ; end ;",
     "match i + 1 of 1 => write ( 1 ) ; 2 , 3 => write ( 2 ) ; end end ." >>,
  << "program closures ; type fn = function ( n : integer ) : integer ; var f , g : fn ; k : integer ;",
     "function twice ( n : integer ) : integer ; begin twice := n + n end ;",
     "function apply ( h : fn ; n : integer ) : integer ; begin apply := h ( n ) end ;",
     "procedure count ( var total : integer ; by : integer ) ; var step : fn ;",
     "begin step := function ( n : integer ) : integer begin total := total + by * n ; by := by + 1 ; result := total end ;",
     "write ( step ( 1 ) , step ( 1 ) , by ) end ;",
     "begin f := @ twice ; write ( f ( 2 ) , apply ( f , 3 ) ) ; k := 1 ; count ( k , 2 ) ; write ( k ) ;",
     "g := function ( n : integer ) : integer begin k := k + n ; result := k end ; write ( apply ( g , 1 ) , k ) end ." >>,
  << "program added ; let two = 2 ; type vec = record x , y : integer end ; var a , b , c : vec ;",
     "operator + ( l , r : vec ) q : vec ; begin result . x := l . x + r . x ; result . y := l . y + r . y ; l . x := 0 end ;",
     "type vechelp = record helper for vec function norm ( k : integer ) : integer ; end ;",
     "function vechelp . norm ( k : integer ) : integer ; begin norm := ( x + y ) * k end ;",
     "begin a . x := 1 ; b . x := two ; b . y := 3 ; c := a + b ; write ( c . x , c . y , a . x , c . norm ( 2 ) ) end ." >>,
  << "program generic ; let s : string = 's' ; type box < t > = record value : t end ; var b : box < integer > ;",
     "var n := 2 ; begin b . value := n ; write ( b . value , s ) end ." >>,
  << "program tested ; test 's' begin asserttrue ( x = 3 ) ; assertequal ( 3 , x ) end ;",
     "test 't' begin x := x + 3 ; assertfalse ( x > 3 ) ; write ( 's' ) end ; test 's' begin assertequal ( x , 3 , 't' ) end ;",
     "var x : integer ; begin x := 3 ; defer x := 1 end ." >>,
  << "program failing ; var x : integer ; procedure p ( n : integer ) ; begin defer write ( n ) ; if n > 1 then panic ( 's' ) ; p ( n + 1 ) end ;",
     "begin defer write ( x ) ; try p ( 1 ) except begin x := 1 ; raise end end end ." >> }

\* Statements in statements: each construct around each other one.
Constructs == {
  <<"write ( x )">>,
  <<"x := x + 1 ; write ( 's' )">>,
  <<"if x < 2 then begin", "end else begin", "end">>,
  <<"if odd ( x ) then begin", "end">>,
  <<"while x < 3 do begin", "; x := x + 1 end">>,
  <<"repeat", "; x := x + 1 until x > 2">>,
  <<"for i := 1 to 2 do begin", "end">>,
  <<"for j := x downto 1 do begin", "end">>,
  <<"case x of 0 , 2 : begin", "end ; 1 : write ( 1 ) ; else begin", "end end">>,
  <<"with r do begin a := a + 1 ; write ( a ) ;", "end">> }
\* The holes of a construct filled, the first and the others.
Filled(k, first, other) ==
  FlattenSeq([j \in 1..Len(k) - 1 |-> <<k[j]>> \o (IF j = 1 THEN first ELSE other)]) \o <<Last(k)>>
Simple == {k \in Constructs : Len(k) = 1}
Nested == {<< "program nested ; var x , i , j : integer ; r : record a : integer end ; begin" >>
             \o Filled(outer, Filled(inner, <<"write ( x )">>, <<"x := x + 1">>), last) \o <<"end .">> :
           <<outer, inner>> \in {p \in Constructs \X Constructs : p[1] = p[2] => SubSeq(Head(p[1]), 1, 3) # "for"},
           last \in Simple}

\* Parameters of both kinds, given every kind of variable; pointers and Self too.
Passed == {<< "program passed ; type base = object a : integer ; b : array [ 1 .. 2 ] of integer ; procedure m ; virtual ; end ;",
              "sub = object ( base ) procedure m ; virtual ; end ; ptr = ^ sub ; var g : sub ; q : ptr ; t : array [ 2 .. 3 ] of sub ; w : ^ integer ;",
              "procedure base . m ; begin a := 0 end ; procedure sub . m ; begin inherited m ; a := a + 1 ; write ( g . a ) end ;",
              "procedure p ( " \o mode \o "x : sub ; " \o mode2 \o "y : integer ) ; var l : sub ; begin x . a := 2 ; y := y + 1 ;",
              "l . a := x . a ; l . b [ 1 ] := g . b [ 2 ] ; x . m ; x . b [ 2 ] := y ; write ( g . a , q ^ . a , t [ 2 ] . a , l . a , l . b [ 1 ] ) end ;",
              "begin new ( q ) ; g . b [ 2 ] := 3 ; w := @ g . b [ 2 ] ; p ( " \o x \o " , " \o y \o " ) ; w ^ := w ^ + 1 ;",
              "write ( g . a , g . b [ 2 ] , q ^ . a , q ^ . b [ 2 ] , t [ 2 ] . a , t [ 2 ] . b [ 2 ] ) end ." >> :
             mode \in {"var ", ""}, mode2 \in {"var ", ""}, x \in {"g", "q ^", "t [ 2 ]"},
             y \in {"g . b [ 2 ]", "w ^", "t [ 2 ] . b [ 2 ]"}}

\* Expressions of Booleans, some of them calls that write.
BoolTerms == {"p", "not q", "x < 2", "say ( p )", "say ( q )"}
Logical == {<< "program logical ; var p , q : boolean ; x : integer ;",
               "function say ( b : boolean ) : boolean ; begin write ( b ) ; say := b end ;",
               "begin p := true ; x := 1 ; if ( " \o a \o " ) " \o op \o " ( say ( q ) ) " \o op2 \o " ( q ) then write ( 1 ) else write ( 0 ) ;",
               "write ( ( " \o a \o " ) " \o op \o " ( say ( q ) ) " \o op2 \o " ( say ( p ) ) ) end ." >> :
              a \in BoolTerms, op \in {"and", "or", "="}, op2 \in {"and", "or", "<>"}}
\* Expressions of numbers, grouped by the levels of their operators.
Numeric == {<< "program numeric ; var x , y : integer ; begin x := 3 ; y := 2 ;",
               "write ( x " \o op \o " y " \o op2 \o " ( - x + 1 ) , - x " \o op2 \o " y , + x " \o op2 \o " y ) end ." >> :
              op \in {"+", "-", "*", "div", "mod", "shl"}, op2 \in {"+", "-", "*", "div", "mod", "="}}

\* A record assigned to a local variable, which is changed afterwards.
Aliased == {<< "program aliased ; type pair = record a , b : integer end ; var g : pair ;",
               "procedure p ( var r : pair ) ; var l : pair ; begin l := r ; l . a := 1 ; write ( r . a ) end ;",
               "begin g . a := 2 ; p ( g ) end ." >>}
\* Bodies and cleanups that come to their end, raise and recover, one inside the
\* other, left at places with operands on the stack.
Protected == {<<"try", "except", "end">>, <<"try", "finally", "end">>, <<"begin", "; defer begin", "end end">>}
Ends == {<<"x := x * 2 + 1", "x := x * 2">>, <<"if x > 1 then raise x", "if recover <> nil then x := x + 2">>,
         <<"x := x + fails ( x )", "begin x := x * 2 ; raise x end">>, <<"x := x + fails ( x )", "if recover <> nil then x := x + 2">>}
Guarded == {<< "program guarded ; var x : integer ; function fails ( n : integer ) : integer ;",
               "begin fails := 1 ; if odd ( n ) then panic ( n ) ; x := x + 3 end ;",
               "procedure p ( n : integer ) ; begin", outer[1], inner[1], end[1], inner[2], end[2], inner[3],
               "; x := x * 2 + n", outer[2], "if recover = nil then x := x + 3", outer[3], "end ;",
               "begin x := 1 ; while x < 3 do begin x := x + 1 ; try p ( 1 ) ; write ( x ) except write ( x ) end end ; p ( 2 ) ; write ( x ) end ." >> :
              outer \in Protected, inner \in Protected, end \in Ends}

\* Text files: made, lengthened, emptied and erased, then read by a variable of
\* the same name or of another one, which has no file.
Between == {"s := s ;", "append ( f ) ; writeln ( f , 2 ) ; write ( f , 3 : 2 , x ) ; close ( f ) ;", "rewrite ( f ) ; close ( f ) ;", "erase ( f ) ;"}
Takings == {"readln ( g , s ) ; write ( s )", "readln ( g , x , y ) ; write ( x , y )", "read ( g , c ) ; write ( c , eof ( g ) )",
            "put ( g , 1 ) ; readln ( g , x , s , w ) ; write ( x , s , w )"}
TextFiles == {<< "program texts ; var f , g : text ; r : record log : text end ; x , y : integer ; s , w : string ; c : char ;",
                 "procedure put ( var h : text ; n : integer ) ; begin writeln ( h , n , s : 2 , n > 1 : 3 ) end ;",
                 "begin assign ( f , 's' ) ; assign ( g , " \o name \o " ) ; s := 't' ; write ( f , 1 ) ;", open \o " ( f ) ;",
                 "put ( f , 1 ) ; write ( f , - 3 * 3 , s : 3 ) ; put ( f , 2 ) ; write ( f , 's' : 1 ) ; close ( f ) ; put ( f , 3 ) ;", between,
                 "assign ( r . log , 't' ) ; append ( r . log ) ; writeln ( r . log , s , s ) ; close ( r . log ) ; reset ( g ) ;",
                 "while not eof ( g ) do begin", taking, "end ; close ( g ) ; readln ( g , s ) ; write ( s , eof ( g ) ) end ." >> :
                <<name, open, between>> \in {<<"'s'", "append", b>> : b \in Between} \cup {<<"'t'", "rewrite", "erase ( f ) ;">>},
                taking \in Takings}

\* Files of values: two moves in a file of three, and what it holds then.
Moves == {"seek ( f , 1 ) ;", "read ( f , x ) ; write ( x ) ;", "write ( f , x - 3 ) ;", "seek ( f , 0 ) ; read ( f , x , y ) ; write ( x , y ) ;",
          "reset ( f ) ;"}
TypedFiles == {<< "program values ; type tape = file of integer ; var f : tape ; b : file of boolean ; x , y : integer ; p : boolean ;",
                  "begin assign ( f , 's' ) ; x := 1 ; write ( f , x ) ; rewrite ( f ) ; write ( f , x , 2 , 3 ) ;", one, two,
                  "write ( filepos ( f ) , filesize ( f ) , eof ( f ) ) ; close ( f ) ; write ( filesize ( f ) ) ; reset ( f ) ;",
                  "while not eof ( f ) do begin read ( f , x ) ; write ( x ) end ; read ( f , x ) ; close ( f ) ; write ( filepos ( f ) ) ;",
                  "assign ( b , 't' ) ; rewrite ( b ) ; write ( b , x > 2 , x = 3 ) ; seek ( b , 1 ) ; read ( b , p ) ; write ( p ) end ." >> :
                 one \in Moves, two \in Moves}

\* Two lines of input, "12 -3 s" and "", and none after them.
Typed == << <<49, 50, 32, 32, 45, 51, 32, 115>>, <<>> >>
Console == {<< "program asks ; var x , y : integer ; s , w : string ; c : char ;",
               "begin x := 1 ; s := 's' ;", first, "write ( x , y , s , w , c ) ; readln ;", first, "write ( x : 3 , y , s : 3 , w , c ) end ." >> :
              first \in {"readln ( s ) ;", "read ( x , y ) ;", "readln ( c , x , s , w ) ;", "readln ( s , x , y , w ) ;", "read ( c ) ;"}}

UnitTexts == [n \in {"shapes", "words"} |->
  IF n = "shapes"
  THEN << "unit shapes ; interface uses words ; const side = 3 ; function area ( a , b : integer ) : integer ;",
          "implementation var calls : integer ; function area ( a , b : integer ) : integer ;",
          "begin calls := calls + 1 ; area := a * b + calls end ; initialization calls := 2 ; write ( unitword ) ; end ." >>
  ELSE << "unit words ; interface var unitword : string ; implementation initialization unitword := 't' ; end ." >>]
Units == [n \in DOMAIN UnitTexts |-> Tree(UnitTexts[n], FALSE)]

Texts == [g \in Groups |->
  CASE g = "plain" -> Plain [] g = "modern" -> ModernPrograms [] g = "nested" -> Nested
    [] g = "logical" -> Logical [] g = "passed" -> Passed [] g = "aliased" -> Aliased [] g = "guarded" -> Guarded
    [] g = "files" -> TextFiles \cup TypedFiles \cup Console
    [] OTHER -> Numeric]
Programs == UNION {{[lines |-> t, modern |-> g \in {"modern", "guarded"}, input |-> IF g = "files" THEN Typed ELSE <<>>] : t \in Texts[g]} : g \in Groups}
Options == [externals |-> {"hostcall"}, presets |-> {"given"}, autoLoop |-> TRUE]
Read == [p \in Programs |-> Parsed(p.lines, p.modern)]
Trees == [p \in Programs |-> Last(Read[p].out)]
Compiled ==
  LET module(p) == C!Compile(Trees[p], p.modern, Options, Units)
  IN  {[name |-> p, module |-> module(p), input |-> p.input] : p \in Programs}
ASSUME AllParse == \A p \in Programs : Read[p].errs = 0
ASSUME AllCompile == \A m \in Compiled : m.module.ok

---------------------------------------------------------------------------

\* What the program means, and what it does: it writes what its meaning writes,
\* with the same values, and ends the same way - whatever names stand for,
\* however parts of it are nested, and wherever a value is copied or shared.
\* (Calls nested deeper than the machine allows are no part of the meaning.)
CompiledMeansSource ==
  stop # <<>> /\ stop[1] # 202 => <<out, stop>> = S!Meaning(Trees[prog.name], prog.name.modern, Units, prog.input)

\* The operands an instruction takes and leaves.
Takes(ins) ==
  CASE ins[1] \in {"Push", "PushZero", "LoadGlobal", "LoadLocal", "AddrGlobal", "AddrLocal", "LoadResult",
                   "AddrResult", "Dup", "Jump", "Return", "EnterTry", "PopTry", "Reraise", "Recover", "Halt"} -> 0
    [] ins[1] \in {"StoreRef", "ElemAddr", "Binary", "Compare", "In", "StrChar"} -> 2
    [] ins[1] \in {"SetLength", "StrCharStore"} -> 3
    [] ins[1] \in {"MkSet", "Raise"} -> ins[2]
    [] ins[1] = "CallValue" -> ins[2] + 1
    [] ins[1] \in {"MkTagged", "MakeClosure", "CallBuiltin", "Call", "CallMethod"} -> ins[3]
    [] OTHER -> 1
Gives(ins) == IF ins[1] \in {"StoreGlobal", "StoreLocal", "SetResult", "StoreRef", "SetLength", "StrCharStore",
                             "Pop", "Jump", "JumpIfFalse", "JumpIfTrue", "Return", "EnterTry", "PopTry", "Raise",
                             "Reraise", "Halt"}
              THEN 0 ELSE 1
Tries(ins) == CASE ins[1] = "EnterTry" -> 1 [] ins[1] = "PopTry" -> -1 [] OTHER -> 0
\* Where control goes from an instruction, and the operands and handlers it
\* brings there: those there were before, where it goes to a handler.
Edges(code, pc, h) ==
  LET ins == code[pc]
      after == <<h[pc][1] - Takes(ins) + Gives(ins), h[pc][2] + Tries(ins)>>
  IN  CASE ins[1] \in {"Return", "Raise", "Halt"} -> <<>>
        [] ins[1] = "Jump" -> ins[2] :> after
        [] ins[1] \in {"JumpIfFalse", "JumpIfTrue"} -> ins[2] :> after @@ pc + 1 :> after
        [] ins[1] = "EnterTry" -> ins[2] :> h[pc] @@ pc + 1 :> after
        [] OTHER -> pc + 1 :> after
RECURSIVE Heights(_, _, _)
\* The operands and handlers there are before each instruction that is reached
\* in order, h up to pc.
Heights(code, h, pc) ==
  CASE pc > Len(code) -> h
    [] pc \notin DOMAIN h -> Heights(code, h, pc + 1)
    [] OTHER -> Heights(code, h @@ Edges(code, pc, h), pc + 1)
\* However control reaches an instruction, it finds the same numbers of operands
\* and of handlers, enough for it, and a function leaves none behind: no path
\* through nested statements, guards, case labels, early jumps, dropped results
\* or try statements leaks an operand or takes one that is its caller's, or
\* ends a try that it is not in; and every jump lands in the code.
StackBalanced ==
  Len(frames) = 1 /\ Frame.pc = 1 /\ out = <<>> /\ stop = <<>> =>
    \A f \in DOMAIN Module.funcs :
      LET code == Module.funcs[f].code
          h == Heights(code, 1 :> <<0, 0>>, 1)
      IN  \A pc \in DOMAIN h :
            /\ pc \in DOMAIN code
            /\ h[pc][1] >= Takes(code[pc])
            /\ code[pc][1] = "PopTry" => h[pc][2] > 0
            /\ code[pc][1] \in {"Return", "Halt"} => h[pc][1] = 0
            /\ \A k \in DOMAIN Edges(code, pc, h) : h[k] = Edges(code, pc, h)[k]

\* The cells that are part of a value in a cell; those of a sum type's value,
\* which no statement changes, aside.
Parts(v) ==
  CASE v[1] = "arr" -> v[2]
    [] v[1] = "rec" /\ (\A k \in DOMAIN v[2] : v[2][k][1] # "__tag") -> [k \in DOMAIN v[2] |-> v[2][k][2]]
    [] OTHER -> <<>>
Variables == Range(globals) \cup UNION {ToSet(frames[k].at) \cup {frames[k].res} : k \in DOMAIN frames}
RECURSIVE Reached(_)
Reached(cells) ==
  LET more == cells \cup UNION {ToSet(Parts(mem[c])) \cup (IF mem[c][1] = "ptr" THEN {mem[c][2]} ELSE {}) : c \in cells}
  IN  IF more = cells THEN cells ELSE Reached(more)
\* A cell is a variable or a part of one value only: assigning to one variable,
\* element or field never changes another one, however the value came there.
ValuesOwned ==
  LET live == Reached(Variables) IN
  \A c \in live :
    LET parts == Parts(mem[c]) IN
    /\ IsInjective(parts)
    /\ \A d \in live \ {c} : ToSet(parts) \cap ToSet(Parts(mem[d])) = {}
    /\ ToSet(parts) \cap Variables = {}

\* The cells behind two values that must hold the same, one for the other: of
\* the same parts, or referred to.
Tagged(v) == v[1] = "rec" /\ \E k \in DOMAIN v[2] : v[2][k][1] = "__tag"
RECURSIVE CellPairs(_, _, _, _), SameCells(_, _, _)
CellPairs(m, n, v, w) ==
  CASE v[1] = "ptr" -> {<<v[2], w[2]>>}
    [] v[1] = "func" -> UNION {CellPairs(m, n, v[3][k], w[3][k]) : k \in DOMAIN v[3]}
    [] Tagged(v) -> UNION {CellPairs(m, n, m.mem[v[2][k][2]], n.mem[w[2][k][2]]) : k \in DOMAIN v[2]}
    [] OTHER -> {<<Parts(v)[k], Parts(w)[k]>> : k \in DOMAIN Parts(v)}
RECURSIVE Alike(_, _, _, _)
\* They are alike but for the cells behind them.
Alike(m, n, v, w) ==
  LET each(vs, ws) == DOMAIN vs = DOMAIN ws /\ \A k \in DOMAIN vs : Alike(m, n, vs[k], ws[k])
      fields(x) == [k \in DOMAIN x[2] |-> x[2][k][1]]
      payload(s, x) == [k \in DOMAIN x[2] |-> s.mem[x[2][k][2]]]
  IN  /\ v[1] = w[1]
      /\ CASE v[1] = "ptr" -> TRUE
           [] v[1] = "func" -> v[2] = w[2] /\ each(v[3], w[3])
           [] v[1] = "arr" -> DOMAIN v[2] = DOMAIN w[2]
           [] v[1] = "rec" -> fields(v) = fields(w) /\ (Tagged(v) => each(payload(m, v), payload(n, w)))
           [] OTHER -> v = w
SameCells(m, n, pairs) ==
  LET more == pairs \cup UNION {CellPairs(m, n, m.mem[p[1]], n.mem[p[2]]) :
                                p \in {q \in pairs : Alike(m, n, m.mem[q[1]], n.mem[q[2]])}}
  IN  IF more = pairs THEN pairs ELSE SameCells(m, n, more)
\* Two machines that nothing can tell apart: what one has at the end of a path of
\* parts and references, the other has, and two paths meet in the one where they
\* meet in the other.
SameMachine(m, n) ==
  LET values(s) == <<s.exc.value>> \o s.stack
      cells(s) == FlattenSeq([k \in DOMAIN s.frames |-> Append(s.frames[k].at, s.frames[k].res)])
      roots == {<<m.globals[x], n.globals[x]>> : x \in DOMAIN m.globals}
               \cup {<<cells(m)[k], cells(n)[k]>> : k \in DOMAIN cells(m)}
               \cup UNION {CellPairs(m, n, values(m)[k], values(n)[k]) : k \in DOMAIN values(m)}
      same == SameCells(m, n, roots)
      calls(s) == [k \in DOMAIN s.frames |-> <<s.frames[k].fn, s.frames[k].pc, Len(s.frames[k].at)>>]
  IN  /\ calls(m) = calls(n) /\ m.handlers = n.handlers /\ m.exc.active = n.exc.active
      /\ Len(m.stack) = Len(n.stack)
      /\ \A k \in DOMAIN values(m) : Alike(m, n, values(m)[k], values(n)[k])
      /\ \A p \in same : Alike(m, n, m.mem[p[1]], n.mem[p[2]])
      /\ \A p, q \in same : p[1] = q[1] <=> p[2] = q[2]
State == [mem |-> mem, globals |-> globals, stack |-> stack, exc |-> exc, frames |-> frames, handlers |-> handlers]

\* A machine can pause when a builtin has returned.
MayPause == stop = <<>> /\ Frame.pc > 1 /\ Code[Frame.pc - 1][1] = "CallBuiltin"
\* "The object graph (including aliasing via var-parameters and pointers)
\* round-trips exactly": wherever a program pauses, the machine that is read back
\* from its snapshot is the one that was written - each reference to the variable,
\* the element, the field or the cell of New that it was to, also in the middle
\* of calls with var parameters, methods, closures and handlers.
RestoresExactly ==
  MayPause => SameMachine(State, N!RestoreVM(N!Snapshot(State)))
=============================================================================
