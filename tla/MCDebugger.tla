----------------------------- MODULE MCDebugger -----------------------------
(***************************************************************************)
(* A program with a function on one line, a while over two lines whose     *)
(* body calls the function twice, and a loop on one line that calls it:    *)
(*   2  function F ... begin WriteLn; F := 1 end;                          *)
(*   5  x := 1;                                                            *)
(*   6  while x < n do                                                     *)
(*   7    x := F + F;                                                      *)
(*   8  repeat x := F until x > n                                          *)
(***************************************************************************)
EXTENDS Debugger

Routines == {"main", "F"}
Op(o) == [op |-> o]
To(o, pc) == [op |-> o, to |-> pc]
CallF == [op |-> "call", routine |-> "F"]

Loops ==
  [F |-> <<Op("plain"), Op("builtin"), Op("plain"), Op("return")>>,
   main |-> <<Op("plain"),
              Op("plain"),                                    \* 1: line 5
              To("branch", 7),                                \* 2: line 6
              CallF, CallF, Op("plain"), To("jump", 2),       \* 3: line 7
              CallF, To("branch", 7),                         \* 7: line 8
              Op("halt")>>]

LinesOfLoops ==
  [F |-> [i \in {1} |-> 2],
   main |-> [i \in {1, 2, 3, 7} |-> CASE i = 1 -> 5 [] i = 2 -> 6 [] i = 3 -> 7 [] i = 7 -> 8]]
=============================================================================
