----------------------------- MODULE Exceptions -----------------------------
(***************************************************************************)
(* Exceptions, try/except, try/finally, defer and recover of one fiber:    *)
(* the handler stack of the virtual machine (internal/ir/vm.go: doUnwind,  *)
(* OPEnterTry, OPPopTry, OPRaise, OPReraise, OPRecover, OPReturn,          *)
(* OPCallBuiltin) driven by the code that internal/codegen emits for the   *)
(* statements (compileTry, compileBodyWithDefers, exit, break, goto).      *)
(*                                                                         *)
(* The program is arbitrary.  The place a routine has reached is the       *)
(* sequence of the statements it is inside of, outermost first.  The       *)
(* machine knows nothing of that nesting: it has only its handlers.        *)
(*                                                                         *)
(* A defer is a cleanup of the whole body: compileBodyWithDefers wraps the *)
(* body in a try/finally whose cleanup runs the deferred statements.       *)
(***************************************************************************)
EXTENDS Naturals, Sequences, FiniteSets

CONSTANTS
  MaxFrames,       (* bound: routines active at once                       *)
  MaxNesting,      (* bound: statements one inside another in a routine    *)
  MaxHandlers,     (* bound: entries of the handler stack                  *)
  MaxCleanup,      (* bound: statements of a cleanup                       *)
  Values,          (* what programs raise; two raises in a row differ      *)
  Programs         (* what the programs do, see Uses                       *)

\* A program may leave try statements by halt, which compiles to what exit does,
\* or by a jump, and its cleanups may call builtin routines, such as WriteLn.
Uses == {"exit", "jump", "builtin"}

ASSUME ExceptionsAssumption ==
  /\ {MaxFrames, MaxNesting, MaxHandlers, MaxCleanup} \subseteq Nat
  /\ MaxFrames # 0
  /\ Cardinality(Values) > 1
  /\ Programs \subseteq SUBSET Uses

VARIABLES
  frames,      (* vm.CallStack: where each active routine is                *)
  handlers,    (* vm.handlers                                               *)
  excActive,   (* vm.excActive                                              *)
  excValue,    (* vm.excValue                                               *)
  halted,      (* vm.Halted                                                 *)
  unhandled,   (* vm.RuntimeError = 217                                     *)
  program      (* which of Uses the program has; never changes              *)

vars == <<frames, handlers, excActive, excValue, halted, unhandled, program>>

\* "normal" and "unwinding" are the two copies compileTry emits of a cleanup.
Cleanups == {"normal", "unwinding"}
TryBodies == {"try_except", "try_finally"}
Kinds == {"loop", "except"} \cup TryBodies \cup Cleanups

\* A statement the routine is inside of.  left: for a try/finally and its
\* cleanup, how many statements of the cleanup are still to run.
Statement == [kind : Kinds, left : 0 .. MaxCleanup]
Place == Seq(Statement)

\* tryHandler: the frame and its depth are one number; place stands for pc.
Handler == [depth : Nat, place : Place, isFinally : BOOLEAN, left : 0 .. MaxCleanup]

TypeOK ==
  /\ frames \in Seq(Place) \ {<<>>}
  /\ handlers \in Seq(Handler)
  /\ excActive \in BOOLEAN
  /\ excValue \in Values
  /\ halted \in BOOLEAN
  /\ unhandled \in BOOLEAN
  /\ program \in Programs

Init ==
  /\ frames = <<<<>>>>
  /\ handlers = <<>>
  /\ excActive = FALSE
  /\ excValue \in Values
  /\ halted = FALSE
  /\ unhandled = FALSE
  /\ program \in Programs

-----------------------------------------------------------------------------
Top == Len(frames)
Here == frames[Top]
Front(s) == SubSeq(s, 1, Len(s) - 1)
Last(s) == s[Len(s)]
Inside(kind) == Here # <<>> /\ Last(Here).kind = kind
Running == ~halted

MoveTo(place) == frames' = [frames EXCEPT ![Top] = place]

\* Mutant: an except block does not end the exception it catches.
AlwaysActive(h) == TRUE

StillActive(h) == h.isFinally

\* doUnwind: to the innermost handler, dropping the frames above its own.
Unwind ==
  /\ IF handlers = <<>>
     THEN /\ unhandled' = TRUE
          /\ halted' = TRUE
          /\ excActive' = TRUE
          /\ UNCHANGED <<frames, handlers>>
     ELSE LET h == Last(handlers)
              kind == IF h.isFinally THEN "unwinding" ELSE "except"
          IN  /\ handlers' = Front(handlers)
              /\ frames' = [SubSeq(frames, 1, h.depth) EXCEPT
                              ![h.depth] = Append(h.place, [kind |-> kind, left |-> h.left])]
              /\ excActive' = StillActive(h)
              /\ UNCHANGED <<halted, unhandled>>
  /\ UNCHANGED program

\* Mutant: the code for the end of a try body lacks OPPopTry.
NoPopTry == UNCHANGED handlers

PopTry == handlers' = IF handlers = <<>> THEN handlers ELSE Front(handlers)

-----------------------------------------------------------------------------
(* try statements, as compileTry lowers them.                               *)

EnterTry(kind, left) ==
  /\ Running
  /\ Len(Here) < MaxNesting
  /\ Len(handlers) < MaxHandlers
  /\ handlers' = Append(handlers, [depth |-> Top, place |-> Here,
                                   isFinally |-> kind = "try_finally", left |-> left])
  /\ MoveTo(Append(Here, [kind |-> kind, left |-> left]))
  /\ UNCHANGED <<excActive, excValue, halted, unhandled, program>>

\* Mutant: only the exception path has a copy of the cleanup.
EndTryBodySkipping ==
  /\ Running
  /\ Inside("try_except") \/ Inside("try_finally")
  /\ MoveTo(Front(Here))
  /\ PopTry
  /\ UNCHANGED <<excActive, excValue, halted, unhandled, program>>

\* The end of the body: OPPopTry, then on to the normal copy of the cleanup.
EndTryBody ==
  /\ Running
  /\ \/ Inside("try_except") /\ MoveTo(Front(Here))
     \/ /\ Inside("try_finally")
        /\ MoveTo(Append(Front(Here), [Last(Here) EXCEPT !.kind = "normal"]))
  /\ PopTry
  /\ UNCHANGED <<excActive, excValue, halted, unhandled, program>>

EndExcept ==
  /\ Running
  /\ Inside("except")
  /\ MoveTo(Front(Here))
  /\ UNCHANGED <<handlers, excActive, excValue, halted, unhandled, program>>

\* A statement of a cleanup that has run to its end, OPCallBuiltin excluded.
CleanupStatement ==
  /\ Running
  /\ Inside("normal") \/ Inside("unwinding")
  /\ Last(Here).left > 0
  /\ MoveTo([Here EXCEPT ![Len(Here)].left = @ - 1])
  /\ UNCHANGED <<handlers, excActive, excValue, halted, unhandled, program>>

EndNormalCleanup ==
  /\ Running
  /\ Inside("normal")
  /\ Last(Here).left = 0
  /\ MoveTo(Front(Here))
  /\ UNCHANGED <<handlers, excActive, excValue, halted, unhandled, program>>

\* OPReraise: the exception goes on, unless recover has stopped it.
EndUnwindingCleanup ==
  /\ Running
  /\ Inside("unwinding")
  /\ Last(Here).left = 0
  /\ IF excActive
     THEN Unwind /\ UNCHANGED excValue
     ELSE MoveTo(Front(Here)) /\ UNCHANGED <<handlers, excActive, excValue, halted, unhandled, program>>

-----------------------------------------------------------------------------
(* What the statements of a routine do.                                     *)

\* raise, panic, and a host function that returns an error (RaiseValue).  A
\* raise without operand counts as one more exception, although OPRaise keeps
\* the value it finds.
Raise ==
  /\ Running
  /\ \E v \in Values \ {excValue} : excValue' = v
  /\ Unwind

\* OPCallBuiltin unwinds whenever it finds an exception active after the call,
\* also when the builtin itself succeeded.
BuiltinWhileUnwinding ==
  /\ Running
  /\ "builtin" \in program
  /\ excActive
  /\ Unwind
  /\ UNCHANGED excValue

\* recover.
Recover ==
  /\ Running
  /\ excActive
  /\ excActive' = FALSE
  /\ UNCHANGED <<frames, handlers, excValue, halted, unhandled, program>>

Call ==
  /\ Running
  /\ Len(frames) < MaxFrames
  /\ frames' = Append(frames, <<>>)
  /\ UNCHANGED <<handlers, excActive, excValue, halted, unhandled, program>>

\* Mutant: the handlers of a returning frame stay.
KeepHandlers(depth) == UNCHANGED handlers

\* The handlers that the frame has on top of the stack go.
DropHandlers(depth) ==
  \E n \in 0 .. Len(handlers) :
    /\ \A i \in n + 1 .. Len(handlers) : handlers[i].depth = depth
    /\ n > 0 => handlers[n].depth # depth
    /\ handlers' = SubSeq(handlers, 1, n)

\* Mutant: the root frame is popped like any other.
ReturnFromAny ==
  /\ DropHandlers(Top)
  /\ frames' = Front(frames)
  /\ UNCHANGED <<excActive, excValue, halted, unhandled, program>>

\* OPReturn; in the root frame it ends the run.
Return ==
  /\ IF Top = 1
     THEN halted' = TRUE /\ UNCHANGED <<frames, handlers>>
     ELSE DropHandlers(Top) /\ frames' = Front(frames) /\ UNCHANGED halted
  /\ UNCHANGED <<excActive, excValue, unhandled, program>>

EndRoutine ==
  /\ Running
  /\ Here = <<>>
  /\ Return

\* halt, and exit, compile to a bare OPReturn, whatever they leave.
Exit ==
  /\ Running
  /\ Here # <<>>
  /\ "exit" \in program \/ \A i \in 1 .. Len(Here) : Here[i].kind \notin TryBodies \cup Cleanups
  /\ Return

EnterLoop ==
  /\ Running
  /\ Len(Here) < MaxNesting
  /\ MoveTo(Append(Here, [kind |-> "loop", left |-> 0]))
  /\ UNCHANGED <<handlers, excActive, excValue, halted, unhandled, program>>

\* The end of a loop, break, continue and goto: OPJump, and no OPPopTry for
\* the try statements left.
Jump ==
  /\ Running
  /\ \E n \in 0 .. Len(Here) - 1 :
       /\ "jump" \in program \/ \A i \in n + 1 .. Len(Here) :
                                   Here[i].kind \notin TryBodies \cup Cleanups
       /\ MoveTo(SubSeq(Here, 1, n))
  /\ UNCHANGED <<handlers, excActive, excValue, halted, unhandled, program>>

Ended == halted /\ UNCHANGED vars

Next ==
  \/ EnterTry("try_except", 0)
  \/ \E left \in 0 .. MaxCleanup : EnterTry("try_finally", left)
  \/ EndTryBody
  \/ EndExcept
  \/ CleanupStatement
  \/ EndNormalCleanup
  \/ EndUnwindingCleanup
  \/ Raise
  \/ BuiltinWhileUnwinding
  \/ Recover
  \/ Call
  \/ EndRoutine
  \/ Exit
  \/ EnterLoop
  \/ Jump
  \/ Ended

Spec == Init /\ [][Next]_vars

-----------------------------------------------------------------------------
(* Properties.                                                              *)

\* The handlers are those of active routines, and those of a callee are above
\* those of its callers: OPReturn and doUnwind leave none behind.  Holds for
\* every program, also one that jumps out of try statements.
HandlersNested ==
  /\ \A i \in 1 .. Len(handlers) : handlers[i].depth \in 1 .. Len(frames)
  /\ \A i, j \in 1 .. Len(handlers) : i <= j => handlers[i].depth <= handlers[j].depth

\* A position is a routine and a nesting level in it.
OpenTries == {p \in (1 .. Len(frames)) \X (1 .. MaxNesting) :
                p[2] <= Len(frames[p[1]]) /\ frames[p[1]][p[2]].kind \in TryBodies}
Position(h) == <<h.depth, Len(h.place) + 1>>
Before(p, q) == p[1] < q[1] \/ (p[1] = q[1] /\ p[2] < q[2])

\* The handler stack is exactly the try bodies the program is inside of, over
\* all active routines, from the outermost to the innermost: whatever unwinds
\* goes to the innermost try, as long as no jump leaves one.
HandlersExact ==
  "jump" \notin program =>
    /\ OpenTries = {Position(handlers[i]) : i \in 1 .. Len(handlers)}
    /\ \A i, j \in 1 .. Len(handlers) :
         i < j => Before(Position(handlers[i]), Position(handlers[j]))

\* An exception is active only while some routine runs a cleanup because of
\* it, unless exit or a jump leaves the cleanup: elsewhere a builtin that finds
\* an active exception unwinds although nothing was raised.
ActiveOnlyInCleanup ==
  (program \cap {"exit", "jump"} = {} /\ excActive /\ ~halted) =>
    \E d \in 1 .. Len(frames) : \E i \in 1 .. Len(frames[d]) :
      frames[d][i].kind = "unwinding"

InCleanup(cleanups, d, i) ==
  d <= Len(frames) /\ i <= Len(frames[d]) /\ frames[d][i].kind \in cleanups

\* The body of a try/finally is never left without starting its cleanup, except
\* by exit and jumps: by its end, by an exception raised in it or in a callee.
CleanupStarts ==
  [][program \cap {"exit", "jump"} = {} =>
       \A d \in 1 .. Len(frames) : \A i \in 1 .. Len(frames[d]) :
         frames[d][i].kind = "try_finally" =>
           InCleanup({"try_finally"} \cup Cleanups, d, i)']_vars

\* In a step the cleanup at a position goes on, and no statement of it runs again.
GoesOn(d, i) ==
  /\ InCleanup({frames'[d][i].kind}, d, i)
  /\ frames'[d][i].left <= frames[d][i].left

\* In a step the try/finally at a position gives way to its cleanup, all of it.
Starts(d, i) ==
  /\ InCleanup({"try_finally"}, d, i)
  /\ frames'[d][i].left = frames[d][i].left

\* The cleanup of a try/finally runs at most once for each time the try is
\* entered, and only then: it starts out of the body of its own try and nowhere
\* else, and never again from the start.  So no return, exit, exception, or
\* builtin that unwinds inside a cleanup leaves a handler that would bring the
\* program back to a cleanup that has run, is running, or is of a routine that
\* has returned.  Only jumps out of try statements do.
CleanupOnce ==
  [][ "jump" \notin program =>
       \A d \in 1 .. Len(frames') : \A i \in 1 .. Len(frames'[d]) :
         frames'[d][i].kind \in Cleanups => GoesOn(d, i) \/ Starts(d, i)]_vars
=============================================================================
