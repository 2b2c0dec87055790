------------------------------- MODULE Frames -------------------------------
(***************************************************************************)
(* The call frames of the virtual machine and the pool that recycles them  *)
(* (internal/ir/vm.go: getFrame, putFrame, doUnwind, OPCall, OPCallMethod, *)
(* OPCallValue, OPMakeClosure, OPSpawn, OPReturn), with the references to  *)
(* local variables that var parameters, closures and spawned fibers hold   *)
(* (internal/codegen/closures.go: compileAnonFunc).                        *)
(*                                                                         *)
(* A frame is a record of the machine that serves many activations of      *)
(* routines, one after the other.  A reference to a local variable points  *)
(* into the array of cells of a frame, not to an activation.  All fibers   *)
(* share one pool.  Any fiber may take the next step: between two steps    *)
(* the program may always switch fibers by a channel operation (Fibers).   *)
(***************************************************************************)
EXTENDS Naturals, Sequences, FiniteSets

CONSTANTS
  Fiber,           (* fibers                                               *)
  Main,            (* the fiber that runs the program body                 *)
  Frame,           (* bound: frames the machine ever allocates             *)
  MaxActivations,  (* bound: routines started, the program body included   *)
  MaxHandlers,     (* bound: try statements open at once in a fiber        *)
  Escapes          (* how closures outlive the routine whose locals they   *)
                   (* have: as the body of a fiber, in a global variable   *)

ASSUME FramesAssumption ==
  /\ Main \in Fiber
  /\ Frame # {}
  /\ {MaxActivations, MaxHandlers} \subseteq Nat
  /\ MaxActivations # 0
  /\ Escapes \subseteq {"spawn", "global"}

VARIABLES
  calls,     (* Fiber.CallStack                                            *)
  handlers,  (* Fiber.handlers: the frame and the depth of each try        *)
  pool,      (* vm.framePool                                               *)
  act,       (* the activation a frame serves or has last served, 0: none  *)
  array,     (* the array of cells under Frame.Locals, by the activation   *)
             (* for which it was made                                      *)
  room,      (* cap(Frame.Locals)                                          *)
  own,       (* whether the routine has variables of its own               *)
  refs,      (* references to variables of other activations in the locals *)
  stored,    (* the references in a closure kept in a global variable      *)
  started,   (* how many activations there have been                       *)
  halted     (* vm.Halted                                                  *)

frameVars == <<pool, act, array, room, own, refs, started>>
vars == <<calls, handlers, pool, act, array, room, own, refs, stored, started, halted>>

\* escaped: a closure that may outlive the routine has captured the variable.
Reference == [array : Nat, act : Nat, escaped : BOOLEAN]
Handler == [frame : Frame, depth : Nat]

TypeOK ==
  /\ calls \in [Fiber -> Seq(Frame)] /\ calls[Main] # <<>>
  /\ handlers \in [Fiber -> Seq(Handler)]
  /\ pool \in Seq(Frame)
  /\ act \in [Frame -> Nat]
  /\ array \in [Frame -> Nat]
  /\ room \in [Frame -> Nat]
  /\ own \in [Frame -> BOOLEAN]
  /\ refs \in [Frame -> SUBSET Reference]
  /\ stored \in SUBSET Reference
  /\ started \in Nat
  /\ halted \in BOOLEAN

\* The program body has no locals: its variables are globals.
Init ==
  /\ \E root \in Frame :
       /\ calls = [f \in Fiber |-> IF f = Main THEN <<root>> ELSE <<>>]
       /\ act = [f \in Frame |-> IF f = root THEN 1 ELSE 0]
       /\ array = [f \in Frame |-> IF f = root THEN 1 ELSE 0]
  /\ handlers = [f \in Fiber |-> <<>>]
  /\ pool = <<>>
  /\ room = [f \in Frame |-> 0]
  /\ own = [f \in Frame |-> FALSE]
  /\ refs = [f \in Frame |-> {}]
  /\ stored = {}
  /\ started = 1
  /\ halted = FALSE

-----------------------------------------------------------------------------
Depth(fiber) == Len(calls[fiber])
Top(fiber) == calls[fiber][Depth(fiber)]
Runs(fiber) == ~halted /\ calls[fiber] # <<>>

\* Mutant: the pool is read and not shortened.
PoolKept == pool

PoolLeft == IF pool = <<>> THEN pool ELSE SubSeq(pool, 1, Len(pool) - 1)

\* getFrame: the frame returned last, else one that was never in use.
Available == IF pool = <<>> THEN {f \in Frame : act[f] = 0} ELSE {pool[Len(pool)]}

\* Mutant: the cells of a pooled frame are not cleared.
StaleLocals(frame, given) == refs[frame] \cup given

Locals(frame, given) == given

\* A pooled frame keeps its cells when they are enough for the routine, and
\* they are cleared before the arguments are bound.
Activate(frame, given, hasOwn) ==
  LET size == Cardinality(given) + (IF hasOwn THEN 1 ELSE 0)
      fits == pool # <<>> /\ room[frame] >= size
  IN  /\ frame \in Available
      /\ started < MaxActivations
      /\ started' = started + 1
      /\ pool' = PoolLeft
      /\ act' = [act EXCEPT ![frame] = started + 1]
      /\ array' = [array EXCEPT ![frame] = IF fits THEN @ ELSE started + 1]
      /\ room' = [room EXCEPT ![frame] = IF fits THEN @ ELSE size]
      /\ own' = [own EXCEPT ![frame] = hasOwn]
      /\ refs' = [refs EXCEPT ![frame] = Locals(frame, given)]

\* OPAddrLocal for the routine's own variables, OPLoadLocal for its var
\* parameters: what it can pass on, and what an anonymous routine captures.
Visible(frame) ==
  refs[frame] \cup (IF own[frame] THEN {[array |-> array[frame], act |-> act[frame], escaped |-> FALSE]} ELSE {})

Captured(frame) == {[r EXCEPT !.escaped = TRUE] : r \in Visible(frame)}

Push(fiber, frame) == calls' = [calls EXCEPT ![fiber] = Append(@, frame)]

\* OPCall, OPCallMethod, and OPCallValue of a closure made in the same routine.
Call(fiber) ==
  /\ Runs(fiber)
  /\ \E frame \in Frame, given \in SUBSET Visible(Top(fiber)), hasOwn \in BOOLEAN :
       /\ Activate(frame, given, hasOwn)
       /\ Push(fiber, frame)
  /\ UNCHANGED <<handlers, stored, halted>>

\* A closure is assigned to a global variable, or called from there.
Store(fiber) ==
  /\ Runs(fiber)
  /\ "global" \in Escapes
  /\ stored' = Captured(Top(fiber))
  /\ UNCHANGED <<calls, handlers, frameVars, halted>>

CallStored(fiber) ==
  /\ Runs(fiber)
  /\ stored # {}
  /\ \E frame \in Frame, hasOwn \in BOOLEAN :
       /\ Activate(frame, stored, hasOwn)
       /\ Push(fiber, frame)
  /\ UNCHANGED <<handlers, stored, halted>>

\* spawn: the statement becomes an anonymous routine with every visible local
\* captured, and its frame the root of a new fiber.
Spawn(fiber, child) ==
  /\ Runs(fiber)
  /\ calls[child] = <<>>
  /\ child # Main
  /\ "spawn" \in Escapes \/ Visible(Top(fiber)) = {}
  /\ \E frame \in Frame :
       /\ Activate(frame, Captured(Top(fiber)), FALSE)
       /\ Push(child, frame)
  /\ handlers' = [handlers EXCEPT ![child] = <<>>]
  /\ UNCHANGED <<stored, halted>>

-----------------------------------------------------------------------------
\* The frames above a depth go to the pool, the innermost one first.
Released(fiber, depth) ==
  [i \in 1 .. Depth(fiber) - depth |-> calls[fiber][Depth(fiber) + 1 - i]]

PopTo(fiber, depth) ==
  /\ calls' = [calls EXCEPT ![fiber] = SubSeq(@, 1, depth)]
  /\ pool' = pool \o Released(fiber, depth)

EnterTry(fiber) ==
  /\ Runs(fiber)
  /\ Len(handlers[fiber]) < MaxHandlers
  /\ handlers' = [handlers EXCEPT ![fiber] =
                    Append(@, [frame |-> Top(fiber), depth |-> Depth(fiber)])]
  /\ UNCHANGED <<calls, frameVars, stored, halted>>

\* The end of a try body, in the routine that opened it.
PopTry(fiber) ==
  /\ Runs(fiber)
  /\ handlers[fiber] # <<>>
  /\ handlers[fiber][Len(handlers[fiber])].depth = Depth(fiber)
  /\ handlers' = [handlers EXCEPT ![fiber] = SubSeq(@, 1, Len(@) - 1)]
  /\ UNCHANGED <<calls, frameVars, stored, halted>>

\* doUnwind.
Raise(fiber) ==
  /\ Runs(fiber)
  /\ IF handlers[fiber] = <<>>
     THEN halted' = TRUE /\ UNCHANGED <<calls, handlers, pool>>
     ELSE /\ PopTo(fiber, handlers[fiber][Len(handlers[fiber])].depth)
          /\ handlers' = [handlers EXCEPT ![fiber] = SubSeq(@, 1, Len(@) - 1)]
          /\ UNCHANGED halted
  /\ UNCHANGED <<act, array, room, own, refs, stored, started>>

\* Mutant: the handlers of the returning frame stay.
DropNone(fiber) == UNCHANGED handlers

\* OPReturn drops the handlers whose frame is the returning one.
DropHandlers(fiber) ==
  \E n \in 0 .. Len(handlers[fiber]) :
    /\ \A i \in n + 1 .. Len(handlers[fiber]) : handlers[fiber][i].frame = Top(fiber)
    /\ n > 0 => handlers[fiber][n].frame # Top(fiber)
    /\ handlers' = [handlers EXCEPT ![fiber] = SubSeq(@, 1, n)]

\* Mutant: the program body returns like any other routine.
ReturnFromAny(fiber) ==
  /\ Runs(fiber)
  /\ PopTo(fiber, Depth(fiber) - 1)
  /\ IF Depth(fiber) = 1 THEN UNCHANGED handlers ELSE DropHandlers(fiber)
  /\ UNCHANGED <<halted, act, array, room, own, refs, stored, started>>

\* OPReturn.  The root frame of the main fiber ends the program; that of
\* another fiber ends the fiber, whose handlers nobody looks at again.
Return(fiber) ==
  /\ Runs(fiber)
  /\ IF Depth(fiber) = 1 /\ fiber = Main
     THEN halted' = TRUE /\ UNCHANGED <<calls, handlers, pool>>
     ELSE /\ PopTo(fiber, Depth(fiber) - 1)
          /\ IF Depth(fiber) = 1 THEN UNCHANGED handlers ELSE DropHandlers(fiber)
          /\ UNCHANGED halted
  /\ UNCHANGED <<act, array, room, own, refs, stored, started>>

Ended == halted /\ UNCHANGED vars

Next ==
  \/ \E fiber \in Fiber :
       \/ Call(fiber)
       \/ Store(fiber)
       \/ CallStored(fiber)
       \/ \E child \in Fiber : Spawn(fiber, child)
       \/ EnterTry(fiber)
       \/ PopTry(fiber)
       \/ Raise(fiber)
       \/ Return(fiber)
  \/ Ended

Spec == Init /\ [][Next]_vars

-----------------------------------------------------------------------------
(* Properties.                                                              *)

\* A frame serves one activation at a time: it is on one call stack, at one
\* depth, or once in the pool, whatever is called, raised, spawned and
\* returned.  Two getFrame never hand out a frame that is still in use.
FrameOnce ==
  /\ \A f \in Fiber : \A i, j \in 1 .. Depth(f) : calls[f][i] = calls[f][j] => i = j
  /\ \A f, g \in Fiber : \A i \in 1 .. Depth(f), j \in 1 .. Depth(g) :
       calls[f][i] = calls[g][j] => f = g
  /\ \A i, j \in 1 .. Len(pool) : pool[i] = pool[j] => i = j
  /\ \A f \in Fiber : \A i \in 1 .. Depth(f), j \in 1 .. Len(pool) : calls[f][i] # pool[j]

\* The frame a handler points at is the one at the handler's depth: doUnwind
\* never sets the program counter of a frame that was recycled meanwhile.
HandlerFrameLive ==
  \A f \in Fiber : calls[f] # <<>> =>
    \A i \in 1 .. Len(handlers[f]) :
      /\ handlers[f][i].depth \in 1 .. Depth(f)
      /\ calls[f][handlers[f][i].depth] = handlers[f][i].frame

\* The cells a reference points to hold the variables of the activation it was
\* made in.
Reaches(r) ==
  \A frame \in Frame : array[frame] = r.array => act[frame] = r.act

Live(r) ==
  \E f \in Fiber : \E i \in 1 .. Depth(f) :
    act[calls[f][i]] = r.act /\ array[calls[f][i]] = r.array

\* A reference that no closure has captured is to a variable of an active
\* routine: var parameters never dangle, however the routines between them are
\* left and their frames recycled, also by other fibers.
RefsLive ==
  \A f \in Fiber : \A i \in 1 .. Depth(f) : \A r \in refs[calls[f][i]] :
    r.escaped \/ Live(r)

\* "a frame's locals are no longer referenced once it returns": the captured
\* locals of a fiber or of a closure are those of the routine it was made in.
CapturesKept ==
  \A f \in Fiber : \A i \in 1 .. Depth(f) : \A r \in refs[calls[f][i]] : Reaches(r)
=============================================================================
