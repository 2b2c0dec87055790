--------------------------- MODULE DurableProofs ---------------------------
(***************************************************************************)
(* Proofs about Durable: for any scripts, limits and inputs, and whatever  *)
(* the host does with calls, crashes and the States it was given.          *)
(***************************************************************************)
EXTENDS Durable, TLAPS

Errors == {NoError, StepLimit, OverLimit, OtherError, Unhandled}

USE DurableAssumption

-----------------------------------------------------------------------------
(* The machine: what each of the model's operators returns.                 *)

\* A new machine, and one made from a State, are machines.
LEMMA FreshType ==
  ASSUME TypeOK, NEW s \in Script, NEW mode \in {"run", "durable"}
  PROVE  Fresh(s, mode) \in Machine
  BY DEF TypeOK, Fresh, Machine, NoError

LEMMA RestoreType ==
  ASSUME TypeOK, NEW st \in State
  PROVE  /\ Restore(st) \in Machine
         /\ [Restore(st) EXCEPT !.script = st.script] = Restore(st)
         /\ ProgressOf(Restore(st)) = ProgressOf(st)
         /\ Restore(st).exc = st.exc
         /\ Restore(st).error = st.error
         /\ Restore(st).script = st.script
         /\ Restore(st).suspended = FALSE
         /\ Restore(st).halted = FALSE
<1> DEFINE f == Fresh(st.script, "durable")
<1>1. f \in Machine /\ f.script = st.script /\ f.suspended = FALSE /\ f.halted = FALSE
  BY FreshType DEF Fresh, State
<1>2. /\ st.script \in Script /\ st.steps \in Nat /\ st.output \in Nat
      /\ st.draws \in Nat /\ st.exc \in BOOLEAN /\ st.error \in Errors
  BY DEF State, Errors
<1>3. Restore(st) = [f EXCEPT !.steps = st.steps, !.output = st.output,
                              !.draws = st.draws, !.exc = st.exc, !.error = st.error]
  BY DEF Restore
<1> HIDE DEF f
<1>4. Restore(st) \in Machine
  BY <1>1, <1>2, <1>3 DEF Machine, Errors
<1>5. /\ Restore(st).script = st.script /\ Restore(st).steps = st.steps
      /\ Restore(st).output = st.output /\ Restore(st).draws = st.draws
      /\ Restore(st).exc = st.exc /\ Restore(st).error = st.error
      /\ Restore(st).suspended = FALSE /\ Restore(st).halted = FALSE
  BY <1>1, <1>2, <1>3 DEF Machine
<1>6. [Restore(st) EXCEPT !.script = st.script] = Restore(st)
  BY <1>4, <1>5 DEF Machine
<1>7. QED
  BY <1>4, <1>5, <1>6 DEF ProgressOf

\* VM.Step counts the instruction and touches nothing else.
LEMMA CountedType ==
  ASSUME vm \in Machine
  PROVE  /\ Counted \in Machine
         /\ Counted = [vm EXCEPT !.steps = vm.steps + 1]
<1>1. vm.steps + 1 \in Nat
  BY DEF Machine
<1>2. QED
  BY <1>1 DEF Counted, Machine

-----------------------------------------------------------------------------
(* The inductive invariant.                                                 *)

Going(m) == ~m.exc /\ ~m.suspended /\ m.error = NoError

\* A script that does not unwind runs with nothing raised and no wish to
\* suspend, so that the wish is granted at once, or by nobody.
Clean(m) ==
  m.script \notin Unwinding =>
    /\ ~m.halted => Going(m)
    /\ m.halted /\ m.suspended => PausedCleanly(m) /\ ~m.exc

\* Such a script is resumed, too, with nothing raised.
StatesGoOn ==
  \A st \in states : st.script \notin Unwinding => PausedCleanly(st) /\ ~st.exc

EndedSomehow(m) == m.halted => m.ended # "no"

IInv ==
  /\ TypeOK
  /\ vm # Off => EndedSomehow(vm) /\ Clean(vm)
  /\ StatesGoOn

\* What one instruction of the script may make of the machine.
StepsOn(m) ==
  /\ m \in Machine
  /\ m.script = vm.script
  /\ m.steps = vm.steps + 1
  /\ m.output \in {vm.output, vm.output + 1}
  /\ m.draws \in {vm.draws, vm.draws + 1}
  /\ EndedSomehow(m)
  /\ Clean(m)

\* A machine in the middle of an instruction.
Amid(m) == StepsOn([m EXCEPT !.suspended = FALSE]) /\ m \in Machine /\ ~m.halted

LEMMA AmidFields ==
  ASSUME NEW m, Amid(m)
  PROVE  /\ m \in Machine /\ m.halted = FALSE
         /\ m.script = vm.script
         /\ m.steps = vm.steps + 1
         /\ m.output \in {vm.output, vm.output + 1}
         /\ m.draws \in {vm.draws, vm.draws + 1}
         /\ m.script \notin Unwinding => ~m.exc /\ m.error = NoError
  BY DEF Amid, StepsOn, Machine, Clean, Going

\* And the other way round.
LEMMA AmidIntro ==
  ASSUME NEW m \in Machine, m.halted = FALSE, m.script = vm.script,
         m.steps = vm.steps + 1,
         m.output \in {vm.output, vm.output + 1},
         m.draws \in {vm.draws, vm.draws + 1},
         m.script \notin Unwinding => ~m.exc /\ m.error = NoError
  PROVE  /\ Amid(m)
         /\ (m.script \notin Unwinding => ~m.suspended) => StepsOn(m)
<1> DEFINE n == [m EXCEPT !.suspended = FALSE]
<1>1. /\ n \in Machine /\ n.halted = FALSE /\ n.script = m.script
      /\ n.steps = m.steps /\ n.output = m.output /\ n.draws = m.draws
      /\ n.exc = m.exc /\ n.error = m.error /\ n.suspended = FALSE
  BY DEF Machine
<1> HIDE DEF n
<1>2. StepsOn(n)
  BY <1>1 DEF StepsOn, EndedSomehow, Clean, Going
<1>3. QED
  BY <1>2 DEF n, Amid, StepsOn, EndedSomehow, Clean, Going

LEMMA CountedAmid ==
  ASSUME IInv, Running
  PROVE  /\ vm \in Machine
         /\ Amid(Counted) /\ StepsOn(Counted)
         /\ Counted = [vm EXCEPT !.steps = vm.steps + 1]
         /\ Counted.exc = vm.exc /\ Counted.error = vm.error
         /\ Counted.suspended = vm.suspended /\ Counted.heap = vm.heap
         /\ Counted.output = vm.output /\ Counted.draws = vm.draws
<1>1. vm \in Machine /\ vm.halted = FALSE /\ Clean(vm)
  BY DEF IInv, TypeOK, Running, Machine
<1>2. Counted \in Machine /\ Counted = [vm EXCEPT !.steps = vm.steps + 1]
  BY <1>1, CountedType
<1>3. /\ Counted.script = vm.script /\ Counted.steps = vm.steps + 1
      /\ Counted.output = vm.output /\ Counted.draws = vm.draws
      /\ Counted.exc = vm.exc /\ Counted.error = vm.error
      /\ Counted.suspended = vm.suspended /\ Counted.heap = vm.heap
      /\ Counted.halted = FALSE
  BY <1>1, <1>2 DEF Machine
<1>4. Counted.script \notin Unwinding =>
        ~Counted.exc /\ Counted.error = NoError /\ ~Counted.suspended
  BY <1>1, <1>3 DEF Clean, Going
<1>5. Amid(Counted) /\ StepsOn(Counted)
  BY <1>2, <1>3, <1>4, AmidIntro
<1>6. QED
  BY <1>1, <1>2, <1>3, <1>5

\* A machine that halts in the middle of an instruction: with a wish to
\* suspend only if it pauses, or unwinds.
LEMMA HaltedSteps ==
  ASSUME NEW m, Amid(m), NEW error \in Errors,
         NEW ended \in {"paused", "returned", "failed"},
         (m.script \notin Unwinding /\ m.suspended) => error = NoError /\ ended = "paused"
  PROVE  StepsOn(Halted(m, error, ended))
<1> DEFINE h == Halted(m, error, ended)
<1>1. /\ m \in Machine /\ m.script = vm.script /\ m.steps = vm.steps + 1
      /\ m.output \in {vm.output, vm.output + 1}
      /\ m.draws \in {vm.draws, vm.draws + 1}
      /\ m.script \notin Unwinding => ~m.exc
  BY AmidFields
<1>2. /\ h \in Machine /\ h.halted = TRUE /\ h.ended = ended /\ h.error = error
      /\ h.exc = m.exc /\ h.suspended = m.suspended /\ ProgressOf(h) = ProgressOf(m)
  BY <1>1 DEF Halted, Machine, Errors, ProgressOf
<1>3. /\ h.script = m.script /\ h.steps = m.steps /\ h.output = m.output
      /\ h.draws = m.draws
  BY <1>2 DEF ProgressOf
<1> HIDE DEF h
<1>4. EndedSomehow(h) /\ Clean(h)
  BY <1>1, <1>2, <1>3 DEF EndedSomehow, Clean, PausedCleanly
<1>5. QED
  BY <1>1, <1>2, <1>3, <1>4 DEF StepsOn, h

\* doUnwind, in a program that unwinds.
LEMMA UnwoundSteps ==
  ASSUME NEW m, Amid(m), m.script \in Unwinding, NEW n \in Unwound(m)
  PROVE  StepsOn(n)
<1>1. /\ m \in Machine /\ m.halted = FALSE /\ m.script = vm.script
      /\ m.steps = vm.steps + 1
      /\ m.output \in {vm.output, vm.output + 1}
      /\ m.draws \in {vm.draws, vm.draws + 1}
  BY AmidFields
<1>2. ASSUME NEW e \in BOOLEAN
      PROVE  Amid([m EXCEPT !.exc = e]) /\ StepsOn([m EXCEPT !.exc = e])
  <2> DEFINE k == [m EXCEPT !.exc = e]
  <2>1. /\ k \in Machine /\ k.halted = FALSE /\ k.script = m.script
        /\ k.steps = m.steps /\ k.output = m.output /\ k.draws = m.draws
    BY <1>1 DEF Machine
  <2> HIDE DEF k
  <2>2. Amid(k) /\ StepsOn(k)
    BY <1>1, <2>1, AmidIntro
  <2>3. QED
    BY <2>2 DEF k
<1>3. StepsOn(Halted([m EXCEPT !.exc = TRUE], Unhandled, "failed"))
  <2>1. [m EXCEPT !.exc = TRUE].script \in Unwinding /\ Unhandled \in Errors
    BY <1>1 DEF Machine, Errors
  <2>2. QED
    BY <1>2, <2>1, HaltedSteps
<1>4. QED
  BY <1>2, <1>3 DEF Unwound

\* OPCallBuiltin after the builtin: the wish to suspend is granted, or the
\* exception goes first.
LEMMA BuiltinReturnsSteps ==
  ASSUME NEW m, Amid(m), NEW n \in BuiltinReturns(m)
  PROVE  StepsOn(n)
<1>1. /\ m \in Machine /\ m.halted = FALSE /\ m.script = vm.script
      /\ m.steps = vm.steps + 1
      /\ m.output \in {vm.output, vm.output + 1}
      /\ m.draws \in {vm.draws, vm.draws + 1}
      /\ m.script \notin Unwinding => ~m.exc /\ m.error = NoError
      /\ m.error \in Errors
  BY AmidFields DEF Machine, Errors
<1>2. CASE m.exc
  BY <1>1, <1>2, UnwoundSteps DEF BuiltinReturns
<1>3. CASE ~m.exc /\ m.suspended
  BY <1>1, <1>3, HaltedSteps DEF BuiltinReturns
<1>4. CASE ~m.exc /\ ~m.suspended
  BY <1>1, <1>4, AmidIntro DEF BuiltinReturns
<1>5. QED
  BY <1>2, <1>3, <1>4

-----------------------------------------------------------------------------
(* The instructions of the script.                                          *)

Instruction ==
  \/ HitsLimit \/ Compute \/ Assign \/ Allocate \/ Write \/ Random \/ GatedCall
  \/ FileCall \/ Suspend \/ Raise \/ EndCleanup \/ Fail \/ Return

\* An instruction counts one step, writes at most one line, draws at most one
\* random number, and, but for a program that unwinds, is where the wish to
\* suspend is both uttered and granted.
LEMMA InstructionSteps ==
  ASSUME IInv, Instruction
  PROVE  /\ Running /\ StepsOn(vm')
         /\ audit' \in Seq(Script)
         /\ UNCHANGED <<goVar, output, completed, states, result, calls>>
<1>1. Running
  BY DEF Instruction, HitsLimit, Compute, Assign, Allocate, Write, Random, GatedCall,
         FileCall, Suspend, Raise, EndCleanup, Fail, Return, Execute
<1>2. UNCHANGED <<goVar, output, completed, states, result, calls>>
  BY DEF Instruction, HitsLimit, Compute, Assign, Allocate, Write, Random, GatedCall,
         FileCall, Suspend, Raise, EndCleanup, Fail, Return, Execute
<1>3. /\ vm \in Machine /\ Amid(Counted) /\ StepsOn(Counted)
      /\ Counted.exc = vm.exc /\ Counted.error = vm.error
      /\ Counted.suspended = vm.suspended /\ Counted.heap = vm.heap
      /\ Counted.output = vm.output /\ Counted.draws = vm.draws
  BY <1>1, CountedAmid
<1>4. /\ Counted \in Machine /\ Counted.halted = FALSE
      /\ Counted.script = vm.script /\ Counted.steps = vm.steps + 1
      /\ Counted.script \notin Unwinding =>
           ~Counted.exc /\ Counted.error = NoError
  BY <1>3, AmidFields
<1>4a. /\ Counted.output = vm.output /\ Counted.draws = vm.draws
      /\ {Counted.heap + 1, Counted.output + 1, Counted.draws + 1} \subseteq Nat
  <2>1. Counted.heap \in Nat /\ Counted.output \in Nat /\ Counted.draws \in Nat
    BY <1>4 DEF Machine
  <2>2. QED
    BY <1>3, <2>1
<1>5. Counted.script \notin Unwinding => ~Counted.suspended
  BY <1>1, <1>3, <1>4 DEF IInv, Clean, Going, Running
<1>6. {NoError, StepLimit, OverLimit, OtherError, Unhandled, vm.error} \subseteq Errors
  BY <1>3 DEF Machine, Errors
<1>7. audit' \in Seq(Script)
  <2>1. audit \in Seq(Script) /\ vm.script \in Script
    BY <1>3 DEF IInv, TypeOK, Machine
  <2>2. CASE GatedCall
    BY <2>1, <2>2 DEF GatedCall
  <2>3. CASE UNCHANGED audit
    BY <2>1, <2>3
  <2>4. QED
    BY <2>2, <2>3 DEF Instruction, HitsLimit, Compute, Assign, Allocate, Write, Random,
         FileCall, Suspend, Raise, EndCleanup, Fail, Return
<1> SUFFICES StepsOn(vm')
  BY <1>1, <1>2, <1>7
<1>8. CASE HitsLimit
  <2>1. vm' = Halted(Counted, StepLimit, "failed") \/ vm' = Halted(Counted, OverLimit, "failed")
    BY <1>8 DEF HitsLimit
  <2>2. QED
    BY <1>3, <1>5, <1>6, <2>1, HaltedSteps
<1>9. CASE Compute
  BY <1>3, <1>9 DEF Compute, Execute
<1>10. CASE Assign
  <2>1. PICK v \in Input : vm' = [Counted EXCEPT !.x = v]
    BY <1>10 DEF Assign, Execute
  <2>2. /\ vm' \in Machine /\ vm'.halted = FALSE /\ vm'.script = vm.script
        /\ vm'.steps = vm.steps + 1 /\ vm'.output = vm.output /\ vm'.draws = vm.draws
        /\ vm'.exc = Counted.exc /\ vm'.error = Counted.error
        /\ vm'.suspended = Counted.suspended
    BY <1>3, <1>4, <2>1 DEF Machine
  <2>3. vm'.script \notin Unwinding => ~vm'.exc /\ vm'.error = NoError /\ ~vm'.suspended
    BY <1>4, <1>5, <2>2
  <2>4. QED
    BY <2>2, <2>3, AmidIntro
<1>11. CASE Allocate
  <2> DEFINE m == [Counted EXCEPT !.heap = Counted.heap + 1]
  <2>1. vm' = m \/ vm' = Halted(m, OverLimit, "failed")
    BY <1>11 DEF Allocate, Execute
  <2>2. /\ m \in Machine /\ m.halted = FALSE /\ m.script = vm.script
        /\ m.steps = vm.steps + 1 /\ m.output = vm.output /\ m.draws = vm.draws
        /\ m.exc = Counted.exc /\ m.error = Counted.error
        /\ m.suspended = Counted.suspended
    BY <1>4, <1>4a DEF Machine
  <2> HIDE DEF m
  <2>3. m.script \notin Unwinding => ~m.exc /\ m.error = NoError /\ ~m.suspended
    BY <1>4, <1>5, <2>2
  <2>4. Amid(m) /\ StepsOn(m)
    BY <2>2, <2>3, AmidIntro
  <2>5. StepsOn(Halted(m, OverLimit, "failed"))
    BY <1>6, <2>3, <2>4, HaltedSteps
  <2>6. QED
    BY <2>1, <2>4, <2>5
<1>12. CASE Write
  <2>1. PICK m \in {[Counted EXCEPT !.over = TRUE],
                    [Counted EXCEPT !.output = Counted.output + 1]} :
               vm' \in BuiltinReturns(m)
    BY <1>12 DEF Write, Execute
  <2>2. /\ m \in Machine /\ m.halted = FALSE /\ m.script = vm.script
        /\ m.steps = vm.steps + 1 /\ m.output \in {vm.output, vm.output + 1}
        /\ m.draws = vm.draws /\ m.exc = Counted.exc /\ m.error = Counted.error
    <3>1. CASE m = [Counted EXCEPT !.over = TRUE]
      BY <1>4, <1>4a, <3>1 DEF Machine
    <3>2. CASE m = [Counted EXCEPT !.output = Counted.output + 1]
      BY <1>4, <1>4a, <3>2 DEF Machine
    <3>3. QED
      BY <2>1, <3>1, <3>2
  <2>3. Amid(m)
    BY <1>4, <2>2, AmidIntro
  <2>4. QED
    BY <2>1, <2>3, BuiltinReturnsSteps
<1>13. CASE Random
  <2> DEFINE m == [Counted EXCEPT !.draws = Counted.draws + 1]
  <2>1. vm' \in BuiltinReturns(m)
    BY <1>13 DEF Random, Execute
  <2>2. /\ m \in Machine /\ m.halted = FALSE /\ m.script = vm.script
        /\ m.steps = vm.steps + 1 /\ m.output = vm.output /\ m.draws = vm.draws + 1
        /\ m.exc = Counted.exc /\ m.error = Counted.error
    BY <1>4, <1>4a DEF Machine
  <2> HIDE DEF m
  <2>3. Amid(m)
    BY <1>4, <2>2, AmidIntro
  <2>4. QED
    BY <2>1, <2>3, BuiltinReturnsSteps
<1>14. CASE GatedCall
  <2>1. vm' \in BuiltinReturns(Counted)
    BY <1>14 DEF GatedCall, Execute
  <2>2. QED
    BY <1>3, <2>1, BuiltinReturnsSteps
<1>15. CASE FileCall
  <2>1. PICK f \in {"open", "closed"} : vm' \in BuiltinReturns([Counted EXCEPT !.file = f])
    BY <1>15 DEF FileCall, Execute
  <2> DEFINE m == [Counted EXCEPT !.file = f]
  <2>2. /\ m \in Machine /\ m.halted = FALSE /\ m.script = vm.script
        /\ m.steps = vm.steps + 1 /\ m.output = vm.output /\ m.draws = vm.draws
        /\ m.exc = Counted.exc /\ m.error = Counted.error
    BY <1>4, <1>4a DEF Machine
  <2> HIDE DEF m
  <2>3. Amid(m)
    BY <1>4, <2>2, AmidIntro
  <2>4. QED
    BY <2>1, <2>3, BuiltinReturnsSteps DEF m
<1>16. CASE Suspend
  <2> DEFINE m == [Counted EXCEPT !.suspended = TRUE]
  <2>1. vm' \in BuiltinReturns(m)
    BY <1>16 DEF Suspend, Execute
  <2>2. /\ m \in Machine /\ m.halted = FALSE /\ m.script = vm.script
        /\ m.steps = vm.steps + 1 /\ m.output = vm.output /\ m.draws = vm.draws
        /\ m.exc = Counted.exc /\ m.error = Counted.error
    BY <1>4, <1>4a DEF Machine
  <2> HIDE DEF m
  <2>3. Amid(m)
    BY <1>4, <2>2, AmidIntro
  <2>4. QED
    BY <2>1, <2>3, BuiltinReturnsSteps
<1>17. CASE Raise
  <2>1. CASE vm.script \in Unwinding
    BY <1>3, <1>4, <1>17, <2>1, UnwoundSteps DEF Raise, Execute
  <2>2. CASE vm.script \notin Unwinding
    <3> DEFINE m == [Counted EXCEPT !.exc = TRUE]
               h == Halted(m, Unhandled, "failed")
    <3>1. vm' = Counted \/ vm' = h
      BY <1>17, <2>2 DEF Raise, Execute
    <3>2. /\ h \in Machine /\ h.script = vm.script /\ h.steps = vm.steps + 1
          /\ h.output = vm.output /\ h.draws = vm.draws
          /\ h.halted = TRUE /\ h.ended = "failed"
          /\ h.suspended = Counted.suspended
      BY <1>3, <1>4 DEF Machine, Halted
    <3> HIDE DEF h
    <3>3. StepsOn(h)
      BY <1>4, <1>5, <2>2, <3>2 DEF StepsOn, EndedSomehow, Clean
    <3>4. QED
      BY <1>3, <3>1, <3>3
  <2>3. QED
    BY <2>1, <2>2
<1>18. CASE EndCleanup
  <2>1. vm.script \in Unwinding
    BY <1>3, <1>4, <1>18 DEF EndCleanup
  <2>2. vm' \in Unwound(Counted)
    BY <1>18 DEF EndCleanup, Execute, Unwound
  <2>3. QED
    BY <1>3, <1>4, <2>1, <2>2, UnwoundSteps
<1>19. CASE Fail
  <2>1. vm' = Halted(Counted, OtherError, "failed")
    BY <1>19 DEF Fail, Execute
  <2>2. QED
    BY <1>3, <1>5, <1>6, <2>1, HaltedSteps
<1>20. CASE Return
  <2>1. vm' = Halted(Counted, vm.error, "returned")
    BY <1>20 DEF Return, Execute
  <2>2. QED
    BY <1>3, <1>5, <1>6, <2>1, HaltedSteps
<1>21. QED
  BY <1>8, <1>9, <1>10, <1>11, <1>12, <1>13, <1>14, <1>15, <1>16, <1>17, <1>18,
     <1>19, <1>20 DEF Instruction

-----------------------------------------------------------------------------
(* The calls of the host.                                                   *)

LEMMA InitIInv == Init => IInv
  BY DEF Init, IInv, TypeOK, StatesGoOn, Result

LEMMA InstructionIInv == IInv /\ Instruction => IInv'
<1> SUFFICES ASSUME IInv, Instruction PROVE IInv'
  OBVIOUS
<1>1. /\ StepsOn(vm') /\ audit' \in Seq(Script)
      /\ UNCHANGED <<goVar, output, completed, states, result, calls>>
  BY InstructionSteps
<1>2. vm' \in Machine /\ EndedSomehow(vm') /\ Clean(vm')
  BY <1>1 DEF StepsOn
<1>3. TypeOK'
  BY <1>1, <1>2 DEF IInv, TypeOK
<1>4. (vm # Off => EndedSomehow(vm) /\ Clean(vm))'
  BY <1>2 DEF EndedSomehow, Clean, Going, PausedCleanly
<1>5. StatesGoOn'
  BY <1>1 DEF IInv, StatesGoOn, PausedCleanly
<1>6. QED
  BY <1>3, <1>4, <1>5 DEF IInv

LEMMA CallType ==
  ASSUME TypeOK, Call
  PROVE  calls' \in 0 .. MaxCalls
<1>1. calls \in Nat /\ MaxCalls \in Nat /\ calls < MaxCalls /\ calls' = calls + 1
  BY DEF TypeOK, Call
<1>2. QED
  BY <1>1

LEMMA NextIInv == IInv /\ [Next]_vars => IInv'
<1> SUFFICES ASSUME IInv, [Next]_vars PROVE IInv'
  OBVIOUS
<1> USE DEF IInv
<1>1. ASSUME NEW s \in Script, NEW mode \in {"run", "durable"}, Start(s, mode)
      PROVE  IInv'
  <2>1. vm' = Fresh(s, mode) /\ Fresh(s, mode) \in Machine
    BY <1>1, FreshType DEF Start
  <2>2. /\ ~vm'.halted /\ ~vm'.exc /\ ~vm'.suspended /\ vm'.error = NoError
    BY <2>1 DEF Fresh
  <2>3. EndedSomehow(vm') /\ Clean(vm')
    BY <2>2 DEF EndedSomehow, Clean, Going
  <2>4. /\ audit' = <<>> /\ completed' = None /\ result' = None
        /\ UNCHANGED <<goVar, output, states>>
    BY <1>1 DEF Start, ResetAudit
  <2>5. calls' \in 0 .. MaxCalls
    BY <1>1, CallType DEF Start
  <2>6. TypeOK'
    BY <2>1, <2>4, <2>5 DEF TypeOK, Result
  <2>7. QED
    BY <2>3, <2>4, <2>6 DEF StatesGoOn, EndedSomehow, Clean, Going, PausedCleanly
<1>2. ASSUME NEW s \in Script, NEW st \in states, Resume(s, st)
      PROVE  IInv'
  <2>1. st \in State /\ calls' \in 0 .. MaxCalls
    BY <1>2, CallType DEF Resume, TypeOK
  <2>2. CASE SameProgram(s, st)
    <3>1. /\ vm' = [Restore(st) EXCEPT !.script = s] /\ s = st.script
          /\ completed' = None /\ result' = None
          /\ UNCHANGED <<goVar, audit, output, states>>
      BY <1>2, <2>2 DEF Resume, SameProgram
    <3>2. /\ vm' \in Machine /\ ~vm'.halted /\ ~vm'.suspended /\ vm'.exc = st.exc
          /\ vm'.error = st.error /\ vm'.script = st.script
      BY <2>1, <3>1, RestoreType
    <3>3. EndedSomehow(vm') /\ Clean(vm')
      BY <3>2 DEF EndedSomehow, Clean, Going, StatesGoOn, PausedCleanly
    <3>4. TypeOK'
      BY <2>1, <3>1, <3>2 DEF TypeOK, Result
    <3>5. QED
      BY <3>1, <3>3, <3>4 DEF StatesGoOn, EndedSomehow, Clean, Going, PausedCleanly
  <2>3. CASE ~SameProgram(s, st)
    <3>1. result' = "error" /\ UNCHANGED <<vm, goVar, audit, output, completed, states>>
      BY <1>2, <2>3 DEF Resume
    <3>2. vm' = Off
      BY <1>2, <3>1 DEF Resume, Call
    <3>3. QED
      BY <2>1, <3>1, <3>2 DEF TypeOK, Result, StatesGoOn, PausedCleanly
  <2>4. QED
    BY <2>2, <2>3
<1>3. ASSUME NEW v \in Input, HostSets(v) PROVE IInv'
  BY <1>3 DEF HostSets, TypeOK, StatesGoOn, PausedCleanly
<1>4. CASE Crash
  BY <1>4 DEF Crash, TypeOK, Result, StatesGoOn, PausedCleanly
<1>5. CASE DurableReturns
  <2>1. /\ vm # Off /\ vm.halted /\ vm' = Off /\ output' = vm.output
        /\ UNCHANGED <<audit, calls>> /\ goVar' = vm.x
    BY <1>5 DEF DurableReturns, Stops
  <2>2. vm \in Machine /\ vm.ended # "no" /\ Clean(vm)
    BY <2>1 DEF TypeOK, EndedSomehow
  <2>3. output' \in Nat /\ goVar' \in Input
    BY <2>1, <2>2 DEF Machine
  <2>4. CASE vm.suspended /\ CanSnapshot
    <3>1. /\ states' = states \cup {Snapshot} /\ result' = "state"
          /\ UNCHANGED completed
      BY <1>5, <2>4 DEF DurableReturns
    <3>2. Snapshot \in State /\ Snapshot.script \notin Concurrent
      BY <2>2, <2>4 DEF Snapshot, CanSnapshot, State, Machine
    <3>3. Snapshot.script \notin Unwinding => PausedCleanly(Snapshot) /\ ~Snapshot.exc
      BY <2>1, <2>2, <2>4 DEF Snapshot, Clean, PausedCleanly
    <3>4. StatesGoOn'
      BY <3>1, <3>3 DEF StatesGoOn, PausedCleanly
    <3>5. TypeOK'
      BY <2>1, <2>3, <3>1, <3>2 DEF TypeOK, Result
    <3>6. QED
      BY <2>1, <3>4, <3>5
  <2>5. CASE ~(vm.suspended /\ CanSnapshot)
    <3>1. /\ UNCHANGED states /\ result' \in {"error", "completed"}
          /\ completed' \in {completed, vm.script}
      BY <1>5, <2>5 DEF DurableReturns
    <3>2. completed' \in Script \cup {None}
      BY <2>2, <3>1 DEF TypeOK, Machine
    <3>3. QED
      BY <2>1, <2>3, <3>1, <3>2 DEF TypeOK, Result, StatesGoOn, PausedCleanly
  <2>6. QED
    BY <2>4, <2>5
<1>6. CASE RunReturns
  <2>1. /\ vm # Off /\ vm.halted /\ vm' = Off /\ output' = vm.output
        /\ UNCHANGED <<audit, calls, states>> /\ goVar' \in {goVar, vm.x}
        /\ result' \in {"error", "completed"} /\ completed' \in {completed, vm.script}
    BY <1>6 DEF RunReturns, Stops
  <2>2. vm \in Machine
    BY <2>1 DEF TypeOK
  <2>3. output' \in Nat /\ goVar' \in Input /\ completed' \in Script \cup {None}
    BY <2>1, <2>2 DEF Machine, TypeOK
  <2>4. QED
    BY <2>1, <2>3 DEF TypeOK, Result, StatesGoOn, PausedCleanly
<1>7. CASE Done \/ UNCHANGED vars
  <2>1. UNCHANGED vars
    BY <1>7 DEF Done
  <2>2. QED
    BY <2>1 DEF vars, TypeOK, StatesGoOn, EndedSomehow, Clean, Going, PausedCleanly
<1>8. CASE Instruction
  BY <1>8, InstructionIInv
<1>9. QED
  BY <1>1, <1>2, <1>3, <1>4, <1>5, <1>6, <1>7, <1>8 DEF Next, Instruction

\* Every reachable state has its type; in particular no State is ever made of
\* a program with fibers, in whatever order the host runs, resumes and crashes.
THEOREM TypeCorrect == Spec => []TypeOK
  BY InitIInv, NextIInv, PTL DEF Spec, IInv

\* Every State the host holds is of a script that paused in good order and can
\* go on, unless the script is one that raises exceptions into cleanups.
THEOREM OnlyPausedScriptsAreKept == Spec => []StatesArePaused
<1>1. IInv => StatesArePaused
  BY DEF IInv, StatesGoOn, StatesArePaused
<1>2. QED
  BY <1>1, InitIInv, NextIInv, PTL DEF Spec

-----------------------------------------------------------------------------
(* Durable implements WorkflowSpec.  The mapping forgets the machine but for *)
(* its progress, and of a State too only the progress is kept.               *)

Current == IF vm = Off THEN Off ELSE ProgressOf(vm)
PausedAt == {ProgressOf(st) : st \in states}

LEMMA ProgressType ==
  ASSUME NEW m \in Machine
  PROVE  ProgressOf(m) \in W!Progress /\ ProgressOf(m) # Off
  BY OffAssumption DEF ProgressOf, W!Progress, Machine

\* Progress that is ahead by one step and at most one line and one draw.
LEMMA AdvancedProgress ==
  ASSUME NEW p \in W!Progress, NEW q \in W!Progress, NEW o \in {0, 1}, NEW r \in {0, 1},
         q.script = p.script, q.steps = p.steps + 1,
         q.output = p.output + o, q.draws = p.draws + r
  PROVE  q = [p EXCEPT !.steps = @ + 1, !.output = @ + o, !.draws = @ + r]
  BY DEF W!Progress

LEMMA InstructionAdvances ==
  ASSUME IInv, Instruction
  PROVE  [W!Next]_<<Current, PausedAt>>
<1>1. Running /\ StepsOn(vm') /\ UNCHANGED states
  BY InstructionSteps
<1>2. vm # Off /\ vm \in Machine /\ vm' \in Machine
  BY <1>1 DEF IInv, TypeOK, Running, StepsOn
<1>3. PausedAt' = PausedAt
  BY <1>1 DEF PausedAt, ProgressOf
<1>4. CASE vm' = Off
  BY <1>2, <1>3, <1>4, ProgressType DEF W!Next, W!End, Current, PausedAt
<1>5. CASE vm' # Off
  <2>1. PICK o \in {0, 1}, r \in {0, 1} :
           /\ vm'.script = vm.script /\ vm'.steps = vm.steps + 1
           /\ vm'.output = vm.output + o /\ vm'.draws = vm.draws + r
    <3>1. /\ vm'.script = vm.script /\ vm'.steps = vm.steps + 1
          /\ vm'.output \in {vm.output, vm.output + 1}
          /\ vm'.draws \in {vm.draws, vm.draws + 1}
          /\ vm.output \in Nat /\ vm.draws \in Nat
      BY <1>1, <1>2 DEF StepsOn, Machine
    <3>2. /\ \E o \in {0, 1} : vm'.output = vm.output + o
          /\ \E r \in {0, 1} : vm'.draws = vm.draws + r
      BY <3>1
    <3>3. QED
      BY <3>1, <3>2
  <2>2. Current' = [Current EXCEPT !.steps = @ + 1, !.output = @ + o, !.draws = @ + r]
    <3>1. Current = ProgressOf(vm) /\ Current' = ProgressOf(vm')
      BY <1>2, <1>5 DEF Current, ProgressOf
    <3>2. ProgressOf(vm) \in W!Progress /\ ProgressOf(vm') \in W!Progress
      BY <1>2, ProgressType
    <3>3. /\ ProgressOf(vm').script = ProgressOf(vm).script
          /\ ProgressOf(vm').steps = ProgressOf(vm).steps + 1
          /\ ProgressOf(vm').output = ProgressOf(vm).output + o
          /\ ProgressOf(vm').draws = ProgressOf(vm).draws + r
      BY <2>1 DEF ProgressOf
    <3>4. QED
      BY <3>1, <3>2, <3>3, AdvancedProgress
  <2>3. Current # Off
    BY <1>2, ProgressType DEF Current
  <2>4. W!Advance
    BY <1>3, <2>2, <2>3 DEF W!Advance, Current, PausedAt
  <2>5. QED
    BY <2>4 DEF W!Next
<1>6. QED
  BY <1>4, <1>5

\* A call that ends either pauses, and keeps where, or ends for good.
LEMMA ReturnEnds ==
  ASSUME IInv, DurableReturns \/ RunReturns
  PROVE  [W!Next]_<<Current, PausedAt>>
<1>1. vm # Off /\ vm \in Machine /\ vm' = Off
  BY DEF IInv, TypeOK, DurableReturns, RunReturns, Stops
<1>2. Current = ProgressOf(vm) /\ Current # Off /\ Current' = Off
  BY <1>1, ProgressType DEF Current
<1>3. CASE states' = states \cup {Snapshot}
  <2>1. ProgressOf(Snapshot) = ProgressOf(vm)
    BY DEF ProgressOf, Snapshot
  <2>2. PausedAt' = PausedAt \cup {Current}
    BY <1>2, <1>3, <2>1 DEF PausedAt, ProgressOf
  <2>3. W!Pause
    BY <1>2, <2>2 DEF W!Pause, Current, PausedAt
  <2>4. QED
    BY <2>3 DEF W!Next
<1>4. CASE UNCHANGED states
  <2>1. PausedAt' = PausedAt
    BY <1>4 DEF PausedAt, ProgressOf
  <2>2. W!End
    BY <1>2, <2>1 DEF W!End, Current, PausedAt
  <2>3. QED
    BY <2>2 DEF W!Next
<1>5. QED
  BY <1>3, <1>4 DEF DurableReturns, RunReturns

LEMMA StepRefines ==
  IInv /\ [Next]_vars => [W!Next]_<<Current, PausedAt>>
<1> SUFFICES ASSUME IInv, [Next]_vars PROVE [W!Next]_<<Current, PausedAt>>
  OBVIOUS
<1>1. ASSUME UNCHANGED states PROVE PausedAt' = PausedAt
  BY <1>1 DEF PausedAt, ProgressOf
<1>2. ASSUME NEW s \in Script, NEW mode \in {"run", "durable"}, Start(s, mode)
      PROVE  [W!Next]_<<Current, PausedAt>>
  <2>1. vm = Off /\ vm' = Fresh(s, mode) /\ UNCHANGED states
    BY <1>2 DEF Start, Call
  <2>2. ProgressOf(vm') = W!Begin(s)
    BY <2>1 DEF Fresh, ProgressOf, W!Begin
  <2>3. Current = Off /\ PausedAt' = PausedAt
    BY <1>1, <2>1 DEF Current
  <2>4. CASE vm' = Off
    BY <2>3, <2>4 DEF Current
  <2>5. CASE vm' # Off
    <3>1. W!Start
      BY <2>2, <2>3, <2>5 DEF W!Start, Current, PausedAt
    <3>2. QED
      BY <3>1 DEF W!Next
  <2>6. QED
    BY <2>4, <2>5
<1>3. ASSUME NEW s \in Script, NEW st \in states, Resume(s, st)
      PROVE  [W!Next]_<<Current, PausedAt>>
  <2>1. vm = Off /\ UNCHANGED states /\ Current = Off /\ PausedAt' = PausedAt
    BY <1>1, <1>3 DEF Resume, Call, Current
  <2>2. CASE vm' = Off
    BY <2>1, <2>2 DEF Current
  <2>3. CASE vm' # Off
    <3>1. vm' = [Restore(st) EXCEPT !.script = s] /\ s = st.script /\ st \in State
      BY <1>3, <2>1, <2>3 DEF Resume, SameProgram, IInv, TypeOK
    <3>2. ProgressOf(vm') = ProgressOf(st)
      BY <3>1, RestoreType DEF IInv
    <3>3. Current' \in PausedAt
      BY <2>3, <3>2 DEF Current, PausedAt
    <3>4. W!GoOn
      BY <2>1, <3>3 DEF W!GoOn, Current, PausedAt
    <3>5. QED
      BY <3>4 DEF W!Next
  <2>4. QED
    BY <2>2, <2>3
<1>4. CASE Crash
  <2>1. vm' = Off /\ PausedAt' = PausedAt /\ Current' = Off
    BY <1>1, <1>4 DEF Crash, Current
  <2>2. CASE Current = Off
    BY <2>1, <2>2
  <2>3. CASE Current # Off
    <3>1. W!End
      BY <2>1, <2>3 DEF W!End, Current, PausedAt
    <3>2. QED
      BY <3>1 DEF W!Next
  <2>4. QED
    BY <2>2, <2>3
<1>5. CASE (\E v \in Input : HostSets(v)) \/ Done \/ UNCHANGED vars
  <2>1. UNCHANGED <<vm, states>>
    BY <1>5 DEF HostSets, Done, vars
  <2>2. QED
    BY <1>1, <2>1 DEF Current, ProgressOf
<1>6. CASE DurableReturns \/ RunReturns
  BY <1>6, ReturnEnds
<1>7. CASE Instruction
  BY <1>7, InstructionAdvances
<1>8. QED
  BY <1>2, <1>3, <1>4, <1>5, <1>6, <1>7 DEF Next, Instruction

\* Whatever the host does with calls, crashes and old States, what a script has
\* done since it was started is only ever added to, by one instruction at a
\* time, and a resumed script stands exactly where one has paused.
THEOREM WorkflowPromiseKept == Spec => KeepsWorkflowPromise
<1>1. Init => W!Init
  BY DEF Init, W!Init
<1>2. IInv /\ [Next]_vars => [W!Next]_<<IF vm = Off THEN Off ELSE ProgressOf(vm),
                                        {ProgressOf(st) : st \in states}>>
  BY StepRefines DEF Current, PausedAt
<1>3. QED
  BY <1>1, <1>2, InitIInv, NextIInv, PTL DEF Spec, KeepsWorkflowPromise, W!Spec
=============================================================================
