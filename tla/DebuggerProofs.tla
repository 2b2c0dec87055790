--------------------------- MODULE DebuggerProofs ---------------------------
(***************************************************************************)
(* For every program, every set of breakpoints and every client: no        *)
(* breakpoint is run over.  The argument: while the machine is alive,      *)
(* d.curLine is the line of its PC wherever the source map knows one, and  *)
(* that line has been begun, or stopped on, or has no breakpoint.          *)
(***************************************************************************)
EXTENDS Debugger, TLAPS, WellFoundedInduction

Alive == launched /\ ~halted

Located == Alive /\ CurrentLine(stack) # 0 => curLine = CurrentLine(stack)
Known == Alive /\ curLine # 0 =>
           \/ curLine \in {begun, stoppedOn}
           \/ serving = "continue" /\ curLine \notin breakpoints
IInv == TypeOK /\ Located /\ Known

\* The frame on top is a frame.
LEMMA TopIsFrame ==
  ASSUME NEW s \in Seq(Frame), s # <<>>
  PROVE  Top(s) \in Frame /\ Len(s) \in Nat \ {0} /\ Len(s) \in DOMAIN s
  BY DEF Top

\* Where a statement begins, currentLine is its line, and no line is 0.
LEMMA LineWhereStatementBegins ==
  ASSUME NEW s \in Seq(Frame), s # <<>>, Top(s).pc \in DOMAIN Lines[Top(s).routine]
  PROVE  /\ CurrentLine(s) = Lines[Top(s).routine][Top(s).pc]
         /\ CurrentLine(s) # 0
<1> DEFINE f == Top(s)
<1>1. f \in Frame
  BY TopIsFrame
<1>2. DOMAIN Lines[f.routine] \subseteq Nat /\ Lines[f.routine][f.pc] \in Nat \ {0}
  BY <1>1, DebuggerAssumption DEF Frame
<1>3. f.pc \in Mapped(f)
  BY <1>1, <1>2 DEF Mapped, Frame
<1>4. \A i \in Mapped(f) : (\A j \in Mapped(f) : j <= i) => i = f.pc
  BY <1>1, <1>2, <1>3 DEF Mapped, Frame
<1>5. \A j \in Mapped(f) : j <= f.pc
  BY DEF Mapped
<1>6. (CHOOSE i \in Mapped(f) : \A j \in Mapped(f) : j <= i) = f.pc
  BY <1>3, <1>4, <1>5
<1> QED
  BY <1>2, <1>3, <1>6 DEF CurrentLine

\* A set of natural numbers with an upper bound has a greatest element.
LEMMA GreatestBelow ==
  ASSUME NEW n \in Nat, NEW S, S \subseteq 0..n, S # {}
  PROVE  \E m \in S : \A j \in S : j <= m
<1> DEFINE T == {n - i : i \in S}
<1>0. \A i \in S : i \in Nat /\ n - i \in Nat
  OBVIOUS
<1>1. T \subseteq Nat /\ T # {}
  <2>1. PICK i \in S : TRUE
    OBVIOUS
  <2>2. n - i \in T
    OBVIOUS
  <2> QED
    BY <1>0, <2>2
<1>2. PICK x \in T : \A y \in T : <<y, x>> \notin OpToRel(<, Nat)
  BY <1>1, WFMin, NatLessThanWellFounded
<1>3. ASSUME NEW y \in T PROVE x <= y
  <2>1. <<y, x>> \in Nat \X Nat /\ y \in Nat /\ x \in Nat
    BY <1>1
  <2>2. y < x => <<y, x>> \in OpToRel(<, Nat)
    BY <2>1 DEF OpToRel
  <2>3. ~ (y < x)
    BY <1>2, <2>2, Zenon
  <2> QED
    BY <2>1, <2>3
<1>4. PICK m \in S : x = n - m
  OBVIOUS
<1>5. \A j \in S : n - m <= n - j
  BY <1>3, <1>4
<1> QED
  BY <1>5

\* A line is a natural number.
LEMMA LineIsNatural ==
  ASSUME NEW s \in Seq(Frame), s # <<>>
  PROVE  CurrentLine(s) \in Nat
<1> DEFINE f == Top(s)
<1>1. f \in Frame
  BY TopIsFrame
<1>2. Mapped(f) \subseteq 0..f.pc
  BY <1>1, DebuggerAssumption DEF Mapped, Frame
<1>3. CASE Mapped(f) = {}
  BY <1>3 DEF CurrentLine
<1>4. CASE Mapped(f) # {}
  <2> DEFINE m == CHOOSE i \in Mapped(f) : \A j \in Mapped(f) : j <= i
  <2>1. m \in Mapped(f)
    BY <1>1, <1>2, <1>4, GreatestBelow DEF Frame
  <2>2. m \in DOMAIN Lines[f.routine] /\ Lines[f.routine][m] \in Nat
    BY <2>1, <1>1, DebuggerAssumption DEF Mapped, Frame
  <2> QED
    BY <1>4, <2>2 DEF CurrentLine
<1> QED
  BY <1>3, <1>4
-----------------------------------------------------------------------------
\* The machine: its stack stays a stack of frames, with a frame on it.
LEMMA StepTypes ==
  ASSUME stack \in Seq(Frame), stack # <<>>, steps \in Nat, begun \in Nat, halted \in BOOLEAN, Step
  PROVE  /\ stack' \in Seq(Frame) /\ stack' # <<>>
         /\ steps' \in Nat /\ begun' \in Nat /\ halted' \in BOOLEAN
<1> DEFINE f == Top(stack)
<1>1. f \in Frame /\ Len(stack) \in Nat \ {0} /\ Len(stack) \in DOMAIN stack
  BY TopIsFrame
<1>2. ASSUME NEW pc \in Nat PROVE Goto(pc) \in Seq(Frame) /\ Goto(pc) # <<>>
  <2> DEFINE g == [stack[Len(stack)] EXCEPT !.pc = pc]
  <2>1. g \in Frame
    BY <1>1 DEF Frame, Top
  <2>2. Goto(pc) = [stack EXCEPT ![Len(stack)] = g]
    BY DEF Goto
  <2>3. [stack EXCEPT ![Len(stack)] = g] \in Seq(Frame)
    BY <2>1, <1>1
  <2>4. Len([stack EXCEPT ![Len(stack)] = g]) = Len(stack)
    BY <1>1
  <2> QED
    BY <1>1, <2>2, <2>3, <2>4
<1>3. Advanced \in Seq(Frame) /\ Advanced # <<>>
  <2>1. Top(stack).pc + 1 \in Nat
    BY <1>1 DEF Frame
  <2> QED
    BY <1>2, <2>1 DEF Advanced
<1>4. ASSUME StepGoesOn PROVE stack' \in Seq(Frame) /\ stack' # <<>>
  <2>1. Current \in Instruction
    BY <1>1, <1>4, DebuggerAssumption DEF StepGoesOn, InCode, Current, Frame
  <2>2. stack' \in Nexts
    BY <1>4 DEF StepGoesOn
  <2>3. CASE Current.op \in {"jump", "branch"}
    <3>1. Current.to \in Nat
      BY <2>1, <2>3 DEF Instruction
    <3>2. stack' \in {Advanced, Goto(Current.to)}
      BY <2>2, <2>3 DEF Nexts
    <3> QED
      BY <1>2, <1>3, <3>1, <3>2
  <2>4. CASE Current.op = "call"
    <3>1. [routine |-> Current.routine, pc |-> 0] \in Frame
      BY <2>1, <2>4 DEF Instruction, Frame
    <3>2. stack' = Append(Advanced, [routine |-> Current.routine, pc |-> 0])
      BY <2>2, <2>4 DEF Nexts
    <3> QED
      BY <1>3, <3>1, <3>2
  <2>5. CASE Current.op = "return" /\ Len(stack) > 1
    <3>1. stack' = SubSeq(stack, 1, Len(stack) - 1)
      BY <2>2, <2>5 DEF Nexts
    <3>2. Len(stack) - 1 \in 1..Len(stack)
      BY <1>1, <2>5
    <3>3. stack' \in Seq(Frame) /\ Len(stack') = Len(stack) - 1
      BY <3>1, <3>2
    <3> QED
      BY <3>2, <3>3
  <2>6. CASE Current.op \notin {"jump", "branch", "call"} /\ ~(Current.op = "return" /\ Len(stack) > 1)
    BY <1>3, <2>2, <2>6 DEF Nexts
  <2> QED
    BY <2>3, <2>4, <2>5, <2>6
<1>5. halted' \in BOOLEAN /\ (StepHalts => stack' = stack)
  BY DEF Step, StepHalts, StepGoesOn
<1>6. begun' \in Nat
  BY <1>1, DebuggerAssumption DEF Step, Begins, BeginningLine, Frame
<1> QED
  BY <1>4, <1>5, <1>6 DEF Step

LEMMA TypeInvariant == IInv /\ [Next]_vars => TypeOK'
<1> SUFFICES ASSUME TypeOK, [Next]_vars PROVE TypeOK'
  BY DEF IInv
<1>1. ASSUME Receive PROVE requests' \in Nat /\ serving = "none"
  BY <1>1 DEF Receive, TypeOK
<1>2. CASE Initialize \/ Inspect \/ LaunchFails \/ Disconnect
  <2>1. Receive /\ UNCHANGED <<debugVars, machineVars, serving, stoppedOn>> /\ ended' \in BOOLEAN
    BY <1>2 DEF TypeOK, Initialize, Inspect, LaunchFails, Disconnect
  <2>2. sent' \in {<<"response">>, <<"failed">>, <<"response", "initialized">>}
    BY <1>2 DEF Initialize, Inspect, LaunchFails, Disconnect
  <2>3. sent' \in Seq(Messages)
    <3>1. <<"response">> \in Seq(Messages) /\ <<"failed">> \in Seq(Messages)
      BY DEF Messages
    <3>2. <<"response", "initialized">> \in Seq(Messages)
      BY DEF Messages
    <3> QED
      BY <2>2, <3>1, <3>2
  <2>4. UNCHANGED <<launched, breakpoints, curLine, stack, halted, steps, begun, serving, stoppedOn>>
    BY <2>1 DEF debugVars, machineVars
  <2> QED
    BY <1>1, <2>1, <2>3, <2>4 DEF TypeOK
<1>3. CASE Launch
  <2>1. [routine |-> Entry, pc |-> 0] \in Frame
    BY DebuggerAssumption DEF Frame
  <2>2. stack' \in Seq(Frame) /\ stack' # <<>>
    BY <1>3, <2>1 DEF Launch
  <2>3. curLine' \in Nat
    BY <1>3, <2>2, LineIsNatural DEF Launch
  <2>4. sent' \in Seq(Messages)
    BY <1>3 DEF Launch, Messages
  <2>5. Receive /\ launched' = TRUE /\ breakpoints' = {} /\ halted' = FALSE /\ steps' = 0 /\ begun' = 0 /\ stoppedOn' = 0
        /\ UNCHANGED <<serving, ended>>
    BY <1>3 DEF Launch
  <2>6. {curLine', steps', requests', begun', stoppedOn'} \subseteq Nat
    BY <1>1, <2>3, <2>5
  <2>7. /\ serving' \in {"none", "continue", "step"} /\ (serving' # "none" => launched')
        /\ launched' \in BOOLEAN /\ halted' \in BOOLEAN /\ ended' \in BOOLEAN
    BY <2>5 DEF TypeOK
  <2>8. breakpoints' \subseteq Nat
    BY <2>5
  <2> QED
    BY <2>2, <2>4, <2>6, <2>7, <2>8 DEF TypeOK
<1>4. ASSUME NEW lines \in SUBSET Line, SetBreakpoints(lines) PROVE TypeOK'
  BY <1>1, <1>4, DebuggerAssumption DEF TypeOK, Messages, SetBreakpoints, machineVars
<1>5. ASSUME NEW how \in {"continue", "step"}, Resume(how) PROVE TypeOK'
  BY <1>1, <1>5 DEF TypeOK, Messages, Resume, debugVars, machineVars
<1>6. CASE RunStep
  <2>1. stack \in Seq(Frame) /\ stack # <<>> /\ launched /\ Step
    BY <1>6 DEF TypeOK, RunStep
  <2>2. /\ stack' \in Seq(Frame) /\ stack' # <<>>
        /\ steps' \in Nat /\ begun' \in Nat /\ halted' \in BOOLEAN
    BY <2>1, StepTypes DEF TypeOK
  <2>3. CurrentLine(stack') \in Nat
    BY <2>2, LineIsNatural
  <2>4. curLine' \in Nat /\ stoppedOn' \in Nat
    BY <1>6, <2>3 DEF RunStep, TypeOK, Stop
  <2>5. sent' \in Seq(Messages) /\ serving' \in {serving, "none"}
    <3>1. sent' \in {sent, Append(sent, "stopped")} /\ serving' \in {serving, "none"}
      BY <1>6 DEF RunStep, Stop
    <3>2. "stopped" \in Messages /\ sent \in Seq(Messages)
      BY DEF TypeOK, Messages
    <3> QED
      BY <3>1, <3>2
  <2>6. UNCHANGED <<launched, breakpoints, ended, requests>>
    BY <1>6 DEF RunStep
  <2> QED
    BY <2>2, <2>4, <2>5, <2>6 DEF TypeOK
<1>7. CASE Terminate
  BY <1>7 DEF TypeOK, Messages, Terminate, debugVars, machineVars
<1>8. CASE UNCHANGED vars
  BY <1>8 DEF TypeOK, vars
<1> QED
  BY <1>2, <1>3, <1>4, <1>5, <1>6, <1>7, <1>8 DEF Next
-----------------------------------------------------------------------------
\* The requests that leave the machine and the debugger alone.
LEMMA OtherRequests ==
  ASSUME IInv, Receive, UNCHANGED <<launched, curLine, stack, halted, begun, stoppedOn>>
  PROVE  Located' /\ Known'
<1>1. serving = "none"
  BY DEF Receive
<1>2. CurrentLine(stack)' = CurrentLine(stack) /\ Alive' = Alive
  BY DEF Alive
<1>3. Located'
  BY <1>2 DEF IInv, Located
<1>4. Alive /\ curLine # 0 => curLine \in {begun, stoppedOn}
  BY <1>1 DEF IInv, Known
<1> QED
  BY <1>2, <1>3, <1>4 DEF Known

\* What a step of the machine leaves the debugger with.
LEMMA RunPreserves ==
  ASSUME IInv, RunStep
  PROVE  Located' /\ Known'
<1> DEFINE line == CurrentLine(stack')
<1>1. launched /\ ~halted /\ serving # "none" /\ Step /\ launched' /\ breakpoints' = breakpoints
  BY DEF IInv, TypeOK, RunStep
<1>2. curLine' = IF ~halted' /\ EntersLine(line) THEN line ELSE curLine
  BY DEF RunStep
<1>3. Located'
  BY <1>2 DEF Located, EntersLine, Alive
<1>4. CASE ~halted' /\ StopsAt(line)
  <2>1. stoppedOn' = line /\ curLine' = line
    BY <1>2, <1>4 DEF RunStep, Stop, StopsAt
  <2> QED
    BY <1>3, <2>1 DEF Known
<1>5. CASE ~halted' /\ ~StopsAt(line)
  <2>1. /\ serving' = serving /\ stoppedOn' = IF LeavesStop THEN 0 ELSE stoppedOn
        /\ begun' = IF InCode /\ Begins THEN BeginningLine ELSE begun
    BY <1>1, <1>5 DEF RunStep, Step
  <2>2. CASE EntersLine(line)
    BY <1>1, <1>2, <1>3, <1>5, <2>1, <2>2 DEF Known, StopsAt
  <2>3. CASE ~EntersLine(line)
    <3>1. curLine' = curLine
      BY <1>2, <2>3
    <3>2. CASE InCode /\ Begins
      <4>1. BeginningLine = CurrentLine(stack) /\ CurrentLine(stack) # 0
        BY <1>1, <3>2, LineWhereStatementBegins DEF IInv, TypeOK, Begins, BeginningLine
      <4>2. begun' = curLine'
        BY <1>1, <2>1, <3>1, <3>2, <4>1 DEF IInv, Located, Alive
      <4> QED
        BY <1>3, <4>2 DEF Known
    <3>3. CASE ~(InCode /\ Begins)
      BY <1>1, <1>3, <1>5, <2>1, <3>1, <3>3 DEF IInv, Known, Alive, LeavesStop
    <3> QED
      BY <3>2, <3>3
  <2> QED
    BY <2>2, <2>3
<1>6. CASE halted'
  BY <1>3, <1>6 DEF Known, Alive
<1> QED
  BY <1>3, <1>4, <1>5, <1>6

LEMMA Inductive == IInv /\ [Next]_vars => IInv'
<1> SUFFICES ASSUME IInv, [Next]_vars PROVE Located' /\ Known'
  BY TypeInvariant DEF IInv
<1>1. CASE Initialize \/ Inspect \/ LaunchFails \/ Disconnect
  BY <1>1, OtherRequests DEF Initialize, Inspect, LaunchFails, Disconnect, debugVars, machineVars
<1>2. CASE Launch
  <2>1. stack' = <<[routine |-> Entry, pc |-> 0]>> /\ curLine' = CurrentLine(stack')
    BY <1>2 DEF Launch
  <2>2. Top(stack') = [routine |-> Entry, pc |-> 0]
    BY <2>1 DEF Top
  <2>3. Mapped(Top(stack')) = {}
    BY <2>2, DebuggerAssumption DEF Mapped
  <2>4. curLine' = 0
    BY <2>1, <2>3 DEF CurrentLine
  <2> QED
    BY <2>1, <2>4 DEF Located, Known
<1>3. ASSUME NEW lines \in SUBSET Line, SetBreakpoints(lines) PROVE Located' /\ Known'
  BY <1>3, OtherRequests DEF SetBreakpoints, machineVars
<1>4. ASSUME NEW how \in {"continue", "step"}, Resume(how) PROVE Located' /\ Known'
  BY <1>4, OtherRequests DEF Resume, debugVars, machineVars
<1>5. CASE RunStep
  BY <1>5, RunPreserves
<1>6. CASE Terminate
  BY <1>6 DEF Terminate, debugVars, machineVars, Located, Known, Alive
<1>7. CASE UNCHANGED vars
  BY <1>7 DEF vars, IInv, Located, Known, Alive, CurrentLine, Mapped
<1> QED
  BY <1>1, <1>2, <1>3, <1>4, <1>5, <1>6, <1>7 DEF Next

LEMMA Initially == Init => IInv
<1> SUFFICES ASSUME Init PROVE IInv
  OBVIOUS
<1>1. stack \in Seq(Frame) /\ sent \in Seq(Messages)
  BY DEF Init
<1>2. TypeOK
  <2>1. {curLine, steps, requests, begun, stoppedOn} \subseteq Nat
    BY DEF Init
  <2>2. breakpoints \subseteq Nat
    BY DEF Init
  <2> QED
    BY <1>1, <2>1, <2>2 DEF Init, TypeOK
<1> QED
  BY <1>2 DEF Init, IInv, Located, Known, Alive

(* Every reachable state is well typed, d.curLine is the line of the       *)
(* machine's PC, and no line was entered past its breakpoint.              *)
THEOREM DebuggerInvariant == Spec => []IInv
  BY Initially, Inductive, PTL DEF Spec

(* Whatever the program and the breakpoints, a statement of a line with a  *)
(* breakpoint begins only after a stop on that line, or after a statement  *)
(* of the same line.                                                       *)
THEOREM BreakpointsAreNotRunOver == Spec => BreakpointsStop
<1>1. IInv /\ [Next]_vars =>
        [serving # "none" /\ steps' # steps /\ InCode /\ Begins /\ BeginningLine \in breakpoints
           => BeginningLine \in {begun, stoppedOn}]_vars
  <2> SUFFICES ASSUME IInv, Next, serving # "none", steps' # steps, InCode, Begins,
                      BeginningLine \in breakpoints
               PROVE  BeginningLine \in {begun, stoppedOn}
    BY DEF vars
  <2>1. RunStep
    BY DEF Next, Initialize, Inspect, LaunchFails, Disconnect, Launch, SetBreakpoints, Resume, Receive,
           Terminate, machineVars
  <2>2. BeginningLine = CurrentLine(stack) /\ CurrentLine(stack) # 0
    BY LineWhereStatementBegins DEF IInv, TypeOK, Begins, BeginningLine
  <2>3. Alive /\ curLine = BeginningLine /\ curLine # 0
    BY <2>1, <2>2 DEF IInv, TypeOK, Located, Alive, RunStep
  <2> QED
    BY <2>3 DEF IInv, Known
<1> QED
  BY <1>1, DebuggerInvariant, PTL DEF Spec, BreakpointsStop

-----------------------------------------------------------------------------
\* A machine that has not halted has not used up its steps.
StepsLeft == ~halted => steps <= MaxSteps

LEMMA StepsCounted == IInv /\ StepsLeft /\ [Next]_vars => StepsLeft'
<1> SUFFICES ASSUME IInv, StepsLeft, [Next]_vars PROVE StepsLeft'
  OBVIOUS
<1>1. MaxSteps \in Nat /\ steps \in Nat
  BY DebuggerAssumption DEF IInv, TypeOK
<1>2. CASE RunStep
  <2>1. steps' = steps + 1 /\ (StepHalts \/ StepGoesOn)
    BY <1>2 DEF RunStep, Step
  <2>2. CASE StepHalts
    BY <2>2 DEF StepHalts, StepsLeft
  <2>3. CASE StepGoesOn
    <3>1. ~(steps >= MaxSteps)
      BY <2>3 DEF StepGoesOn, OutOfSteps
    <3> QED
      BY <1>1, <2>1, <3>1 DEF StepsLeft
  <2> QED
    BY <2>1, <2>2, <2>3
<1>3. CASE Launch
  BY <1>1, <1>3 DEF Launch, StepsLeft
<1>4. CASE ~RunStep /\ ~Launch
  <2>1. UNCHANGED <<halted, steps>>
    BY <1>4 DEF Next, Initialize, Inspect, LaunchFails, Disconnect, SetBreakpoints, Resume, Terminate,
                machineVars, vars
  <2> QED
    BY <2>1 DEF StepsLeft
<1> QED
  BY <1>2, <1>3, <1>4

(* What the answer to every continue and step rests on, for every program, *)
(* set of breakpoints and client: each turn of the loops of Continue and   *)
(* StepLine uses one of the steps that vm.MaxSteps leaves, and they are    *)
(* left only with a stop or with the end of the program.                   *)
THEOREM ResumesComeToTheirAnswer == Spec => ResumeProgresses
<1>1. IInv /\ StepsLeft /\ [Next]_vars =>
        [serving # "none" =>
           /\ \/ steps < steps' /\ steps' <= MaxSteps + 1
              \/ sent' = Append(sent, "terminated")
           /\ serving' = "none" => sent' \in {Append(sent, "stopped"), Append(sent, "terminated")}]_vars
  <2> SUFFICES ASSUME IInv, StepsLeft, Next, serving # "none"
               PROVE  /\ \/ steps < steps' /\ steps' <= MaxSteps + 1
                         \/ sent' = Append(sent, "terminated")
                      /\ serving' = "none" => sent' \in {Append(sent, "stopped"), Append(sent, "terminated")}
    BY DEF vars
  <2>1. RunStep \/ Terminate
    BY DEF Next, Initialize, Inspect, LaunchFails, Disconnect, Launch, SetBreakpoints, Resume, Receive
  <2>2. CASE Terminate
    BY <2>2 DEF Terminate
  <2>3. CASE RunStep
    <3>1. MaxSteps \in Nat /\ steps \in Nat
      BY DebuggerAssumption DEF IInv, TypeOK
    <3>2. ~halted /\ steps' = steps + 1
      BY <2>3 DEF RunStep, Step
    <3>3. steps < steps' /\ steps' <= MaxSteps + 1
      BY <3>1, <3>2 DEF StepsLeft
    <3>4. serving' = "none" => sent' = Append(sent, "stopped")
      BY <2>3 DEF RunStep, Stop
    <3> QED
      BY <3>3, <3>4
  <2> QED
    BY <2>1, <2>2, <2>3
<1>2. Init => StepsLeft
  BY DebuggerAssumption DEF Init, StepsLeft
<1> QED
  BY <1>1, <1>2, StepsCounted, DebuggerInvariant, PTL DEF Spec, ResumeProgresses
=============================================================================
