---------------------------- MODULE EngineProofs ----------------------------
(* Proofs about Engine: for any capabilities, bound functions, scripts and   *)
(* limits, and in whatever order the host makes its calls.                   *)
EXTENDS Engine, Integers, TLAPS

Errors == {NoError, StepOrTime, UnknownBuiltin, Unhandled, OtherError}
Stops == {"no", "returned", "suspended", "cut_short", "failed", "host_error"}

-----------------------------------------------------------------------------
(* The machine.                                                             *)

LEMMA FreshType ==
  ASSUME TypeOK, NEW s \in Script, NEW compiled \in BOOLEAN
  PROVE  Fresh(s, compiled) \in Machine
  BY DEF TypeOK, Fresh, Machine, NoError

LEMMA CountedType ==
  ASSUME TypeOK
  PROVE  /\ Counted \in Machine
         /\ Counted = [vm EXCEPT !.steps = vm.steps + 1]
         /\ Counted.steps = vm.steps + 1
<1>1. vm \in Machine
  BY DEF TypeOK
<1>2. vm.steps + 1 \in Nat
  BY <1>1 DEF Machine
<1>3. QED
  BY <1>1, <1>2 DEF Counted, Machine

LEMMA HaltedType ==
  ASSUME NEW m \in Machine, NEW error \in Errors, NEW stopped \in Stops
  PROVE  Halted(m, error, stopped) \in Machine
  BY DEF Halted, Machine, Errors, Stops

\* A machine that has not halted has steps left and no error.
Going == ~vm.halted => vm.steps <= MaxSteps /\ vm.error = NoError

\* What every instruction makes of the machine, but for the count of late steps.
Advanced(m) ==
  /\ m \in Machine
  /\ m.script = vm.script /\ m.compiled = vm.compiled /\ m.start = vm.start
  /\ m.steps = vm.steps + 1
  /\ m.late = vm.late
  /\ ~m.halted => m.error = NoError
  /\ m.error = UnknownBuiltin => ~ (Uses[vm.script] \subseteq builtins)
  /\ m.halted /\ m.error = NoError => m.stopped \in {"returned", "suspended"}

LEMMA CountedAdvanced ==
  ASSUME TypeOK, Going, Running
  PROVE  Advanced(Counted) /\ ~Counted.halted /\ Counted.error = NoError
<1>1. vm \in Machine /\ ~vm.halted /\ vm.error = NoError
  BY DEF TypeOK, Going, Running
<1>2. /\ Counted.script = vm.script /\ Counted.compiled = vm.compiled
      /\ Counted.start = vm.start /\ Counted.late = vm.late
      /\ Counted.halted = vm.halted /\ Counted.error = vm.error
  BY <1>1, CountedType DEF Machine
<1>3. QED
  BY <1>1, <1>2, CountedType DEF Advanced, UnknownBuiltin, NoError

LEMMA HaltedAdvanced ==
  ASSUME NEW m, Advanced(m), ~m.halted, NEW error \in Errors, NEW stopped \in Stops,
         error = UnknownBuiltin => ~ (Uses[vm.script] \subseteq builtins),
         error = NoError => stopped \in {"returned", "suspended"}
  PROVE  Advanced(Halted(m, error, stopped))
<1> DEFINE h == Halted(m, error, stopped)
<1>1. m \in Machine
  BY DEF Advanced
<1>2. h = [m EXCEPT !.halted = TRUE, !.error = error, !.stopped = stopped]
  BY DEF Halted
<1>3. h \in Machine
  BY <1>1, HaltedType
<1>4. /\ h.script = m.script /\ h.compiled = m.compiled /\ h.start = m.start
      /\ h.steps = m.steps /\ h.late = m.late
      /\ h.halted /\ h.error = error /\ h.stopped = stopped
  BY <1>1, <1>2 DEF Machine
<1> HIDE DEF h
<1>5. Advanced(h)
  BY <1>3, <1>4 DEF Advanced
<1>6. QED
  BY <1>5 DEF h

LEMMA ChangedAdvanced ==
  ASSUME TypeOK, Going, Running, NEW m \in Machine,
         m.script = Counted.script, m.compiled = Counted.compiled,
         m.start = Counted.start, m.steps = Counted.steps, m.late = Counted.late,
         m.halted = Counted.halted, m.error = Counted.error
  PROVE  Advanced(m) /\ ~m.halted
  BY CountedAdvanced DEF Advanced

\* A machine that halted without an error has run to its end, or was cut short
\* by a context that is done.
CleanHalt ==
  vm.halted /\ vm.error = NoError =>
    \/ vm.stopped \in {"returned", "suspended"}
    \/ vm.stopped = "cut_short" /\ ctx = "done"

\* What a step of the machine does, whichever it is.
MachineMoved ==
  /\ Running
  /\ UNCHANGED <<tableVars, hostVars, ctx, busy, result>>
  /\ vm' \in Machine /\ Going' /\ CleanHalt'
  /\ vm'.script = vm.script /\ vm'.compiled = vm.compiled /\ vm'.start = vm.start
  /\ vm'.steps = vm.steps + 1 /\ vm'.steps <= MaxSteps + 1
  /\ vm'.error = UnknownBuiltin => ~ (Uses[vm.script] \subseteq builtins)
  /\ \/ vm'.late = vm.late /\ (ctx = "done" => vm'.halted)
     \/ ctx = "done" /\ vm'.late = vm.late + 1 /\ vm'.steps % Cadence # 0

LEMMA StopMoves ==
  ASSUME TypeOK, Going, StopStep
  PROVE  MachineMoved
<1> DEFINE e == IF Counted.steps > MaxSteps \/ vm.timeUp THEN StepOrTime ELSE NoError
<1>1. vm' = [Counted EXCEPT !.halted = TRUE, !.error = e, !.stopped = "cut_short"]
  BY DEF StopStep, Halted
<1>2. vm \in Machine /\ vm.steps \in Nat /\ MaxSteps \in Nat
  BY EngineAssumption DEF TypeOK, Machine
<1>3. Running /\ ~vm.halted /\ vm.steps <= MaxSteps
  BY DEF StopStep, Running, Going
<1>4. Counted \in Machine /\ Counted = [vm EXCEPT !.steps = vm.steps + 1]
  BY CountedType
<1>5. e \in {StepOrTime, NoError} /\ (e = NoError => ctx = "done")
  <2>1. Counted.timeUp = vm.timeUp
    BY <1>2, <1>4 DEF Machine
  <2>2. QED
    BY <2>1 DEF StopStep, CutShort, StepOrTime, NoError
<1> HIDE DEF e
<1>6. vm' \in Machine
  BY <1>1, <1>4, <1>5 DEF Machine
<1>7. /\ vm'.script = vm.script /\ vm'.compiled = vm.compiled /\ vm'.start = vm.start
      /\ vm'.steps = vm.steps + 1 /\ vm'.late = vm.late
      /\ vm'.halted /\ vm'.error = e /\ vm'.stopped = "cut_short"
  BY <1>1, <1>2, <1>4 DEF Machine
<1>8. UNCHANGED <<tableVars, hostVars, ctx, busy, result>>
  BY DEF StopStep
<1>9. Going' /\ CleanHalt'
  BY <1>5, <1>7, <1>8 DEF Going, CleanHalt
<1>10. vm'.error # UnknownBuiltin
  BY <1>5, <1>7 DEF StepOrTime, NoError, UnknownBuiltin
<1>11. vm'.steps <= MaxSteps + 1
  BY <1>2, <1>3, <1>7
<1>12. QED
  BY <1>3, <1>6, <1>7, <1>8, <1>9, <1>10, <1>11 DEF MachineMoved

LEMMA ExecuteMoves ==
  ASSUME TypeOK, NEW m, Advanced(m), Execute(m)
  PROVE  MachineMoved
<1> DEFINE late == IF ctx = "done" THEN m.late + 1 ELSE m.late
<1>1. m \in Machine /\ vm \in Machine
  BY DEF Advanced, TypeOK
<1>2. vm' = [m EXCEPT !.late = late] /\ Running
      /\ UNCHANGED <<tableVars, hostVars, ctx, busy, result>>
  BY DEF Execute
<1>3. \/ late = vm.late /\ ctx # "done"
      \/ ctx = "done" /\ late = vm.late + 1
  BY DEF Advanced
<1>4. Counted.steps <= MaxSteps /\ (ctx = "done" => Counted.steps % Cadence # 0)
      /\ Counted.steps = vm.steps + 1 /\ MaxSteps \in Nat /\ vm.steps \in Nat
  <2>1. Counted.steps = vm.steps + 1 /\ MaxSteps \in Nat /\ vm.steps \in Nat
    BY <1>1, CountedType, EngineAssumption DEF Machine
  <2>2. QED
    BY <2>1 DEF Execute, CutShort, AtCheck
<1>5. late \in Nat
  <2>1. m.late \in Nat
    BY <1>1 DEF Machine
  <2>2. QED
    BY <2>1
<1> HIDE DEF late
<1>6. vm' \in Machine
  BY <1>1, <1>2, <1>5 DEF Machine
<1>7. /\ vm'.script = m.script /\ vm'.compiled = m.compiled /\ vm'.start = m.start
      /\ vm'.steps = m.steps /\ vm'.late = late
      /\ vm'.halted = m.halted /\ vm'.error = m.error /\ vm'.stopped = m.stopped
  BY <1>1, <1>2 DEF Machine
<1>8. Going' /\ CleanHalt'
  BY <1>4, <1>7 DEF Going, CleanHalt, Advanced
<1>9. vm'.steps <= MaxSteps + 1 /\ vm'.steps = Counted.steps
  BY <1>4, <1>7 DEF Advanced
<1>10. \/ vm'.late = vm.late /\ ctx # "done"
       \/ ctx = "done" /\ vm'.late = vm.late + 1 /\ vm'.steps % Cadence # 0
  BY <1>3, <1>4, <1>7, <1>9
<1>11. QED
  BY <1>2, <1>6, <1>7, <1>8, <1>9, <1>10 DEF MachineMoved, Advanced
MachineStep ==
  \/ StopStep \/ Compute \/ Increase \/ CallUnknown \/ Suspend \/ Return \/ Fail
  \/ \E f \in HostFunc : CallHost(f)
  \/ \E c \in Gated : CallGated(c)

\* The values a step of the machine leaves outside it.
HostKept == goVar' \in Nat /\ hostErr' \in {hostErr, runs}

LEMMA StepMoves ==
  ASSUME TypeOK, Going, MachineStep
  PROVE  MachineMoved /\ HostKept
<1>1. goVar \in Nat /\ vm \in Machine
  BY DEF TypeOK
<1>2. Running
  BY DEF MachineStep, StopStep, Compute, Increase, CallUnknown, Suspend, Return, Fail,
         CallHost, CallGated, Execute
<1>3. Advanced(Counted) /\ ~Counted.halted /\ Counted \in Machine
  BY <1>2, CountedAdvanced, CountedType
<1>4. CASE StopStep
  BY <1>1, <1>4, StopMoves DEF StopStep, HostKept
<1>5. CASE Compute \/ \E c \in Gated : CallGated(c)
  BY <1>1, <1>3, <1>5, ExecuteMoves DEF Compute, CallGated, HostKept
<1>6. CASE Increase
  <2> DEFINE m == [Counted EXCEPT !.x = @ + 1, !.own = @ + 1]
  <2>1. m \in Machine /\ m.script = Counted.script /\ m.compiled = Counted.compiled
        /\ m.start = Counted.start /\ m.steps = Counted.steps /\ m.late = Counted.late
        /\ m.halted = Counted.halted /\ m.error = Counted.error
    <3>1. Counted.x \in Nat /\ Counted.own \in Nat
      BY <1>3 DEF Machine
    <3>2. Counted.x + 1 \in Nat /\ Counted.own + 1 \in Nat
      BY <3>1
    <3>3. m \in Machine
      BY <1>3, <3>2 DEF Machine
    <3>4. QED
      BY <1>3, <3>3 DEF Machine
  <2>2. Execute(m) /\ HostKept
    BY <1>1, <1>6 DEF Increase, HostKept
  <2> HIDE DEF m
  <2>3. QED
    BY <1>2, <2>1, <2>2, ChangedAdvanced, ExecuteMoves
<1>7. CASE CallUnknown \/ Suspend \/ Return \/ Fail
  <2>1. PICK error \in Errors, stopped \in Stops :
          /\ Execute(Halted(Counted, error, stopped))
          /\ error = UnknownBuiltin => ~ (Uses[vm.script] \subseteq builtins)
          /\ error = NoError => stopped \in {"returned", "suspended"}
          /\ UNCHANGED <<goVar, hostErr>>
    <3> USE DEF Errors, Stops, NoError, UnknownBuiltin, Unhandled, OtherError, StepOrTime
    <3>1. CASE CallUnknown
      BY <3>1 DEF CallUnknown
    <3>2. CASE Suspend
      BY <3>2 DEF Suspend
    <3>3. CASE Return
      BY <3>3 DEF Return
    <3>4. CASE Fail
      BY <3>4 DEF Fail
    <3>5. QED
      BY <1>7, <3>1, <3>2, <3>3, <3>4
  <2>2. Advanced(Halted(Counted, error, stopped))
    BY <1>3, <2>1, HaltedAdvanced
  <2>3. QED
    BY <1>1, <2>1, <2>2, ExecuteMoves DEF HostKept
<1>8. ASSUME NEW f \in HostFunc, CallHost(f)
      PROVE  MachineMoved /\ HostKept
  <2>1. PICK d \in {0, 1}, outcome \in {"ok", "caught", "unhandled"} :
          LET after == SeenByHost(vm) + d
              m == [Counted EXCEPT !.x = IF caps.live THEN after ELSE @, !.hosts = @ + d]
          IN  /\ Execute(IF outcome = "unhandled" THEN Halted(m, Unhandled, "host_error") ELSE m)
              /\ goVar' = after
              /\ hostErr' = IF outcome = "ok" THEN hostErr ELSE runs
    BY <1>8 DEF CallHost
  <2> DEFINE after == SeenByHost(vm) + d
             m == [Counted EXCEPT !.x = IF caps.live THEN after ELSE @, !.hosts = @ + d]
  <2>2. after \in Nat
    <3>1. vm.x \in Nat
      BY <1>1 DEF Machine
    <3>2. QED
      BY <1>1, <3>1 DEF SeenByHost
  <2>3. HostKept
    BY <2>1, <2>2 DEF HostKept
  <2>4. Execute(IF outcome = "unhandled" THEN Halted(m, Unhandled, "host_error") ELSE m)
    BY <2>1
  <2> HIDE DEF after
  <2>5. m \in Machine /\ m.script = Counted.script /\ m.compiled = Counted.compiled
        /\ m.start = Counted.start /\ m.steps = Counted.steps /\ m.late = Counted.late
        /\ m.halted = Counted.halted /\ m.error = Counted.error
    <3> DEFINE x == IF caps.live THEN after ELSE Counted.x
    <3>1. Counted.x \in Nat /\ Counted.hosts \in Nat
      BY <1>3 DEF Machine
    <3>2. x \in Nat /\ Counted.hosts + d \in Nat
      BY <2>2, <3>1
    <3>3. m = [Counted EXCEPT !.x = x, !.hosts = Counted.hosts + d]
      OBVIOUS
    <3> HIDE DEF m, x
    <3>4. m \in Machine
      BY <1>3, <3>2, <3>3 DEF Machine
    <3>5. QED
      BY <1>3, <3>2, <3>3, <3>4 DEF Machine
  <2> HIDE DEF m
  <2>6. Advanced(m) /\ ~m.halted
    BY <1>2, <2>5, ChangedAdvanced
  <2>7. Advanced(Halted(m, Unhandled, "host_error"))
    BY <2>6, HaltedAdvanced DEF Errors, Stops, NoError, Unhandled, UnknownBuiltin
  <2>8. QED
    BY <2>3, <2>4, <2>6, <2>7, ExecuteMoves
<1>9. QED
  BY <1>4, <1>5, <1>6, <1>7, <1>8 DEF MachineStep
-----------------------------------------------------------------------------
(* The other steps.                                                         *)

HostStep ==
  \/ \E c \in Capabilities : SetCapabilities(c)
  \/ UseDB
  \/ \E f \in HostFunc : Bind(f)
  \/ \E s \in Script : Compile(s) \/ Analyze(s)

BeginStep(s, compiled, context) ==
  Begin(s, compiled, context) /\ (compiled => Compiles(s))

WorldStep == Cancel \/ ContextDeadline \/ ContextTimer \/ DurationOver

LEMMA NextCases ==
  ASSUME [Next]_vars
  PROVE  \/ HostStep \/ WorldStep \/ MachineStep \/ Finish \/ UNCHANGED vars
         \/ \E s \in Script, compiled \in BOOLEAN, context \in Context :
              BeginStep(s, compiled, context)
<1>1. ASSUME NEW s \in Script, NEW context \in {"background", "live", "done"},
             Run(s, context) \/ RunScript(s, context)
      PROVE  \E compiled \in BOOLEAN : BeginStep(s, compiled, context)
  BY <1>1 DEF Run, RunScript, BeginStep
<1>2. {"background", "live", "done"} \subseteq Context
  BY DEF Context
<1>3. CASE Next
  BY <1>1, <1>2, <1>3 DEF Next, HostStep, WorldStep, MachineStep, Done
<1>4. QED
  BY <1>3

\* What the host's calls between runs leave as it is.
HostMoved ==
  ~busy /\ UNCHANGED <<goVar, hostErr, ctx, vm, busy, result, runs>>

LEMMA HostMoves ==
  ASSUME TypeOK, HostStep
  PROVE  HostMoved /\ TypeOK'
<1>1. Registered \subseteq Gated \cup HostFunc /\ Table \subseteq Gated \cup HostFunc
  BY DEF TypeOK, Registered, Table, Capabilities
<1>2. ASSUME NEW c \in Capabilities, SetCapabilities(c) PROVE HostMoved /\ TypeOK'
  BY <1>2 DEF SetCapabilities, Forget, HostMoved, TypeOK, hostVars
<1>3. CASE UseDB
  BY <1>3 DEF UseDB, Forget, HostMoved, TypeOK, hostVars
<1>4. ASSUME NEW f \in HostFunc, Bind(f) PROVE HostMoved /\ TypeOK'
  BY <1>4 DEF Bind, Forget, HostMoved, TypeOK, hostVars
<1>5. ASSUME NEW s \in Script, Compile(s) PROVE HostMoved /\ TypeOK'
  BY <1>1, <1>5 DEF Compile, Prepare, HostMoved, TypeOK
<1>6. ASSUME NEW s \in Script, Analyze(s) PROVE HostMoved /\ TypeOK'
  BY <1>1, <1>6 DEF Analyze, Prepare, Required, HostMoved, TypeOK
<1>7. QED
  BY <1>2, <1>3, <1>4, <1>5, <1>6 DEF HostStep

\* Time and the context go on: a context that is done stays so.
WorldMoved ==
  /\ busy
  /\ UNCHANGED <<tableVars, hostVars, goVar, hostErr, busy, result>>
  /\ ctx' \in Context
  /\ ctx = "done" => ctx' = "done"
  /\ vm' \in Machine
  /\ vm' = [vm EXCEPT !.timeUp = vm'.timeUp]

LEMMA WorldMoves ==
  ASSUME TypeOK, WorldStep
  PROVE  WorldMoved
<1>1. vm \in Machine /\ ctx \in Context
  BY DEF TypeOK
<1>2. [vm EXCEPT !.timeUp = TRUE] \in Machine /\ [vm EXCEPT !.timeUp = TRUE].timeUp = TRUE
  BY <1>1 DEF Machine
<1>3. vm = [vm EXCEPT !.timeUp = vm.timeUp]
  BY <1>1 DEF Machine
<1>4. QED
  BY <1>1, <1>2, <1>3 DEF WorldStep, Cancel, ContextDeadline, ContextTimer, DurationOver,
                          WorldMoved, Context

LEMMA WorldKeepsMachine ==
  ASSUME TypeOK, WorldMoved
  PROVE  /\ vm'.script = vm.script /\ vm'.compiled = vm.compiled /\ vm'.steps = vm.steps
         /\ vm'.x = vm.x /\ vm'.halted = vm.halted /\ vm'.error = vm.error
         /\ vm'.stopped = vm.stopped /\ vm'.start = vm.start /\ vm'.own = vm.own
         /\ vm'.hosts = vm.hosts /\ vm'.late = vm.late
  BY DEF TypeOK, WorldMoved, Machine

LEMMA BeginMoves ==
  ASSUME TypeOK, NEW s \in Script, NEW compiled \in BOOLEAN, NEW context \in Context,
         BeginStep(s, compiled, context)
  PROVE  /\ TypeOK' /\ Going'
         /\ vm'.script = s /\ vm'.compiled = compiled /\ vm'.steps = 0
         /\ vm'.x = goVar /\ ~vm'.halted /\ vm'.error = NoError
         /\ vm'.start = goVar /\ vm'.own = 0 /\ vm'.hosts = 0 /\ vm'.late = 0
         /\ vm'.stopped = "no"
<1>1. vm' = Fresh(s, compiled)
  BY DEF BeginStep, Begin
<1>2. vm' \in Machine
  BY <1>1, FreshType
<1>3. /\ vm'.script = s /\ vm'.compiled = compiled /\ vm'.steps = 0
      /\ vm'.x = goVar /\ ~vm'.halted /\ vm'.error = NoError
      /\ vm'.start = goVar /\ vm'.own = 0 /\ vm'.hosts = 0 /\ vm'.late = 0
      /\ vm'.stopped = "no"
  BY <1>1 DEF Fresh
<1>4. MaxSteps \in Nat /\ MaxRuns \in Nat
  BY EngineAssumption
<1>5. Table \subseteq Gated \cup HostFunc
  BY DEF TypeOK, Registered, Table, Capabilities
<1>6. runs' \in 0 .. MaxRuns /\ hostErr' \in 0 .. runs'
  BY <1>4 DEF TypeOK, BeginStep, Begin, ResetHostErr
<1>7. TypeOK'
  BY <1>2, <1>3, <1>4, <1>5, <1>6 DEF TypeOK, BeginStep, Begin, Prepare, Result
<1>8. Going'
  BY <1>3, <1>4 DEF Going
<1>9. QED
  BY <1>3, <1>7, <1>8
-----------------------------------------------------------------------------
(* Type correctness.                                                        *)

LEMMA InitTypes == Init => TypeOK /\ Going
<1> SUFFICES ASSUME Init PROVE TypeOK /\ Going
  OBVIOUS
<1>1. vm \in Machine /\ vm.steps = 0 /\ vm.error = NoError
  BY DEF Init, Fresh, Machine, NoError
<1>2. MaxSteps \in Nat /\ MaxRuns \in Nat
  BY EngineAssumption
<1>3. vm.steps <= MaxSteps + 1 /\ Going
  BY <1>1, <1>2 DEF Going
<1>4. hostErr \in 0 .. runs /\ runs \in 0 .. MaxRuns /\ goVar \in Nat
  BY <1>2 DEF Init
<1>5. caps \in Capabilities /\ ctx \in Context /\ result \in Result
  BY DEF Init, Context, Result
<1>6. QED
  BY <1>1, <1>3, <1>4, <1>5 DEF Init, TypeOK

LEMMA FinishMoves ==
  ASSUME TypeOK, Finish
  PROVE  TypeOK' /\ UNCHANGED <<tableVars, hostVars, hostErr, ctx, vm>>
<1>1. vm.x \in Nat
  BY DEF TypeOK, Machine
<1>2. QED
  BY <1>1 DEF Finish, TypeOK, Result, tableVars, hostVars

LEMMA NextTypes == TypeOK /\ Going /\ [Next]_vars => TypeOK' /\ Going'
<1> SUFFICES ASSUME TypeOK, Going, [Next]_vars PROVE TypeOK' /\ Going'
  OBVIOUS
<1>1. CASE HostStep
  BY <1>1, HostMoves DEF HostMoved, Going
<1>2. CASE WorldStep
  <2>1. WorldMoved
    BY <1>2, WorldMoves
  <2>2. QED
    BY <2>1, WorldKeepsMachine DEF WorldMoved, TypeOK, Going, tableVars, hostVars
<1>3. CASE MachineStep
  <2>1. MachineMoved /\ HostKept
    BY <1>3, StepMoves
  <2>2. runs \in Nat /\ hostErr' \in 0 .. runs
    BY <2>1, EngineAssumption DEF HostKept, TypeOK
  <2>3. QED
    BY <2>1, <2>2 DEF MachineMoved, HostKept, TypeOK, tableVars, hostVars
<1>4. CASE Finish
  BY <1>4, FinishMoves DEF Going
<1>5. CASE UNCHANGED vars
  BY <1>5 DEF vars, tableVars, hostVars, TypeOK, Going
<1>6. QED
  BY <1>1, <1>2, <1>3, <1>4, <1>5, NextCases, BeginMoves

LEMMA Types == Spec => [](TypeOK /\ Going)
<1>1. Init => TypeOK /\ Going
  BY InitTypes
<1>2. (TypeOK /\ Going) /\ [Next]_vars => (TypeOK /\ Going)'
  BY NextTypes
<1>3. QED
  BY <1>1, <1>2, PTL DEF Spec

\* Every reachable state has its types; in particular a machine never counts
\* more than one step beyond its limit.
THEOREM TypeCorrect == Spec => []TypeOK
  BY Types, PTL

-----------------------------------------------------------------------------
(* The table of builtins.                                                   *)

\* A run that began with a compilation finds what its source asks for.
CompiledRun ==
  busy /\ vm.compiled => Asked[vm.script] \subseteq builtins

TableInv == TableCurrent /\ CompiledRun /\ UnknownIsForbidden

LEMMA TableWhenCurrent ==
  ASSUME TableCurrent
  PROVE  Table = Registered
  BY DEF TableCurrent, Table

LEMMA NextTable == TypeOK /\ Going /\ TableInv /\ [Next]_vars => TableInv'
<1> SUFFICES ASSUME TypeOK, Going, TableInv, [Next]_vars PROVE TableInv'
  OBVIOUS
<1>1. CASE HostStep
  <2>1. ~busy /\ UNCHANGED <<vm, busy>>
    BY <1>1, HostMoves DEF HostMoved
  <2>2. made' => builtins' = Registered'
    <3>1. ASSUME NEW c \in Capabilities, SetCapabilities(c) PROVE ~made'
      BY <3>1 DEF SetCapabilities, Forget
    <3>2. CASE UseDB
      BY <3>2 DEF UseDB, Forget
    <3>3. ASSUME NEW f \in HostFunc, Bind(f) PROVE ~made'
      BY <3>3 DEF Bind, Forget
    <3>4. ASSUME NEW s \in Script, Compile(s) \/ Analyze(s)
          PROVE  builtins' = Registered'
      BY <3>4, TableWhenCurrent DEF Compile, Analyze, Prepare, Registered, TableInv
    <3>5. QED
      BY <1>1, <3>1, <3>2, <3>3, <3>4 DEF HostStep
  <2>3. QED
    BY <2>1, <2>2 DEF TableInv, TableCurrent, CompiledRun, UnknownIsForbidden
<1>2. ASSUME NEW s \in Script, NEW compiled \in BOOLEAN, NEW context \in Context,
             BeginStep(s, compiled, context)
      PROVE  TableInv'
  <2>1. builtins' = Registered /\ made' /\ UNCHANGED <<caps, hasDB, funcs>>
    BY <1>2, TableWhenCurrent DEF BeginStep, Begin, Prepare, TableInv
  <2>2. vm'.script = s /\ vm'.compiled = compiled /\ vm'.error # UnknownBuiltin
    BY <1>2, BeginMoves DEF NoError, UnknownBuiltin
  <2>3. compiled => Asked[s] \subseteq builtins'
    BY <1>2, <2>1, TableWhenCurrent DEF BeginStep, Compiles, TableInv
  <2>4. QED
    BY <2>1, <2>2, <2>3 DEF TableInv, TableCurrent, CompiledRun, UnknownIsForbidden, Registered
<1>3. CASE WorldStep
  <2>1. WorldMoved
    BY <1>3, WorldMoves
  <2>2. QED
    BY <2>1, WorldKeepsMachine DEF WorldMoved, TableInv, TableCurrent, CompiledRun,
                                   UnknownIsForbidden, Registered, tableVars
<1>4. CASE MachineStep
  <2>1. MachineMoved
    BY <1>4, StepMoves
  <2>2. TableCurrent' /\ CompiledRun'
    BY <2>1 DEF MachineMoved, TableInv, TableCurrent, CompiledRun, Registered, tableVars
  <2>3. builtins = Registered /\ Registered' = Registered
    BY <2>1 DEF MachineMoved, Running, TableInv, TableCurrent, Registered, tableVars
  <2>4. vm.compiled => Asked[vm.script] \subseteq Registered
    BY <2>1, <2>3 DEF MachineMoved, Running, TableInv, CompiledRun
  <2>5. UnknownIsForbidden'
    BY <2>1, <2>3, <2>4 DEF MachineMoved, UnknownIsForbidden
  <2>6. QED
    BY <2>2, <2>5 DEF TableInv
<1>5. CASE Finish \/ UNCHANGED vars
  <2>1. UNCHANGED <<tableVars, vm>> /\ (busy' => busy)
    BY <1>5, FinishMoves DEF Finish, vars
  <2>2. QED
    BY <2>1 DEF TableInv, TableCurrent, CompiledRun, UnknownIsForbidden, Registered, tableVars
<1>6. QED
  BY <1>1, <1>2, <1>3, <1>4, <1>5, NextCases

LEMMA Tables == Spec => []TableInv
<1>1. Init => TableInv
  BY DEF Init, Fresh, TableInv, TableCurrent, CompiledRun, UnknownIsForbidden
<1>2. QED
  BY <1>1, Types, NextTable, PTL DEF Spec

\* The cached table of builtins is never stale, whatever the host changes and
\* in whatever order.
THEOREM TableStaysCurrent == Spec => []TableCurrent
  BY Tables, PTL DEF TableInv

\* An unknown builtin is always one that the engine, as it is now, does not let
\* the script call, and for a source that Run has compiled an operation on files.
THEOREM UnknownMeansForbidden == Spec => []UnknownIsForbidden
  BY Tables, PTL DEF TableInv
-----------------------------------------------------------------------------
(* What Analyze reports.                                                    *)

\* Every report names the capabilities its source uses, and the functions the
\* source asks for are bound, as they stay.
ReportsKept ==
  \A r \in reports :
    /\ r[2] = Uses[r[1]] \cap Gated
    /\ Asked[r[1]] \subseteq Gated \cup funcs

LEMMA NextReports == TypeOK /\ Going /\ TableInv /\ ReportsKept /\ [Next]_vars => ReportsKept'
<1> SUFFICES ASSUME TypeOK, Going, TableInv, ReportsKept, [Next]_vars PROVE ReportsKept'
  OBVIOUS
<1>1. CASE UNCHANGED <<reports, funcs>>
  BY <1>1 DEF ReportsKept
<1>2. CASE HostStep
  <2>1. ASSUME NEW f \in HostFunc, Bind(f) PROVE ReportsKept'
    BY <2>1 DEF Bind, hostVars, ReportsKept
  <2>2. ASSUME NEW s \in Script, Analyze(s) PROVE ReportsKept'
    <3>1. Table = Registered
      BY TableWhenCurrent DEF TableInv
    <3>2. Table \subseteq Gated \cup funcs
      BY <3>1 DEF Registered, TypeOK, Capabilities
    <3>3. Asked[s] \subseteq Gated \cup funcs /\ funcs' = funcs
      BY <2>2, <3>2 DEF Analyze
    <3>4. reports' = reports \cup {<<s, Uses[s] \cap Gated>>}
      BY <2>2 DEF Analyze, Required
    <3>5. QED
      BY <3>3, <3>4 DEF ReportsKept
  <2>3. QED
    BY <1>1, <1>2, <2>1, <2>2 DEF HostStep, SetCapabilities, UseDB, Compile, hostVars
<1>3. CASE WorldStep
  BY <1>1, <1>3, WorldMoves DEF WorldMoved, tableVars, hostVars
<1>4. CASE MachineStep
  BY <1>1, <1>4, StepMoves DEF MachineMoved, tableVars, hostVars
<1>5. CASE Finish \/ UNCHANGED vars
  BY <1>1, <1>5, FinishMoves DEF vars, tableVars, hostVars
<1>6. ASSUME NEW s \in Script, NEW compiled \in BOOLEAN, NEW context \in Context,
             BeginStep(s, compiled, context)
      PROVE  ReportsKept'
  BY <1>1, <1>6 DEF BeginStep, Begin
<1>7. QED
  BY <1>2, <1>3, <1>4, <1>5, <1>6, NextCases

LEMMA ReportsSuffice == TypeOK /\ TableInv /\ ReportsKept => AnalyzeSuffices
<1> SUFFICES ASSUME TypeOK, TableInv, ReportsKept, NEW r \in reports,
                    r[2] \subseteq caps.granted, Database \in r[2] => hasDB
             PROVE  Compiles(r[1])
  BY DEF AnalyzeSuffices
<1>1. Table = Registered
  BY TableWhenCurrent DEF TableInv
<1>2. r[1] \in Script
  BY DEF TypeOK
<1>3. Asked[r[1]] \cap Gated \subseteq r[2]
  BY <1>2, EngineAssumption DEF ReportsKept
<1>4. Asked[r[1]] \subseteq Registered
  BY <1>3 DEF ReportsKept, Registered
<1>5. QED
  BY <1>1, <1>4 DEF Compiles

\* What Analyze answers stays enough: once it is granted, the source compiles,
\* whatever the host has done in between.
THEOREM AnalyzeIsEnough == Spec => []AnalyzeSuffices
<1>1. Init => ReportsKept
  BY DEF Init, ReportsKept
<1>2. Spec => []ReportsKept
  BY <1>1, Types, Tables, NextReports, PTL DEF Spec
<1>3. QED
  BY <1>2, Types, Tables, ReportsSuffice, PTL

-----------------------------------------------------------------------------
(* Results.                                                                 *)

\* While a script runs there is no result, and a host error on record is of the
\* run that is on or was last.
ResultInv ==
  /\ busy => result = None
  /\ CleanHalt
  /\ CompletedRanToEnd
  /\ hostErr \in {0, runs}
  /\ HostErrorOfThisRun

LEMMA NextResult == TypeOK /\ Going /\ ResultInv /\ [Next]_vars => ResultInv'
<1> SUFFICES ASSUME TypeOK, Going, ResultInv, [Next]_vars PROVE ResultInv'
  OBVIOUS
<1> USE DEF ResultInv, CompletedRanToEnd, HostErrorOfThisRun
<1>1. CASE HostStep
  BY <1>1, HostMoves DEF HostMoved, CleanHalt
<1>2. CASE WorldStep
  <2>1. WorldMoved
    BY <1>2, WorldMoves
  <2>2. QED
    BY <2>1, WorldKeepsMachine DEF WorldMoved, CleanHalt, hostVars, None
<1>3. CASE MachineStep
  <2>1. MachineMoved /\ HostKept
    BY <1>3, StepMoves
  <2>2. busy /\ UNCHANGED <<busy, result, runs>> /\ CleanHalt'
    BY <2>1 DEF MachineMoved, Running, hostVars
  <2>3. QED
    BY <2>1, <2>2 DEF HostKept, None
<1>4. CASE Finish
  <2>1. UNCHANGED <<hostErr, runs, ctx, vm>> /\ vm.halted /\ ~busy'
    BY <1>4, FinishMoves DEF Finish, hostVars
  <2>2. result' = "completed" => ctx # "done" /\ vm.error = NoError
    BY <1>4 DEF Finish, ContextEnded
  <2>3. result' = "host_error" => hostErr # 0
    BY <1>4 DEF Finish, ContextEnded
  <2>4. QED
    BY <2>1, <2>2, <2>3 DEF CleanHalt
<1>5. ASSUME NEW s \in Script, NEW compiled \in BOOLEAN, NEW context \in Context,
             BeginStep(s, compiled, context)
      PROVE  ResultInv'
  BY <1>5, BeginMoves DEF BeginStep, Begin, ResetHostErr, CleanHalt, None
<1>6. CASE UNCHANGED vars
  BY <1>6 DEF vars, hostVars, CleanHalt
<1>7. QED
  BY <1>1, <1>2, <1>3, <1>4, <1>5, <1>6, NextCases

LEMMA Results == Spec => []ResultInv
<1>1. Init => ResultInv
  BY DEF Init, Fresh, ResultInv, CleanHalt, CompletedRanToEnd, HostErrorOfThisRun, None
<1>2. QED
  BY <1>1, Types, NextResult, PTL DEF Spec

\* No run that was cut short, and none whose context has ended, counts as
\* completed.
THEOREM CompletedMeansEnded == Spec => []CompletedRanToEnd
  BY Results, PTL DEF ResultInv

\* A Go error is never reported of a run in which no bound function returned one.
THEOREM HostErrorIsOfItsRun == Spec => []HostErrorOfThisRun
  BY Results, PTL DEF ResultInv
-----------------------------------------------------------------------------
(* Cancellation.                                                            *)

LEMMA NextRemainder ==
  ASSUME NEW n \in Nat, NEW c \in Nat \ {0}
  PROVE  /\ n % c \in 0 .. c - 1
         /\ (n + 1) % c # 0 => (n + 1) % c = (n % c) + 1
<1> DEFINE q == n \div c
           r == n % c
           p == (n + 1) \div c
           s == (n + 1) % c
<1>0. ASSUME NEW m \in Nat
      PROVE  m \div c \in Int /\ m % c \in Int /\ 0 <= m % c /\ m % c < c
             /\ m = c * (m \div c) + (m % c)
  <2>1. m \div c \in Int /\ m % c \in Int
    OBVIOUS
  <2>2. 0 <= m % c
    OBVIOUS
  <2>3. m % c < c
    OBVIOUS
  <2>4. m = c * (m \div c) + (m % c)
    OBVIOUS
  <2>5. QED
    BY <2>1, <2>2, <2>3, <2>4
<1>1. q \in Int /\ r \in 0 .. c - 1 /\ n = c * q + r
  BY <1>0
<1>2. p \in Int /\ s \in 0 .. c - 1 /\ n + 1 = c * p + s
  <2>1. n + 1 \in Nat
    OBVIOUS
  <2>2. QED
    BY <1>0, <2>1
<1> HIDE DEF q, r, p, s
<1>3. ASSUME s # 0 PROVE s = r + 1
  <2>1. c * p - c * q = r + 1 - s
    BY <1>1, <1>2
  <2>2. CASE p = q
    BY <1>1, <1>2, <2>1, <2>2
  <2>3. CASE p > q
    <3>1. c * p >= c * q + c
      <4>1. p >= q + 1
        BY <1>1, <1>2, <2>3
      <4>2. c * p >= c * (q + 1)
        BY <1>1, <1>2, <4>1
      <4>3. QED
        BY <1>1, <4>2
    <3>2. QED
      BY <1>1, <1>2, <1>3, <2>1, <3>1
  <2>4. CASE p < q
    <3>1. c * q >= c * p + c
      <4>1. q >= p + 1
        BY <1>1, <1>2, <2>4
      <4>2. c * q >= c * (p + 1)
        BY <1>1, <1>2, <4>1
      <4>3. QED
        BY <1>2, <4>2
    <3>2. QED
      BY <1>1, <1>2, <1>3, <2>1, <3>1
  <2>5. QED
    BY <1>1, <1>2, <2>2, <2>3, <2>4
<1>4. QED
  BY <1>1, <1>3 DEF r, s

\* The steps since the context was done are those since the last look at it.
LateInv ==
  /\ CancelIsPrompt
  /\ ctx # "done" => vm.late = 0
  /\ ~vm.halted => vm.late <= vm.steps % Cadence

LEMMA LateMoves ==
  ASSUME TypeOK, LateInv, MachineMoved
  PROVE  LateInv'
<1>1. vm.steps \in Nat /\ vm.late \in Nat /\ Cadence \in Nat \ {0}
  BY EngineAssumption DEF TypeOK, Machine
<1>2. Running /\ UNCHANGED ctx /\ vm'.steps = vm.steps + 1
  BY DEF MachineMoved
<1>3. vm.late <= vm.steps % Cadence /\ ~vm.halted
  BY <1>2 DEF LateInv, Running
<1>4. /\ (vm.steps + 1) % Cadence \in 0 .. Cadence - 1
      /\ (vm.steps + 1) % Cadence # 0 => (vm.steps + 1) % Cadence = (vm.steps % Cadence) + 1
      /\ vm.steps % Cadence \in 0 .. Cadence - 1
  <2>1. vm.steps + 1 \in Nat
    BY <1>1
  <2>2. QED
    BY <1>1, <2>1, NextRemainder
<1>5. CASE vm'.late = vm.late /\ (ctx = "done" => vm'.halted)
  <2>1. ctx # "done" => vm'.late = 0
    BY <1>5 DEF LateInv
  <2>2. ~vm'.halted => vm'.late <= vm'.steps % Cadence
    BY <1>2, <1>4, <1>5, <2>1
  <2>3. QED
    BY <1>2, <1>5, <2>1, <2>2 DEF LateInv, CancelIsPrompt
<1>6. CASE ctx = "done" /\ vm'.late = vm.late + 1 /\ vm'.steps % Cadence # 0
  <2>1. vm'.late <= vm'.steps % Cadence
    BY <1>1, <1>2, <1>3, <1>4, <1>6
  <2>2. vm'.late < Cadence
    BY <1>1, <1>2, <1>4, <1>6, <2>1
  <2>3. QED
    BY <1>2, <1>6, <2>1, <2>2 DEF LateInv, CancelIsPrompt
<1>7. QED
  BY <1>5, <1>6 DEF MachineMoved

LEMMA NextLate == TypeOK /\ Going /\ LateInv /\ [Next]_vars => LateInv'
<1> SUFFICES ASSUME TypeOK, Going, LateInv, [Next]_vars PROVE LateInv'
  OBVIOUS
<1>1. CASE HostStep
  BY <1>1, HostMoves DEF HostMoved, LateInv, CancelIsPrompt
<1>2. CASE WorldStep
  <2>1. WorldMoved
    BY <1>2, WorldMoves
  <2>2. vm'.steps = vm.steps /\ vm'.late = vm.late /\ vm'.halted = vm.halted
    BY <2>1, WorldKeepsMachine
  <2>3. QED
    BY <2>1, <2>2 DEF WorldMoved, LateInv, CancelIsPrompt
<1>3. CASE MachineStep
  BY <1>3, StepMoves, LateMoves
<1>4. CASE Finish \/ UNCHANGED vars
  BY <1>4, FinishMoves DEF vars, LateInv, CancelIsPrompt
<1>5. ASSUME NEW s \in Script, NEW compiled \in BOOLEAN, NEW context \in Context,
             BeginStep(s, compiled, context)
      PROVE  LateInv'
  <2>1. vm'.late = 0 /\ vm'.steps = 0
    BY <1>5, BeginMoves
  <2>2. Cadence \in Nat \ {0} /\ 0 \in Nat
    BY EngineAssumption
  <2>3. 0 % Cadence \in 0 .. Cadence - 1
    BY <2>2, NextRemainder
  <2>4. QED
    BY <2>1, <2>2, <2>3 DEF LateInv, CancelIsPrompt
<1>6. QED
  BY <1>1, <1>2, <1>3, <1>4, <1>5, NextCases

\* Once its context is done, a script executes fewer than Cadence instructions
\* more.
THEOREM CancellationIsPrompt == Spec => []CancelIsPrompt
<1>1. Init => LateInv
  <2> SUFFICES ASSUME Init PROVE LateInv
    OBVIOUS
  <2>1. vm.late = 0 /\ vm.steps = 0
    BY DEF Init, Fresh
  <2>2. Cadence \in Nat \ {0} /\ 0 \in Nat
    BY EngineAssumption
  <2>3. 0 % Cadence \in 0 .. Cadence - 1
    BY <2>2, NextRemainder
  <2>4. QED
    BY <2>1, <2>2, <2>3 DEF LateInv, CancelIsPrompt
<1>2. LateInv => CancelIsPrompt
  BY DEF LateInv
<1>3. QED
  BY <1>1, <1>2, Types, NextLate, PTL DEF Spec

-----------------------------------------------------------------------------
(* Bound variables.                                                         *)

\* The counter of the machine and that of the host, while a script runs.
Balance ==
  busy =>
    IF caps.live
    THEN /\ vm.x = vm.start + vm.own + vm.hosts
         /\ goVar >= vm.start + vm.hosts
         /\ goVar <= vm.start + vm.own + vm.hosts
    ELSE /\ vm.x = vm.start + vm.own
         /\ goVar = vm.start + vm.hosts

Counters(x, own, hosts) == vm'.x = x /\ vm'.own = own /\ vm'.hosts = hosts

LEMMA ExecuteCounts ==
  ASSUME NEW m \in Machine, Execute(m)
  PROVE  Counters(m.x, m.own, m.hosts)
  BY DEF Execute, Counters, Machine

LEMMA HaltedCounts ==
  ASSUME NEW m \in Machine, NEW error \in Errors, NEW stopped \in Stops
  PROVE  /\ Halted(m, error, stopped) \in Machine
         /\ Halted(m, error, stopped).x = m.x
         /\ Halted(m, error, stopped).own = m.own
         /\ Halted(m, error, stopped).hosts = m.hosts
  BY HaltedType DEF Halted, Machine

\* What a step of the machine does to the counters: nothing, an increase by the
\* script, or a call of a bound function.
Unmoved == Counters(vm.x, vm.own, vm.hosts) /\ goVar' = goVar
OwnIncrease == Counters(vm.x + 1, vm.own + 1, vm.hosts) /\ goVar' = goVar
HostIncrease ==
  \E d \in {0, 1} :
    /\ goVar' = SeenByHost(vm) + d
    /\ Counters(IF caps.live THEN goVar' ELSE vm.x, vm.own, vm.hosts + d)

LEMMA CallCounts ==
  ASSUME TypeOK, NEW f \in HostFunc, CallHost(f)
  PROVE  HostIncrease
<1>1. PICK d \in {0, 1}, outcome \in {"ok", "caught", "unhandled"} :
        LET after == SeenByHost(vm) + d
            m == [Counted EXCEPT !.x = IF caps.live THEN after ELSE @, !.hosts = @ + d]
        IN  /\ Execute(IF outcome = "unhandled" THEN Halted(m, Unhandled, "host_error") ELSE m)
            /\ goVar' = after
            /\ hostErr' = IF outcome = "ok" THEN hostErr ELSE runs
  BY DEF CallHost
<1> DEFINE after == SeenByHost(vm) + d
           m == [Counted EXCEPT !.x = IF caps.live THEN after ELSE @, !.hosts = @ + d]
           x == IF caps.live THEN after ELSE vm.x
<1>2. /\ Execute(IF outcome = "unhandled" THEN Halted(m, Unhandled, "host_error") ELSE m)
      /\ goVar' = after
  BY <1>1
<1>3. /\ Counted \in Machine /\ Counted.x = vm.x /\ Counted.own = vm.own
      /\ Counted.hosts = vm.hosts
  BY CountedType DEF TypeOK, Machine
<1>4. vm.x \in Nat /\ vm.hosts \in Nat /\ goVar \in Nat
  BY DEF TypeOK, Machine
<1>5. after \in Nat /\ x \in Nat /\ vm.hosts + d \in Nat
  BY <1>4 DEF SeenByHost
<1> HIDE DEF after
<1>6. m = [Counted EXCEPT !.x = x, !.hosts = vm.hosts + d]
  BY <1>3
<1> HIDE DEF m, x
<1>7. m \in Machine
  BY <1>3, <1>5, <1>6 DEF Machine
<1>8. m.x = x /\ m.own = vm.own /\ m.hosts = vm.hosts + d
  BY <1>3, <1>5, <1>6 DEF Machine
<1>9. Counters(x, vm.own, vm.hosts + d)
  <2>1. CASE outcome = "unhandled"
    <3>1. /\ Halted(m, Unhandled, "host_error") \in Machine
          /\ Halted(m, Unhandled, "host_error").x = m.x
          /\ Halted(m, Unhandled, "host_error").own = m.own
          /\ Halted(m, Unhandled, "host_error").hosts = m.hosts
      BY <1>7, HaltedCounts DEF Errors, Stops
    <3>2. QED
      BY <1>2, <1>8, <2>1, <3>1, ExecuteCounts
  <2>2. CASE outcome # "unhandled"
    BY <1>2, <1>7, <1>8, <2>2, ExecuteCounts
  <2>3. QED
    BY <2>1, <2>2
<1>10. x = IF caps.live THEN goVar' ELSE vm.x
  BY <1>2 DEF x
<1>11. QED
  BY <1>2, <1>9, <1>10 DEF HostIncrease, after

LEMMA StepCounts ==
  ASSUME TypeOK, MachineStep
  PROVE  Unmoved \/ OwnIncrease \/ HostIncrease
<1>1. /\ Counted \in Machine /\ vm \in Machine
      /\ Counted.x = vm.x /\ Counted.own = vm.own /\ Counted.hosts = vm.hosts
  BY CountedType DEF TypeOK, Machine
<1>2. ASSUME NEW error \in Errors, NEW stopped \in Stops, goVar' = goVar,
             vm' = Halted(Counted, error, stopped) \/ Execute(Halted(Counted, error, stopped))
      PROVE  Unmoved
  <2>1. /\ Halted(Counted, error, stopped) \in Machine
        /\ Halted(Counted, error, stopped).x = vm.x
        /\ Halted(Counted, error, stopped).own = vm.own
        /\ Halted(Counted, error, stopped).hosts = vm.hosts
    BY <1>1, HaltedCounts
  <2>2. QED
    BY <1>2, <2>1, ExecuteCounts DEF Unmoved, Counters
<1>3. CASE StopStep
  <2>1. PICK error \in {StepOrTime, NoError} : vm' = Halted(Counted, error, "cut_short")
    BY <1>3 DEF StopStep
  <2>2. goVar' = goVar
    BY <1>3 DEF StopStep
  <2>3. QED
    BY <1>2, <2>1, <2>2 DEF Errors, Stops
<1>4. CASE Compute \/ \E c \in Gated : CallGated(c)
  BY <1>1, <1>4, ExecuteCounts DEF Compute, CallGated, Unmoved
<1>5. CASE CallUnknown \/ Suspend \/ Return \/ Fail
  <2>1. PICK error \in Errors, stopped \in Stops :
          Execute(Halted(Counted, error, stopped)) /\ goVar' = goVar
    BY <1>5 DEF CallUnknown, Suspend, Return, Fail, Errors, Stops
  <2>2. QED
    BY <1>2, <2>1
<1>6. CASE Increase
  <2> DEFINE m == [Counted EXCEPT !.x = @ + 1, !.own = @ + 1]
  <2>1. vm.x \in Nat /\ vm.own \in Nat
    BY <1>1 DEF Machine
  <2>2. vm.x + 1 \in Nat /\ vm.own + 1 \in Nat
    BY <2>1
  <2>3. m \in Machine /\ m.x = vm.x + 1 /\ m.own = vm.own + 1 /\ m.hosts = vm.hosts
    BY <1>1, <2>2 DEF Machine
  <2>4. Execute(m) /\ goVar' = goVar
    BY <1>6 DEF Increase
  <2> HIDE DEF m
  <2>5. Counters(m.x, m.own, m.hosts)
    BY <2>3, <2>4, ExecuteCounts
  <2>6. QED
    BY <2>3, <2>4, <2>5 DEF OwnIncrease
<1>7. QED
  BY <1>3, <1>4, <1>5, <1>6, CallCounts DEF MachineStep

LEMMA NextBalance == TypeOK /\ Going /\ Balance /\ [Next]_vars => Balance'
<1> SUFFICES ASSUME TypeOK, Going, Balance, [Next]_vars PROVE Balance'
  OBVIOUS
<1>1. vm.x \in Nat /\ vm.own \in Nat /\ vm.hosts \in Nat /\ vm.start \in Nat /\ goVar \in Nat
  BY DEF TypeOK, Machine
<1>2. CASE HostStep
  BY <1>2, HostMoves DEF HostMoved, Balance
<1>3. CASE WorldStep
  <2>1. WorldMoved
    BY <1>3, WorldMoves
  <2>2. QED
    BY <2>1, WorldKeepsMachine DEF WorldMoved, Balance, tableVars
<1>4. CASE MachineStep
  <2>1. busy /\ UNCHANGED <<busy, caps>> /\ vm'.start = vm.start
    BY <1>4, StepMoves DEF MachineMoved, Running, tableVars
  <2>2. CASE Unmoved
    BY <2>1, <2>2 DEF Unmoved, Counters, Balance
  <2>3. CASE OwnIncrease
    BY <1>1, <2>1, <2>3 DEF OwnIncrease, Counters, Balance
  <2>4. CASE HostIncrease
    <3>1. PICK d \in {0, 1} :
            /\ goVar' = SeenByHost(vm) + d
            /\ Counters(IF caps.live THEN goVar' ELSE vm.x, vm.own, vm.hosts + d)
      BY <2>4 DEF HostIncrease
    <3>2. CASE caps.live
      <4>1. goVar' = vm.x + d /\ vm'.x = vm.x + d /\ vm'.own = vm.own
            /\ vm'.hosts = vm.hosts + d
        BY <3>1, <3>2 DEF Counters, SeenByHost
      <4>2. vm.x = vm.start + vm.own + vm.hosts
        BY <2>1, <3>2 DEF Balance
      <4>3. QED
        BY <1>1, <2>1, <3>2, <4>1, <4>2 DEF Balance
    <3>3. CASE ~caps.live
      <4>1. goVar' = goVar + d /\ vm'.x = vm.x /\ vm'.own = vm.own
            /\ vm'.hosts = vm.hosts + d
        BY <3>1, <3>3 DEF Counters, SeenByHost
      <4>2. vm.x = vm.start + vm.own /\ goVar = vm.start + vm.hosts
        BY <2>1, <3>3 DEF Balance
      <4>3. QED
        BY <1>1, <2>1, <3>3, <4>1, <4>2 DEF Balance
    <3>4. QED
      BY <3>2, <3>3
  <2>5. QED
    BY <1>4, <2>2, <2>3, <2>4, StepCounts
<1>5. CASE Finish
  BY <1>5 DEF Finish, Balance
<1>6. CASE UNCHANGED vars
  BY <1>6 DEF vars, tableVars, Balance
<1>7. ASSUME NEW s \in Script, NEW compiled \in BOOLEAN, NEW context \in Context,
             BeginStep(s, compiled, context)
      PROVE  Balance'
  <2>1. /\ vm'.x = goVar /\ vm'.start = goVar /\ vm'.own = 0 /\ vm'.hosts = 0
        /\ goVar' = goVar /\ caps' = caps
    BY <1>7, BeginMoves DEF BeginStep, Begin
  <2>2. QED
    BY <1>1, <2>1 DEF Balance
<1>8. QED
  BY <1>2, <1>3, <1>4, <1>5, <1>6, <1>7, NextCases

LEMMA FinishKeeps ==
  ASSUME TypeOK, Balance, Finish
  PROVE  IF result' = "completed"
         THEN goVar' = vm.start + vm.own + (IF caps.live THEN vm.hosts ELSE 0)
         ELSE /\ goVar' >= vm.start + vm.hosts
              /\ goVar' <= vm.start + vm.hosts + (IF caps.live THEN vm.own ELSE 0)
<1>1. vm.x \in Nat /\ vm.own \in Nat /\ vm.hosts \in Nat /\ vm.start \in Nat /\ goVar \in Nat
  BY DEF TypeOK, Machine
<1>2. busy /\ (IF result' = "completed" THEN goVar' = vm.x ELSE goVar' = goVar)
  BY DEF Finish
<1>3. CASE caps.live
  BY <1>1, <1>2, <1>3 DEF Balance
<1>4. CASE ~caps.live
  BY <1>1, <1>2, <1>4 DEF Balance
<1>5. QED
  BY <1>3, <1>4

\* No increase of a bound variable is lost, by the script or by a bound function,
\* in whatever order they come and however the run ends.
THEOREM BindingsStayKept == Spec => BindingsKept
<1>1. Init => Balance
  BY DEF Init, Balance
<1>2. Spec => []Balance
  BY <1>1, Types, NextBalance, PTL DEF Spec
<1>3. TypeOK /\ Balance =>
        (Finish =>
           IF result' = "completed"
           THEN goVar' = vm.start + vm.own + (IF caps.live THEN vm.hosts ELSE 0)
           ELSE /\ goVar' >= vm.start + vm.hosts
                /\ goVar' <= vm.start + vm.hosts + (IF caps.live THEN vm.own ELSE 0))
  BY FinishKeeps
<1>4. QED
  BY <1>2, <1>3, Types, PTL DEF BindingsKept
=============================================================================
