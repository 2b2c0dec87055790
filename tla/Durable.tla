------------------------------ MODULE Durable -------------------------------
(***************************************************************************)
(* Durable execution (pkg/vmpas/durable.go): RunDurable, ResumeDurable and *)
(* the builtin Suspend, with the machine state that internal/ir/vm.go      *)
(* keeps and what internal/ir/snapshot.go writes of it, next to the plain  *)
(* Run of pkg/vmpas/vmpas.go on the same engine.                           *)
(*                                                                         *)
(* One engine serves one call at a time (Engine.mu).  The script is        *)
(* arbitrary; its program counter, locals and heap are the number of steps *)
(* it has executed.  The host keeps every State it was given, resumes any  *)
(* of them, in the same process or in another one, as often as it likes.   *)
(***************************************************************************)
EXTENDS Naturals, Sequences

CONSTANTS
  Script,           (* the sources the host runs                           *)
  Concurrent,       (* those that use spawn or channels,                   *)
  Unwinding,        (* ... that raise exceptions into cleanups,            *)
  UsingFiles,       (* ... and that call Assign, Reset and Close           *)
  Input,            (* values of the bound Go variable                     *)
  MaxSteps,         (* Capabilities: steps,                                *)
  MaxHeap,          (*   allocations (0: no limit)                         *)
  MaxOutput,        (*   and output (0: no limit)                          *)
  MaxCalls,         (* bound: Run, RunDurable and ResumeDurable calls      *)
  Off               (* there is no machine                                 *)

None == "none"

ASSUME DurableAssumption ==
  /\ Script # {}
  /\ Concurrent \cup Unwinding \cup UsingFiles \subseteq Script
  /\ {MaxSteps, MaxHeap, MaxOutput, MaxCalls} \subseteq Nat
  /\ None \notin Script

VARIABLES
  vm,        (* the machine of the running call, or Off                    *)
  goVar,     (* the bound Go variable                                      *)
  audit,     (* Engine.audit: which script made each recorded call         *)
  output,    (* Engine.output                                              *)
  completed, (* Engine.lastGlobals: the script Get reads from, or None     *)
  states,    (* every State the host was given                             *)
  result,    (* what the last call returned: see Result                    *)
  calls      (* how many calls the host has made                           *)

vars == <<vm, goVar, audit, output, completed, states, result, calls>>

NoError == 0
StepLimit == 200
OverLimit == 203   (* of the heap and of the output                        *)
OtherError == 204
Unhandled == 217

\* file: the file variable of the script.  ended: how the machine stopped, as
\* the script sees it.
Machine == [script : Script, mode : {"run", "durable"},
            steps : Nat, heap : Nat, output : Nat, over : BOOLEAN, draws : Nat,
            x : Input, file : {"none", "open", "closed"}, exc : BOOLEAN,
            suspended : BOOLEAN, halted : BOOLEAN,
            error : {NoError, StepLimit, OverLimit, OtherError, Unhandled},
            ended : {"no", "paused", "returned", "failed"}]

\* State.Data and State.Output.
State == [script : Script, steps : Nat, output : Nat, draws : Nat, exc : BOOLEAN,
          error : {NoError, StepLimit, OverLimit, OtherError, Unhandled},
          ended : {"paused", "returned", "failed"}]

Result == {None, "completed", "state", "error"}

TypeOK ==
  /\ vm \in Machine \cup {Off}
  /\ goVar \in Input
  /\ audit \in Seq(Script)
  /\ output \in Nat
  /\ completed \in Script \cup {None}
  /\ \A s \in states : s \in State /\ s.script \notin Concurrent
  /\ result \in Result
  /\ calls \in 0 .. MaxCalls

Init ==
  /\ vm = Off
  /\ goVar \in Input
  /\ audit = <<>>
  /\ output = 0
  /\ completed = None
  /\ states = {}
  /\ result = None
  /\ calls = 0

-----------------------------------------------------------------------------
(* The host.                                                                *)

Fresh(s, mode) ==
  [script |-> s, mode |-> mode, steps |-> 0, heap |-> 0,
   output |-> 0, over |-> FALSE, draws |-> 0, x |-> goVar, file |-> "none",
   exc |-> FALSE, suspended |-> FALSE, halted |-> FALSE, error |-> NoError,
   ended |-> "no"]

\* Mutant: the snapshot lacks the state of the random number generator.
RestoreWithoutSeed(st) ==
  [Fresh(st.script, "durable") EXCEPT
     !.steps = st.steps, !.output = st.output,
     !.exc = st.exc, !.error = st.error]

\* RestoreVM, the output of the earlier segments, and the bound variable
\* seeded anew.  The heap count is not part of a snapshot.
Restore(st) ==
  [Fresh(st.script, "durable") EXCEPT
     !.steps = st.steps, !.output = st.output, !.draws = st.draws,
     !.exc = st.exc, !.error = st.error]

Call ==
  /\ vm = Off
  /\ calls < MaxCalls
  /\ calls' = calls + 1

ResetAudit == audit' = <<>>

\* Engine.Run and RunDurable.
Start(s, mode) ==
  /\ Call
  /\ vm' = Fresh(s, mode)
  /\ ResetAudit
  /\ completed' = None
  /\ result' = None
  /\ UNCHANGED <<goVar, output, states>>

\* The fingerprint of the program in the snapshot.
SameProgram(s, st) == s = st.script

\* ResumeDurable.
Resume(s, st) ==
  /\ Call
  /\ IF SameProgram(s, st)
     THEN /\ vm' = [Restore(st) EXCEPT !.script = s]
          /\ completed' = None
          /\ result' = None
     ELSE /\ result' = "error"
          /\ UNCHANGED <<vm, completed>>
  /\ UNCHANGED <<goVar, audit, output, states>>

HostSets(v) ==
  /\ vm = Off
  /\ goVar' = v
  /\ UNCHANGED <<vm, audit, output, completed, states, result, calls>>

\* The process dies; the host goes on in another one with the States it kept.
Crash ==
  /\ vm' = Off
  /\ audit' = <<>>
  /\ output' = 0
  /\ completed' = None
  /\ result' = None
  /\ UNCHANGED <<goVar, states, calls>>

-----------------------------------------------------------------------------
(* The script.                                                              *)

Halted(m, error, ended) == [m EXCEPT !.halted = TRUE, !.error = error, !.ended = ended]

Running == vm # Off /\ ~vm.halted

\* VM.Step counts the instruction before it executes it.
Counted == [vm EXCEPT !.steps = @ + 1]

\* VM.Step: the limits, before the instruction.
HitsLimit ==
  /\ Running
  /\ \/ Counted.steps > MaxSteps /\ vm' = Halted(Counted, StepLimit, "failed")
     \/ Counted.steps <= MaxSteps /\ vm.over /\ vm' = Halted(Counted, OverLimit, "failed")
  /\ UNCHANGED <<goVar, audit, output, completed, states, result, calls>>

\* An instruction that leaves one of a set of machines.
Execute(machines) ==
  /\ Running
  /\ vm.steps < MaxSteps
  /\ ~vm.over
  /\ vm' \in machines
  /\ UNCHANGED <<goVar, output, completed, states, result, calls>>

\* doUnwind: to an except block, to a cleanup, or to nothing.
Unwound(m) ==
  {[m EXCEPT !.exc = FALSE], [m EXCEPT !.exc = TRUE],
   Halted([m EXCEPT !.exc = TRUE], Unhandled, "failed")}

\* Mutant: the machine does not stop for a wish to suspend.
RunsOnAfterSuspend(m) == IF m.exc THEN Unwound(m) ELSE {m}

\* OPCallBuiltin, after the builtin has run.  An active exception comes first:
\* the machine unwinds and leaves a wish to suspend for the next builtin.
BuiltinReturns(m) ==
  IF m.exc THEN Unwound(m)
  ELSE IF m.suspended THEN {Halted(m, m.error, "paused")}
  ELSE {m}

Compute == Execute({Counted}) /\ UNCHANGED audit

Assign == Execute({[Counted EXCEPT !.x = v] : v \in Input}) /\ UNCHANGED audit

\* OPHeapAlloc: the allocation that exceeds the limit is counted, not made.
Allocate ==
  /\ Execute(LET m == [Counted EXCEPT !.heap = @ + 1]
             IN  IF MaxHeap > 0 /\ m.heap > MaxHeap
                 THEN {Halted(m, OverLimit, "failed")}
                 ELSE {m})
  /\ UNCHANGED audit

\* Output.WriteString cuts at the limit and remembers that it did.
Write ==
  /\ Execute(BuiltinReturns(IF MaxOutput > 0 /\ vm.output >= MaxOutput
                            THEN [Counted EXCEPT !.over = TRUE]
                            ELSE [Counted EXCEPT !.output = @ + 1]))
  /\ UNCHANGED audit

Random ==
  /\ Execute(BuiltinReturns([Counted EXCEPT !.draws = @ + 1]))
  /\ UNCHANGED audit

\* A builtin behind a capability, recorded before it runs.
GatedCall ==
  /\ Execute(BuiltinReturns(Counted))
  /\ audit' = Append(audit, vm.script)

\* Assign, Reset and Close: the file stays a global of the machine.
FileCall ==
  /\ Running
  /\ vm.script \in UsingFiles
  /\ Execute(UNION {BuiltinReturns([Counted EXCEPT !.file = f]) :
                      f \in IF vm.file = "none" THEN {"open"} ELSE {"open", "closed"}})
  /\ UNCHANGED audit

Suspend ==
  /\ Execute(BuiltinReturns([Counted EXCEPT !.suspended = TRUE]))
  /\ UNCHANGED audit

\* raise, or a host function that returns an error.
Raise ==
  /\ Execute(IF vm.script \in Unwinding THEN Unwound(Counted)
             ELSE {Counted, Halted([Counted EXCEPT !.exc = TRUE], Unhandled, "failed")})
  /\ UNCHANGED audit

\* The end of a cleanup: OPReraise goes on unwinding; recover stopped it.
EndCleanup ==
  /\ Running
  /\ vm.exc
  /\ Execute({[Counted EXCEPT !.exc = FALSE]} \cup Unwound(Counted))
  /\ UNCHANGED audit

Fail == Execute({Halted(Counted, OtherError, "failed")}) /\ UNCHANGED audit

Return == Execute({Halted(Counted, vm.error, "returned")}) /\ UNCHANGED audit

-----------------------------------------------------------------------------
(* The end of a call.                                                       *)

\* Mutant: a program with fibers is written like any other.
SnapshotsFibers == vm.file = "none"

\* The encoder refuses fibers, and every value that is a file.
CanSnapshot == vm.script \notin Concurrent /\ vm.file = "none"

Snapshot ==
  [script |-> vm.script, steps |-> vm.steps, output |-> vm.output,
   draws |-> vm.draws, exc |-> vm.exc, error |-> vm.error, ended |-> vm.ended]

Stops ==
  /\ vm # Off
  /\ vm.halted
  /\ vm' = Off
  /\ output' = vm.output
  /\ UNCHANGED <<audit, calls>>

\* runDurableLocked: bound variables are read back however the script stopped.
DurableReturns ==
  /\ Stops
  /\ vm.mode = "durable"
  /\ goVar' = vm.x
  /\ IF vm.suspended /\ CanSnapshot
     THEN /\ states' = states \cup {Snapshot}
          /\ result' = "state"
          /\ UNCHANGED completed
     ELSE /\ IF vm.suspended \/ vm.error # NoError
             THEN result' = "error" /\ UNCHANGED completed
             ELSE result' = "completed" /\ completed' = vm.script
          /\ UNCHANGED states

\* execLockedCtx: only after a run without an error.
RunReturns ==
  /\ Stops
  /\ vm.mode = "run"
  /\ IF vm.error # NoError
     THEN result' = "error" /\ UNCHANGED <<goVar, completed>>
     ELSE result' = "completed" /\ completed' = vm.script /\ goVar' = vm.x
  /\ UNCHANGED states

Done == vm = Off /\ calls = MaxCalls /\ UNCHANGED vars

Next ==
  \/ \E s \in Script, mode \in {"run", "durable"} : Start(s, mode)
  \/ \E s \in Script, st \in states : Resume(s, st)
  \/ \E v \in Input : HostSets(v)
  \/ Crash
  \/ HitsLimit
  \/ Compute
  \/ Assign
  \/ Allocate
  \/ Write
  \/ Random
  \/ GatedCall
  \/ FileCall
  \/ Suspend
  \/ Raise
  \/ EndCleanup
  \/ Fail
  \/ Return
  \/ DurableReturns
  \/ RunReturns
  \/ Done

Spec == Init /\ [][Next]_vars

-----------------------------------------------------------------------------
(* Properties.                                                              *)

ProgressOf(r) ==
  [script |-> r.script, steps |-> r.steps, output |-> r.output, draws |-> r.draws]

W == INSTANCE WorkflowSpec WITH
       Idle <- Off,
       current <- IF vm = Off THEN Off ELSE ProgressOf(vm),
       paused <- {ProgressOf(st) : st \in states}

\* To have no machine is not to be anywhere in a script.
ASSUME OffAssumption == Off \notin W!Progress

\* Whatever the host does with calls, crashes and old States, a resumed script
\* stands exactly where one stood that paused: its steps, so that the step limit
\* spans all its segments, its output and its random numbers are those it had.
KeepsWorkflowPromise == W!Spec

PausedCleanly(st) == st.ended = "paused" /\ st.error = NoError

\* A State is of a script that has paused, and can go on, never of one that has
\* ended or failed; but for scripts that call Suspend while they unwind.
StatesArePaused == \A st \in states : st.script \notin Unwinding => PausedCleanly(st)
=============================================================================
