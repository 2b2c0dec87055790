------------------------------- MODULE Engine -------------------------------
(***************************************************************************)
(* The embedding API (pkg/vmpas: Engine, Script, SetCapabilities, UseDB,   *)
(* Var, Function, Compile, Analyze, Run, RunContext) with the part of      *)
(* internal/ir/vm.go that a run of a script shows to the host: limits,     *)
(* deadline, cancellation, calls of builtins and of bound Go functions.    *)
(*                                                                         *)
(* Engine.mu makes every call atomic, but for the run of a script, which   *)
(* takes many steps and during which no other call proceeds; time and the  *)
(* context of the running call go on.  Scripts are arbitrary, but for the  *)
(* names of the builtins they call, and those of which the generator asks  *)
(* whether the engine has them: it lowers Assign, Reset and their like,    *)
(* and what reads and writes an open file, without asking.  The one bound  *)
(* variable is a counter that the script and the bound Go functions        *)
(* increase.                                                               *)
(***************************************************************************)
EXTENDS Naturals, FiniteSets

CONSTANTS
  Gated,      (* capabilities that gate builtins                           *)
  Database,   (* the one that also needs a handle, given by UseDB          *)
  FileSystem, (* the one with builtins that the generator knows itself     *)
  OpenFile,   (* __fwrite, __freadln, ...: emitted, registered nowhere     *)
  HostFunc,   (* names of Go functions the host may bind                   *)
  Script,     (* sources                                                   *)
  Uses,       (* the capabilities, file operations and host functions each *)
              (* source calls                                              *)
  Asked,      (* those of them that the generator looks up in the table    *)
  MaxSteps,   (* vm.MaxSteps                                               *)
  Cadence,    (* deadline and Cancel are looked at every Cadence steps     *)
  MaxRuns     (* bound: runs of scripts                                    *)

None == "none"

ASSUME EngineAssumption ==
  /\ {Database, FileSystem} \subseteq Gated
  /\ Gated \cap HostFunc = {}
  /\ OpenFile \cap (Gated \cup HostFunc) = {}
  /\ Uses \in [Script -> SUBSET (Gated \cup HostFunc \cup OpenFile)]
  /\ Asked \in [Script -> SUBSET (Gated \cup HostFunc)]
  /\ \A s \in Script : /\ Asked[s] \subseteq Uses[s]
                       /\ Uses[s] \ Asked[s] \subseteq {FileSystem} \cup OpenFile
  /\ {MaxSteps, Cadence, MaxRuns} \subseteq Nat \ {0}
  /\ None \notin Script \cup Gated \cup HostFunc

VARIABLES
  caps,      (* Engine.caps: what it grants, and its two switches          *)
  hasDB,     (* Engine.db                                                  *)
  funcs,     (* Engine.funcs and Engine.procs                              *)
  builtins,  (* Engine.builtins, the cached table of names, {} if not made *)
  made,      (* Engine.builtins # nil                                      *)
  scripts,   (* compiled Scripts the host holds                            *)
  reports,   (* what Analyze has returned, each with its source            *)
  goVar,     (* the bound Go variable                                      *)
  hostErr,   (* Engine.hostErr: the run that recorded it, or 0             *)
  ctx,       (* the context of the running call                            *)
  vm,        (* the machine of the running or last call                    *)
  busy,      (* a script runs: Engine.mu is held                           *)
  result,    (* what the last run returned                                 *)
  runs       (* how many runs there have been                              *)

tableVars == <<caps, hasDB, funcs, builtins, made>>
hostVars == <<scripts, reports, runs>>
vars == <<tableVars, hostVars, goVar, hostErr, ctx, vm, busy, result>>

Capabilities == [granted : SUBSET Gated, live : BOOLEAN, duration : BOOLEAN]

NoError == 0
StepOrTime == 200
UnknownBuiltin == 3
Unhandled == 217
OtherError == 204

\* stopped: why the machine halted, as the script sees it.  compiled: the run
\* began with the compilation of its source.  start, own and hosts are kept for
\* the properties: the variable when the run began, and how often the script
\* and the bound functions have increased it; late counts the steps since the
\* context was done.
Machine == [script : Script \cup {None}, compiled : BOOLEAN, steps : Nat, x : Nat,
            timeUp : BOOLEAN, halted : BOOLEAN,
            error : {NoError, StepOrTime, UnknownBuiltin, Unhandled, OtherError},
            stopped : {"no", "returned", "suspended", "cut_short", "failed", "host_error"},
            start : Nat, own : Nat, hosts : Nat, late : Nat]

\* A context is "live"; a deadline of its own may have "passed" before its timer
\* makes it "done"; a cancel does so at once.
Context == {"background", "live", "passed", "done"}
Result == {None, "completed", "context_error", "host_error", "runtime_error"}

TypeOK ==
  /\ caps \in Capabilities
  /\ hasDB \in BOOLEAN
  /\ funcs \in SUBSET HostFunc
  /\ builtins \in SUBSET (Gated \cup HostFunc)
  /\ made \in BOOLEAN
  /\ scripts \in SUBSET Script
  /\ reports \in SUBSET (Script \X SUBSET Gated)
  /\ goVar \in Nat
  /\ hostErr \in 0 .. runs
  /\ ctx \in Context
  /\ vm \in Machine
  /\ vm.steps <= MaxSteps + 1
  /\ busy \in BOOLEAN
  /\ result \in Result
  /\ runs \in 0 .. MaxRuns

Fresh(s, compiled) ==
  [script |-> s, compiled |-> compiled, steps |-> 0, x |-> goVar, timeUp |-> FALSE,
   halted |-> FALSE, error |-> NoError, stopped |-> "no",
   start |-> goVar, own |-> 0, hosts |-> 0, late |-> 0]

Init ==
  /\ caps \in Capabilities
  /\ hasDB = FALSE
  /\ funcs = {}
  /\ builtins = {} /\ made = FALSE
  /\ scripts = {}
  /\ reports = {}
  /\ goVar = 0
  /\ hostErr = 0
  /\ ctx = "background"
  /\ vm = Fresh(None, FALSE)
  /\ busy = FALSE
  /\ result = None
  /\ runs = 0

-----------------------------------------------------------------------------
(* The table of builtins.                                                   *)

\* registerRuntime: the builtins the sandbox permits and the bound functions.
Registered ==
  {c \in caps.granted : c = Database => hasDB} \cup funcs

\* prepareBuiltins.
Table == IF made THEN builtins ELSE Registered
Prepare == builtins' = Table /\ made' = TRUE

Forget == builtins' = {} /\ made' = FALSE

SetCapabilities(c) ==
  /\ ~busy
  /\ caps' = c
  /\ Forget
  /\ UNCHANGED <<hasDB, funcs, hostVars, goVar, hostErr, ctx, vm, busy, result>>

\* Mutant: the table that was made before the handle came stays.
UseDBQuietly ==
  /\ ~busy
  /\ hasDB' = TRUE
  /\ UNCHANGED <<caps, funcs, builtins, made, hostVars, goVar, hostErr, ctx, vm, busy, result>>

UseDB ==
  /\ ~busy
  /\ hasDB' = TRUE
  /\ Forget
  /\ UNCHANGED <<caps, funcs, hostVars, goVar, hostErr, ctx, vm, busy, result>>

\* Function and Process.
Bind(f) ==
  /\ ~busy
  /\ funcs' = funcs \cup {f}
  /\ Forget
  /\ UNCHANGED <<caps, hasDB, hostVars, goVar, hostErr, ctx, vm, busy, result>>

-----------------------------------------------------------------------------
(* Compiling and starting scripts.                                          *)

\* Mutant: every gated name resolves, as it does for Analyze.
CompilesLoosely(s) == Asked[s] \subseteq Table \cup Gated

\* A name that the generator looks up and does not find is an unknown
\* identifier.
Compiles(s) == Asked[s] \subseteq Table

Compile(s) ==
  /\ ~busy
  /\ Prepare
  /\ scripts' = IF Compiles(s) THEN scripts \cup {s} ELSE scripts
  /\ UNCHANGED <<caps, hasDB, funcs, reports, goVar, hostErr, ctx, vm, busy, result, runs>>

\* Mutant: only the capabilities that are granted are reported.
GrantedOf(s) == Uses[s] \cap Gated \cap Table

\* analyzeProgram.
Required(s) == Uses[s] \cap Gated

\* Compiled against every gated name; fails on other unknown names.
Analyze(s) ==
  /\ ~busy
  /\ Prepare
  /\ Asked[s] \subseteq Table \cup Gated
  /\ reports' = reports \cup {<<s, Required(s)>>}
  /\ UNCHANGED <<caps, hasDB, funcs, scripts, goVar, hostErr, ctx, vm, busy, result, runs>>

\* Mutant: the host error of an earlier run stays.
KeepHostErr == UNCHANGED hostErr

ResetHostErr == hostErr' = 0

\* execLockedCtx, up to vm.Run.
Begin(s, compiled, context) ==
  /\ ~busy
  /\ runs < MaxRuns
  /\ runs' = runs + 1
  /\ Prepare
  /\ vm' = Fresh(s, compiled)
  /\ ctx' = context
  /\ ResetHostErr
  /\ busy' = TRUE
  /\ result' = None
  /\ UNCHANGED <<caps, hasDB, funcs, scripts, reports, goVar>>

\* Engine.Run and RunContext; a source that does not compile changes nothing
\* but the table, as in Compile.
Run(s, context) == Compiles(s) /\ Begin(s, TRUE, context)

\* Script.Run and Script.RunContext.
RunScript(s, context) == s \in scripts /\ Begin(s, FALSE, context)

-----------------------------------------------------------------------------
(* The world outside, while a script runs.                                  *)

Cancel ==
  /\ busy
  /\ ctx = "live"
  /\ ctx' = "done"
  /\ UNCHANGED <<tableVars, hostVars, goVar, hostErr, vm, busy, result>>

\* The deadline of the context: the machine has it too, as vm.Deadline.
ContextDeadline ==
  /\ busy
  /\ ctx = "live"
  /\ ctx' = "passed"
  /\ vm' = [vm EXCEPT !.timeUp = TRUE]
  /\ UNCHANGED <<tableVars, hostVars, goVar, hostErr, busy, result>>

ContextTimer ==
  /\ busy
  /\ ctx = "passed"
  /\ ctx' = "done"
  /\ UNCHANGED <<tableVars, hostVars, goVar, hostErr, vm, busy, result>>

\* MaxDuration.
DurationOver ==
  /\ busy
  /\ caps.duration
  /\ vm' = [vm EXCEPT !.timeUp = TRUE]
  /\ UNCHANGED <<tableVars, hostVars, goVar, hostErr, ctx, busy, result>>

-----------------------------------------------------------------------------
(* VM.Step.                                                                 *)

Halted(m, error, stopped) == [m EXCEPT !.halted = TRUE, !.error = error, !.stopped = stopped]

Counted == [vm EXCEPT !.steps = @ + 1]

\* Mutant: Cancel is looked at half as often.
RareCheck(m) == m.steps % (2 * Cadence) = 0

AtCheck(m) == m.steps % Cadence = 0

\* Mutant: the step limit is not enforced.
NeverCutShort(m) == AtCheck(m) /\ (m.timeUp \/ ctx = "done")

\* The checks before an instruction, in the order of the code.
CutShort(m) ==
  \/ m.steps > MaxSteps
  \/ AtCheck(m) /\ (m.timeUp \/ ctx = "done")

Running == busy /\ ~vm.halted

StopStep ==
  /\ Running
  /\ CutShort(Counted)
  /\ vm' = Halted(Counted,
                  IF Counted.steps > MaxSteps \/ vm.timeUp THEN StepOrTime ELSE NoError,
                  "cut_short")
  /\ UNCHANGED <<tableVars, hostVars, goVar, hostErr, ctx, busy, result>>

\* An instruction that makes of the counted machine the machine m.
Execute(m) ==
  /\ Running
  /\ ~CutShort(Counted)
  /\ vm' = [m EXCEPT !.late = IF ctx = "done" THEN @ + 1 ELSE @]
  /\ UNCHANGED <<tableVars, hostVars, ctx, busy, result>>

Compute == Execute(Counted) /\ UNCHANGED <<goVar, hostErr>>

Increase ==
  /\ Execute([Counted EXCEPT !.x = @ + 1, !.own = @ + 1])
  /\ UNCHANGED <<goVar, hostErr>>

\* OPCallBuiltin of a name that is not in the table of this run.
CallUnknown ==
  /\ Running
  /\ ~ (Uses[vm.script] \subseteq builtins)
  /\ Execute(Halted(Counted, UnknownBuiltin, "failed"))
  /\ UNCHANGED <<goVar, hostErr>>

\* Mutant: the callback sees the variable as it was at the start of the run.
SeesOld(m) == goVar

\* readbackVars before a call of a bound function, with LiveBindings.
SeenByHost(m) == IF caps.live THEN m.x ELSE goVar

\* makeBuiltin: the bound function increases the Go variable or not, and
\* returns an error or not, which the script catches or not.
CallHost(f) ==
  /\ Running
  /\ f \in Uses[vm.script] \cap builtins
  /\ \E d \in {0, 1}, outcome \in {"ok", "caught", "unhandled"} :
       LET after == SeenByHost(vm) + d
           m == [Counted EXCEPT !.x = IF caps.live THEN after ELSE @, !.hosts = @ + d]
       IN  /\ Execute(IF outcome = "unhandled" THEN Halted(m, Unhandled, "host_error") ELSE m)
           /\ goVar' = after
           /\ hostErr' = IF outcome = "ok" THEN hostErr ELSE runs

\* A builtin behind a capability, and the others, change nothing modelled here.
CallGated(c) ==
  /\ Running
  /\ c \in Uses[vm.script] \cap builtins
  /\ Execute(Counted)
  /\ UNCHANGED <<goVar, hostErr>>

Suspend == Execute(Halted(Counted, NoError, "suspended")) /\ UNCHANGED <<goVar, hostErr>>

Return == Execute(Halted(Counted, NoError, "returned")) /\ UNCHANGED <<goVar, hostErr>>

\* An exception nobody catches, or another run-time error.
Fail ==
  /\ \E code \in {Unhandled, OtherError} : Execute(Halted(Counted, code, "failed"))
  /\ UNCHANGED <<goVar, hostErr>>

-----------------------------------------------------------------------------
\* Mutant: the context is not looked at after the run.
ContextForgotten == FALSE

ContextEnded == ctx = "done"

\* execLockedCtx, after vm.Run.
Finish ==
  /\ busy
  /\ vm.halted
  /\ busy' = FALSE
  /\ IF ContextEnded THEN result' = "context_error" /\ UNCHANGED goVar
     ELSE IF vm.error # NoError
     THEN result' = (IF hostErr # 0 THEN "host_error" ELSE "runtime_error") /\ UNCHANGED goVar
     ELSE result' = "completed" /\ goVar' = vm.x
  /\ UNCHANGED <<tableVars, hostVars, hostErr, ctx, vm>>

Done == ~busy /\ runs = MaxRuns /\ UNCHANGED vars

Next ==
  \/ \E c \in Capabilities : SetCapabilities(c)
  \/ UseDB
  \/ \E f \in HostFunc : Bind(f)
  \/ \E s \in Script : Compile(s) \/ Analyze(s)
  \/ \E s \in Script, context \in {"background", "live", "done"} :
       Run(s, context) \/ RunScript(s, context)
  \/ Cancel
  \/ ContextDeadline
  \/ ContextTimer
  \/ DurationOver
  \/ StopStep
  \/ Compute
  \/ Increase
  \/ CallUnknown
  \/ \E f \in HostFunc : CallHost(f)
  \/ \E c \in Gated : CallGated(c)
  \/ Suspend
  \/ Return
  \/ Fail
  \/ Finish
  \/ Done

Spec == Init /\ [][Next]_vars

-----------------------------------------------------------------------------
(* Properties.                                                              *)

\* The cached table is never stale: in whatever order the host grants
\* capabilities, supplies a database, binds functions, compiles, analyzes and
\* runs, a script meets exactly the builtins that are permitted now.
TableCurrent ==
  /\ made => builtins = Registered
  /\ busy => made

\* A script fails with an unknown builtin only for want of something that the
\* engine, as the host has left it, does not let it call, however its table and
\* the script came about; and if Run has compiled the source, what is wanting is
\* an operation on files, as everything else was asked for.
UnknownIsForbidden ==
  (busy /\ vm.error = UnknownBuiltin) =>
    /\ ~ (Uses[vm.script] \subseteq Registered)
    /\ vm.compiled => Asked[vm.script] \subseteq Registered

\* What Analyze reports is enough: with it granted, and a database if that is
\* in it, the source compiles, whatever else has changed since.
AnalyzeSuffices ==
  \A r \in reports :
    (r[2] \subseteq caps.granted /\ (Database \in r[2] => hasDB)) => Compiles(r[1])

\* A run that was cut short, by its context, by its time or by its steps, is
\* never reported as completed, and nor is one whose context ended meanwhile.
CompletedRanToEnd ==
  result = "completed" => vm.stopped \in {"returned", "suspended"} /\ ctx # "done"

\* "aborts the run shortly after the context is cancelled": fewer than Cadence
\* more instructions are executed.
CancelIsPrompt == vm.late < Cadence

\* A Go error is reported only of the run in which a bound function returned
\* one.
HostErrorOfThisRun == result = "host_error" => hostErr = runs

\* The bound variable after a run.  With LiveBindings no increase is lost, of
\* the script or of a bound function, whichever came first; without, a completed
\* run leaves the increases of the script and no other; a run that failed leaves
\* those of the bound functions, and with LiveBindings what they have seen.
BindingsKept ==
  [][Finish =>
       IF result' = "completed"
       THEN goVar' = vm.start + vm.own + (IF caps.live THEN vm.hosts ELSE 0)
       ELSE /\ goVar' >= vm.start + vm.hosts
            /\ goVar' <= vm.start + vm.hosts + (IF caps.live THEN vm.own ELSE 0)]_vars
=============================================================================
