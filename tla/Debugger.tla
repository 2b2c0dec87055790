------------------------------ MODULE Debugger ------------------------------
(***************************************************************************)
(* The debug adapter (internal/dap/server.go) on top of the debugger       *)
(* (internal/ir/debugger.go): requests of a client, breakpoints by line,   *)
(* Continue and StepLine over the steps of the virtual machine.            *)
(*                                                                         *)
(* The server reads one request, serves it to its end, then reads the next *)
(* one.  A program is the code of its routines with the line at which each *)
(* statement begins (SourceMap); of an instruction only where control goes *)
(* next matters.  The machine is stepped without the scheduler of Fibers,  *)
(* so a program with fibers cannot be debugged and is left out.            *)
(***************************************************************************)
EXTENDS Integers, Sequences

CONSTANTS
  Routine,      (* the routines of the program                             *)
  Entry,        (* its main routine                                        *)
  Code,         (* the instructions of each routine                        *)
  Lines,        (* its SourceMap: indices of instructions, from 0, to lines*)
  Line,         (* the lines a client asks breakpoints for                 *)
  MaxSteps,     (* vm.MaxSteps: the machine halts after so many steps      *)
  MaxRequests   (* bound: requests in a session                            *)

Instruction == [op : {"plain", "builtin", "halt", "return"}]
          \cup [op : {"jump", "branch"}, to : Nat]
          \cup [op : {"call"}, routine : Routine]

\* Index 0 of a routine is the OPNoop of ir.NewFunction: no statement begins there.
ASSUME DebuggerAssumption ==
  /\ Entry \in Routine
  /\ Code \in [Routine -> Seq(Instruction)]
  /\ \A r \in Routine : DOMAIN Lines[r] \subseteq Nat \ {0}
  /\ \A r \in Routine : \A i \in DOMAIN Lines[r] : Lines[r][i] \in Nat \ {0}
  /\ Line \subseteq Nat
  /\ MaxSteps \in Nat /\ MaxRequests \in Nat

VARIABLES
  launched,     (* s.dbg # nil                                             *)
  breakpoints,  (* d.breakpoints                                           *)
  curLine,      (* d.curLine                                               *)
  stack,        (* vm.CallStack: the routine and the PC of each frame      *)
  halted,       (* vm.Halted                                               *)
  steps,        (* vm.Steps                                                *)
  serving,      (* the request that has the machine run, or "none"         *)
  sent,         (* what the last request was answered with                 *)
  ended,        (* Server.Run has returned                                 *)
  requests,     (* how many requests there have been                       *)
  begun,        (* history: the line of the statement begun last           *)
  stoppedOn     (* history: the line of the last stop, 0 once the machine  *)
                (* begins a statement of another line                      *)

debugVars == <<launched, breakpoints, curLine>>
machineVars == <<stack, halted, steps, begun>>
vars == <<launched, breakpoints, curLine, stack, halted, steps, serving, sent, ended, requests, begun, stoppedOn>>

Frame == [routine : Routine, pc : Nat]
Messages == {"response", "failed", "initialized", "stopped", "terminated"}

TypeOK ==
  /\ launched \in BOOLEAN /\ halted \in BOOLEAN /\ ended \in BOOLEAN
  /\ breakpoints \subseteq Nat
  /\ {curLine, steps, requests, begun, stoppedOn} \subseteq Nat
  /\ stack \in Seq(Frame) /\ (launched => stack # <<>>)
  /\ serving \in {"none", "continue", "step"} /\ (serving # "none" => launched)
  /\ sent \in Seq(Messages)

Top(s) == s[Len(s)]

\* currentLine: of the mapped instructions at or before the PC, the last one.
MappedBefore(f) == {i \in DOMAIN Lines[f.routine] : i < f.pc}
Mapped(f) == {i \in DOMAIN Lines[f.routine] : i <= f.pc}
CurrentLine(s) ==
  LET at == Mapped(Top(s)) IN
  IF at = {} THEN 0 ELSE Lines[Top(s).routine][CHOOSE i \in at : \A j \in at : j <= i]

Init ==
  /\ launched = FALSE /\ breakpoints = {} /\ curLine = 0
  /\ stack = <<>> /\ halted = FALSE /\ steps = 0
  /\ serving = "none" /\ sent = <<>> /\ ended = FALSE /\ requests = 0
  /\ begun = 0 /\ stoppedOn = 0
-----------------------------------------------------------------------------
(* The server: one action per kind of request.                             *)

Receive == /\ serving = "none" /\ ~ended /\ requests < MaxRequests
           /\ requests' = requests + 1

\* initialize, and every request that only reads or that the server ignores.
Initialize == /\ Receive
              /\ sent' = <<"response", "initialized">>
              /\ UNCHANGED <<debugVars, machineVars, serving, ended, stoppedOn>>

Inspect == /\ Receive
           /\ sent' = <<"response">>
           /\ UNCHANGED <<debugVars, machineVars, serving, ended, stoppedOn>>

\* A new machine and a new debugger, without breakpoints; Start runs nothing.
Launch ==
  /\ Receive
  /\ launched' = TRUE /\ breakpoints' = {}
  /\ stack' = <<[routine |-> Entry, pc |-> 0]>> /\ halted' = FALSE /\ steps' = 0
  /\ curLine' = CurrentLine(stack')
  /\ sent' = <<"response">>
  /\ begun' = 0 /\ stoppedOn' = 0
  /\ UNCHANGED <<serving, ended>>

\* The file is not there or does not compile: the last debugger stays.
LaunchFails == /\ Receive
               /\ sent' = <<"failed">>
               /\ UNCHANGED <<debugVars, machineVars, serving, ended, stoppedOn>>

\* Verified in every case, forgotten while there is no debugger.
SetBreakpoints(lines) ==
  /\ Receive
  /\ breakpoints' = IF launched THEN lines ELSE breakpoints
  /\ sent' = <<"response">>
  /\ UNCHANGED <<launched, curLine, machineVars, serving, ended, stoppedOn>>

\* configurationDone and continue; next, stepIn and stepOut: answered, then
\* the machine runs, if there is one.
Resume(how) ==
  /\ Receive
  /\ serving' = IF launched THEN how ELSE "none"
  /\ sent' = <<"response">>
  /\ UNCHANGED <<debugVars, machineVars, ended, stoppedOn>>

\* disconnect, or the end of the input.
Disconnect == /\ Receive
              /\ ended' = TRUE
              /\ sent' = <<"response">>
              /\ UNCHANGED <<debugVars, machineVars, serving, stoppedOn>>
-----------------------------------------------------------------------------
(* One step of the machine: the call stacks it may lead to.                *)

Goto(pc) == [stack EXCEPT ![Len(stack)].pc = pc]
InCode == Top(stack).pc < Len(Code[Top(stack).routine])
Current == Code[Top(stack).routine][Top(stack).pc + 1]
Advanced == Goto(Top(stack).pc + 1)

Nexts ==
  CASE Current.op = "jump" -> {Goto(Current.to)}
    [] Current.op = "branch" -> {Advanced, Goto(Current.to)}
    [] Current.op = "call" -> {Append(Advanced, [routine |-> Current.routine, pc |-> 0])}
    [] Current.op = "return" /\ Len(stack) > 1 -> {SubSeq(stack, 1, Len(stack) - 1)}
    [] OTHER -> {Advanced}

\* The instruction halts the program: halt, a return of the main routine, a
\* builtin that fails.
MayHalt == Current.op \in {"halt", "builtin"} \/ (Current.op = "return" /\ Len(stack) = 1)
MayGoOn == Current.op # "halt" /\ ~(Current.op = "return" /\ Len(stack) = 1)

OutOfSteps == steps >= MaxSteps

StepHalts ==
  /\ OutOfSteps \/ ~InCode \/ MayHalt
  /\ halted' = TRUE
  /\ UNCHANGED stack

StepGoesOn ==
  /\ ~OutOfSteps /\ InCode /\ MayGoOn
  /\ stack' \in Nexts
  /\ UNCHANGED halted

\* The line of the statement that begins with the next instruction.
Begins == Top(stack).pc \in DOMAIN Lines[Top(stack).routine]
BeginningLine == Lines[Top(stack).routine][Top(stack).pc]

Step ==
  /\ StepHalts \/ StepGoesOn
  /\ steps' = steps + 1
  /\ begun' = IF InCode /\ Begins THEN BeginningLine ELSE begun

\* Whether the debugger stops before the instruction it has come to.
EntersLine(line) == line # 0 /\ line # curLine
StopsAt(line) == /\ EntersLine(line)
                 /\ serving = "continue" => line \in breakpoints

Stop(line) == /\ serving' = "none"
              /\ sent' = Append(sent, "stopped")
              /\ stoppedOn' = line

LeavesStop == InCode /\ Begins /\ BeginningLine # stoppedOn

\* One turn of the loop of Continue or StepLine.
RunStep ==
  /\ serving # "none" /\ ~halted
  /\ Step
  /\ LET line == CurrentLine(stack') IN
     /\ curLine' = IF ~halted' /\ EntersLine(line) THEN line ELSE curLine
     /\ IF ~halted' /\ StopsAt(line)
        THEN Stop(line)
        ELSE /\ stoppedOn' = IF LeavesStop THEN 0 ELSE stoppedOn
             /\ UNCHANGED <<serving, sent>>
  /\ UNCHANGED <<launched, breakpoints, ended, requests>>

TerminateUntold == serving # "none" /\ halted /\ serving' = "none"
  /\ UNCHANGED <<debugVars, machineVars, ended, requests, stoppedOn, sent>>
\* The program is over; a request to resume it again is told so again.
Terminate ==
  /\ serving # "none" /\ halted
  /\ serving' = "none"
  /\ sent' = Append(sent, "terminated")
  /\ UNCHANGED <<debugVars, machineVars, ended, requests, stoppedOn>>

Next ==
  \/ Initialize \/ Inspect \/ Launch \/ LaunchFails \/ Disconnect
  \/ \E lines \in SUBSET Line : SetBreakpoints(lines)
  \/ \E how \in {"continue", "step"} : Resume(how)
  \/ RunStep \/ Terminate

Spec == Init /\ [][Next]_vars

\* The loop of Continue or StepLine is not interrupted; the client may stop asking.
FairSpec == Spec /\ WF_vars(RunStep) /\ WF_vars(Terminate)
-----------------------------------------------------------------------------
(* A breakpoint is not run over: a statement of a line with a breakpoint   *)
(* begins only if the last statement begun is of that line too, or if the  *)
(* debugger has stopped on the line since a statement of another one began *)
(* - also when the line is entered by a call, by a return into the middle  *)
(* of a statement or by a jump, and when the breakpoint was set after the  *)
(* line was entered.                                                       *)
BreakpointsStop ==
  [][serving # "none" /\ steps' # steps /\ InCode /\ Begins /\ BeginningLine \in breakpoints
       => BeginningLine \in {begun, stoppedOn}]_vars

(* A request to resume comes nearer to its answer with every step: each is *)
(* an instruction more, of which vm.MaxSteps allows so many for a launch   *)
(* however often the client resumes, or tells that the program is over.    *)
(* And no request to resume is over without an answer.                     *)
ResumeProgresses ==
  [][serving # "none" =>
       /\ \/ steps < steps' /\ steps' <= MaxSteps + 1
          \/ sent' = Append(sent, "terminated")
       /\ serving' = "none" => sent' \in {Append(sent, "stopped"), Append(sent, "terminated")}]_vars

(* Whatever the program does, a request to run it is answered with a stop  *)
(* or with the end of the program: the adapter reads the next request.     *)
ResumeEnds ==
  serving # "none" ~> serving = "none" /\ \E i \in DOMAIN sent : sent[i] \in {"stopped", "terminated"}
=============================================================================
