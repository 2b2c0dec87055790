------------------------------- MODULE Fibers -------------------------------
(***************************************************************************)
(* The cooperative scheduler and the channels of the virtual machine       *)
(* (internal/ir/vm.go: Fiber, Channel, schedule, runCurrent, switchTo,     *)
(* dequeueRunnable, enqueue and the opcodes OPMakeChan, OPSpawn,           *)
(* OPChanSend, OPChanRecv, OPChanClose, OPReturn).                         *)
(*                                                                         *)
(* One fiber runs at a time.  It keeps the machine until it parks on a     *)
(* channel or returns from its root frame; only then does the scheduler    *)
(* take the next fiber off the run queue.  The program is arbitrary: at    *)
(* every step the running fiber may execute any of the opcodes above, at   *)
(* most MaxOps of them, or return.                                         *)
(***************************************************************************)
EXTENDS Integers, Sequences, FiniteSets

CONSTANTS
  Fiber,     (* identities of fibers, the main fiber included              *)
  Main,      (* fiber 0, the one that runs the program body                *)
  Chan,      (* channels the program has made                              *)
  AskedCap,  (* the argument of MakeChan(n) for each channel               *)
  Val,       (* values a program sends                                     *)
  Nil,       (* what a receive on a closed, drained channel yields         *)
  MaxOps     (* bound: opcodes a fiber executes before it must return      *)

ASSUME FibersAssumption ==
  /\ Main \in Fiber
  /\ AskedCap \in [Chan -> Int]
  /\ Nil \notin Val
  /\ MaxOps \in Nat

VARIABLES
  status,   (* Fiber.status, and "unborn" before OPSpawn creates the fiber *)
  cur,      (* vm.cur                                                      *)
  runq,     (* vm.runq                                                     *)
  buf,      (* Channel.buf                                                 *)
  sendq,    (* Channel.sendq: fibers parked with the value they carry      *)
  recvq,    (* Channel.recvq: fibers parked for a value                    *)
  closed,   (* Channel.closed                                              *)
  got,      (* the value last put on a fiber's stack by a receive          *)
  halted,   (* vm.Halted                                                   *)
  error,    (* vm.RuntimeError                                             *)
  ops       (* opcodes each fiber has executed                             *)

chanVars == <<buf, sendq, recvq, closed>>
schedVars == <<status, cur, runq>>
vars == <<status, cur, runq, buf, sendq, recvq, closed, got, halted, error, ops>>

Status == {"unborn", "runnable", "blocked", "done"}

Parked == [fiber : Fiber, val : Val]

\* OPMakeChan: a negative size makes an unbuffered channel.
Capacity(c) == IF AskedCap[c] < 0 THEN 0 ELSE AskedCap[c]

SeqRange(s) == {s[i] : i \in 1 .. Len(s)}

\* The runtime errors these opcodes and the scheduler can end a run with.
NoError == 0
StepLimit == 200
StackOverflow == 202
OutputLimit == 203
NilDereference == 204
UnhandledException == 217
DeadlockError == 218
SendOnClosed == 219

\* How a step of any fiber can end the run: its limits, a channel variable that
\* was never assigned, an exception nobody catches, or, without an error, the
\* host's cancellation.
Endings == {NoError, StepLimit, StackOverflow, OutputLimit, NilDereference,
            UnhandledException}

TypeOK ==
  /\ status \in [Fiber -> Status]
  /\ cur \in Fiber
  /\ runq \in Seq(Fiber)
  /\ buf \in [Chan -> Seq(Val)]
  /\ sendq \in [Chan -> Seq(Parked)]
  /\ recvq \in [Chan -> Seq(Fiber)]
  /\ closed \in [Chan -> BOOLEAN]
  /\ got \in [Fiber -> Val \cup {Nil}]
  /\ halted \in BOOLEAN
  /\ error \in Endings \cup {DeadlockError, SendOnClosed}
  /\ ops \in [Fiber -> 0 .. MaxOps]

Init ==
  /\ status = [f \in Fiber |-> IF f = Main THEN "runnable" ELSE "unborn"]
  /\ cur = Main
  /\ runq = <<>>
  /\ buf = [c \in Chan |-> <<>>]
  /\ sendq = [c \in Chan |-> <<>>]
  /\ recvq = [c \in Chan |-> <<>>]
  /\ closed = [c \in Chan |-> FALSE]
  /\ got = [f \in Fiber |-> Nil]
  /\ halted = FALSE
  /\ error = NoError
  /\ ops = [f \in Fiber |-> 0]

-----------------------------------------------------------------------------
(* Opcodes of the running fiber.                                            *)

Running == ~halted /\ status[cur] = "runnable"

\* The fiber executes one more opcode.
Execute ==
  /\ Running
  /\ ops[cur] < MaxOps
  /\ ops' = [ops EXCEPT ![cur] = @ + 1]

Halt(code) == halted' = TRUE /\ error' = code

\* Mutant: enqueue forgets the run queue.
WakeStatusOnly(f) ==
  /\ status' = [status EXCEPT ![f] = "runnable"]
  /\ UNCHANGED runq

\* enqueue(f): runnable again, at the back of the run queue.
Wake(f) ==
  /\ status' = [status EXCEPT ![f] = "runnable"]
  /\ runq' = Append(runq, f)

Spawn(f) ==
  /\ Execute
  /\ status[f] = "unborn"
  /\ Wake(f)
  /\ UNCHANGED <<cur, chanVars, got, halted, error>>

SendClosed(c) ==
  /\ Execute
  /\ closed[c]
  /\ Halt(SendOnClosed)
  /\ UNCHANGED <<schedVars, chanVars, got>>

\* A waiting receiver gets the value on its own stack and becomes runnable.
SendToReceiver(c, v) ==
  /\ Execute
  /\ ~closed[c]
  /\ recvq[c] # <<>>
  /\ recvq' = [recvq EXCEPT ![c] = Tail(@)]
  /\ got' = [got EXCEPT ![Head(recvq[c])] = v]
  /\ Wake(Head(recvq[c]))
  /\ UNCHANGED <<cur, buf, sendq, closed, halted, error>>

SendToBuffer(c, v) ==
  /\ Execute
  /\ ~closed[c]
  /\ recvq[c] = <<>>
  /\ Len(buf[c]) < Capacity(c)
  /\ buf' = [buf EXCEPT ![c] = Append(@, v)]
  /\ UNCHANGED <<schedVars, sendq, recvq, closed, got, halted, error>>

SendPark(c, v) ==
  /\ Execute
  /\ ~closed[c]
  /\ recvq[c] = <<>>
  /\ Len(buf[c]) >= Capacity(c)
  /\ sendq' = [sendq EXCEPT ![c] = Append(@, [fiber |-> cur, val |-> v])]
  /\ status' = [status EXCEPT ![cur] = "blocked"]
  /\ UNCHANGED <<cur, runq, buf, recvq, closed, got, halted, error>>

\* Mutants: the whole parkedSend, the youngest sender's value.
ParkedEntry(c) == Head(sendq[c])
NewestParkedValue(c) == sendq[c][Len(sendq[c])].val

\* The value carried by the sender that has waited longest.
ParkedValue(c) == Head(sendq[c]).val

\* The buffer's head is received; a parked sender moves into the freed slot.
RecvFromBuffer(c) ==
  /\ Execute
  /\ buf[c] # <<>>
  /\ got' = [got EXCEPT ![cur] = Head(buf[c])]
  /\ IF sendq[c] # <<>>
     THEN /\ buf' = [buf EXCEPT ![c] = Append(Tail(@), ParkedValue(c))]
          /\ sendq' = [sendq EXCEPT ![c] = Tail(@)]
          /\ Wake(Head(sendq[c]).fiber)
     ELSE /\ buf' = [buf EXCEPT ![c] = Tail(@)]
          /\ UNCHANGED <<sendq, status, runq>>
  /\ UNCHANGED <<cur, recvq, closed, halted, error>>

RecvFromSender(c) ==
  /\ Execute
  /\ buf[c] = <<>>
  /\ sendq[c] # <<>>
  /\ got' = [got EXCEPT ![cur] = ParkedValue(c)]
  /\ sendq' = [sendq EXCEPT ![c] = Tail(@)]
  /\ Wake(Head(sendq[c]).fiber)
  /\ UNCHANGED <<cur, buf, recvq, closed, halted, error>>

RecvClosed(c) ==
  /\ Execute
  /\ buf[c] = <<>>
  /\ sendq[c] = <<>>
  /\ closed[c]
  /\ got' = [got EXCEPT ![cur] = Nil]
  /\ UNCHANGED <<schedVars, chanVars, halted, error>>

RecvPark(c) ==
  /\ Execute
  /\ buf[c] = <<>>
  /\ sendq[c] = <<>>
  /\ ~closed[c]
  /\ recvq' = [recvq EXCEPT ![c] = Append(@, cur)]
  /\ status' = [status EXCEPT ![cur] = "blocked"]
  /\ UNCHANGED <<cur, runq, buf, sendq, closed, got, halted, error>>

\* Mutant: Close does not look at the waiting receivers.
CloseQuietly(c) ==
  /\ Execute
  /\ closed' = [closed EXCEPT ![c] = TRUE]
  /\ UNCHANGED <<schedVars, buf, sendq, recvq, got, halted, error>>

\* Every waiting receiver is woken with nil, in queue order.  Senders that
\* are parked stay parked, and a second Close does nothing more.
Close(c) ==
  /\ Execute
  /\ closed' = [closed EXCEPT ![c] = TRUE]
  /\ got' = [f \in Fiber |-> IF f \in SeqRange(recvq[c]) THEN Nil ELSE got[f]]
  /\ status' = [f \in Fiber |->
                  IF f \in SeqRange(recvq[c]) THEN "runnable" ELSE status[f]]
  /\ runq' = runq \o recvq[c]
  /\ recvq' = [recvq EXCEPT ![c] = <<>>]
  /\ UNCHANGED <<cur, buf, sendq, halted, error>>

\* Whichever fiber runs, the whole program ends.
Fail(code) ==
  /\ Execute
  /\ Halt(code)
  /\ UNCHANGED <<schedVars, chanVars, got>>

\* OPReturn in a root frame: the main fiber ends the program, another fiber
\* only itself.
MainReturn ==
  /\ Running
  /\ cur = Main
  /\ Halt(NoError)
  /\ UNCHANGED <<schedVars, chanVars, got, ops>>

FiberReturn ==
  /\ Running
  /\ cur # Main
  /\ status' = [status EXCEPT ![cur] = "done"]
  /\ UNCHANGED <<cur, runq, chanVars, got, halted, error, ops>>

-----------------------------------------------------------------------------
(* The scheduler, once the running fiber has parked or finished.            *)

\* The positions of the run queue that dequeueRunnable does not skip.
Runnable == {i \in 1 .. Len(runq) : status[runq[i]] = "runnable"}

SwitchTo ==
  /\ ~halted
  /\ status[cur] # "runnable"
  /\ \E i \in Runnable :
       /\ \A j \in Runnable : i <= j
       /\ cur' = runq[i]
       /\ runq' = SubSeq(runq, i + 1, Len(runq))
  /\ UNCHANGED <<status, chanVars, got, halted, error, ops>>

\* Mutant: the scheduler waits for a fiber that nobody will wake.
WaitForever ==
  /\ ~halted
  /\ status[cur] # "runnable"
  /\ Runnable = {}
  /\ UNCHANGED vars

NothingToRun ==
  /\ ~halted
  /\ status[cur] # "runnable"
  /\ Runnable = {}
  /\ runq' = <<>>
  /\ Halt(IF \E f \in Fiber : status[f] = "blocked" THEN DeadlockError ELSE NoError)
  /\ UNCHANGED <<status, cur, chanVars, got, ops>>

-----------------------------------------------------------------------------
Send(c) ==
  \/ SendClosed(c)
  \/ \E v \in Val : SendToReceiver(c, v) \/ SendToBuffer(c, v) \/ SendPark(c, v)

Recv(c) == RecvFromBuffer(c) \/ RecvFromSender(c) \/ RecvClosed(c) \/ RecvPark(c)

FiberStep ==
  \/ \E f \in Fiber : Spawn(f)
  \/ \E c \in Chan : Send(c) \/ Recv(c) \/ Close(c)
  \/ \E code \in Endings : Fail(code)
  \/ MainReturn
  \/ FiberReturn

Schedule == SwitchTo \/ NothingToRun

\* After vm.Halted nothing changes any more.
Ended == halted /\ UNCHANGED vars

Next == FiberStep \/ Schedule \/ Ended

Spec == Init /\ [][Next]_vars

\* The interpreter loop never stops by itself: runCurrent and schedule step on
\* until vm.Halted.
FairSpec == Spec /\ WF_vars(Next)

-----------------------------------------------------------------------------
(* Properties.                                                              *)

\* The fibers parked on a channel.
SendersOn(c) == {sendq[c][i].fiber : i \in 1 .. Len(sendq[c])}
ReceiversOn(c) == SeqRange(recvq[c])

NoRepeats(s) == \A i, j \in 1 .. Len(s) : s[i] = s[j] => i = j

\* The run queue holds, once each, exactly the fibers that can run and are not
\* running (enqueue and OPSpawn put them there, dequeueRunnable takes them).
RunQueueExact ==
  /\ NoRepeats(runq)
  /\ \A f \in Fiber : f \in SeqRange(runq) <=> (status[f] = "runnable" /\ f # cur)

\* A fiber is parked in at most one place.
ParkedOnce ==
  \A c, d \in Chan :
    /\ \A i \in 1 .. Len(sendq[c]), j \in 1 .. Len(sendq[d]) :
         sendq[c][i].fiber = sendq[d][j].fiber => c = d /\ i = j
    /\ \A i \in 1 .. Len(recvq[c]), j \in 1 .. Len(recvq[d]) :
         recvq[c][i] = recvq[d][j] => c = d /\ i = j
    /\ SendersOn(c) \cap ReceiversOn(d) = {}

\* Every fiber is in one place: the machine, the run queue, or one wait queue
\* of one channel.  A fiber in no place would be lost for good; one in two
\* places would be resumed twice, the second time with a stack it has left.
OnePlace ==
  /\ RunQueueExact
  /\ ParkedOnce
  /\ \A f \in Fiber :
       status[f] = "blocked" <=> \E c \in Chan : f \in SendersOn(c) \cup ReceiversOn(c)

\* No lost wake-up in OPChanSend, OPChanRecv and OPChanClose: no fiber waits to
\* receive while the channel has a value or is closed, and none waits to send
\* while the buffer has room.
NoLostWakeup ==
  \A c \in Chan :
    /\ recvq[c] # <<>> => buf[c] = <<>> /\ sendq[c] = <<>> /\ ~closed[c]
    /\ sendq[c] # <<>> => Len(buf[c]) = Capacity(c)
    /\ Len(buf[c]) <= Capacity(c)

\* schedule reports a deadlock (218) only when it is one: some fiber is parked,
\* none can run, and no parked fiber's channel could serve it.
DeadlockIsReal ==
  error = DeadlockError =>
    /\ \E f \in Fiber : status[f] = "blocked"
    /\ \A f \in Fiber : status[f] # "runnable"
    /\ \A c \in Chan : SendersOn(c) # {} => ReceiversOn(c) = {}

\* On an unbuffered channel Send waits for a Receive: a parked sender goes on
\* only in a step in which the running fiber takes its value.
Rendezvous ==
  [][\A c \in Chan, f \in Fiber :
       (Capacity(c) = 0 /\ f \in SendersOn(c) /\ f \notin SendersOn(c)') =>
         \E i \in 1 .. Len(sendq[c]) :
           sendq[c][i].fiber = f /\ got'[cur] = sendq[c][i].val]_vars

\* The run queue is first in, first out: a fiber in it moves up by one place each
\* time the machine goes to another fiber, and only then, until it gets the
\* machine itself.  Nobody overtakes it and nobody drops it, however often
\* others are woken, so that no fiber that can run waits for ever.
TakesTurns ==
  [][~halted' => \A i \in 1 .. Len(runq) :
       \/ cur' = cur /\ i <= Len(runq') /\ runq'[i] = runq[i]
       \/ cur' # cur /\ i = 1 /\ cur' = runq[1]
       \/ cur' # cur /\ i > 1 /\ i - 1 <= Len(runq') /\ runq'[i - 1] = runq[i]]_vars

\* The buffer and the parked senders of a channel form the one line of values
\* of ChannelSpec: nothing is lost, doubled or overtaken on the way through
\* the buffer, the send queue and the direct hand-over to a receiver.
Line == [c \in Chan |-> buf[c] \o [i \in 1 .. Len(sendq[c]) |-> sendq[c][i].val]]

Abstract == INSTANCE ChannelSpec WITH line <- Line, shut <- closed

KeepsChannelPromise == Abstract!Spec

\* A program whose fibers execute finitely many opcodes ends: the main fiber
\* returns, a run-time error stops it, or the scheduler finds the deadlock.
\* It never hangs with every fiber waiting (concurrency.md, Deadlock).
ProgramEnds == <>halted
=============================================================================
