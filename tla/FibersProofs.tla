---------------------------- MODULE FibersProofs ----------------------------
(* Proofs about the scheduler and the channels, for any number of fibers,    *)
(* channels, values, capacities and steps.                                   *)
EXTENDS Fibers, SequenceTheorems, TLAPS

LEMMA CapacityNat == \A c \in Chan : Capacity(c) \in Nat
  BY FibersAssumption DEF Capacity

-----------------------------------------------------------------------------
(* Type correctness.                                                         *)

LEMMA WakeTypes ==
  ASSUME TypeOK, NEW f \in Fiber, Wake(f)
  PROVE  status' \in [Fiber -> Status] /\ runq' \in Seq(Fiber)
  BY DEF TypeOK, Wake, Status

LEMMA InitTypeOK == Init => TypeOK
<1> SUFFICES ASSUME Init PROVE TypeOK
  OBVIOUS
<1>1. status \in [Fiber -> Status] /\ ops \in [Fiber -> 0 .. MaxOps]
  BY FibersAssumption DEF Init, Status
<1>2. buf \in [Chan -> Seq(Val)] /\ recvq \in [Chan -> Seq(Fiber)]
  BY DEF Init
<1>3. sendq \in [Chan -> Seq(Parked)]
  BY DEF Init
<1>4. closed \in [Chan -> BOOLEAN] /\ got \in [Fiber -> Val \cup {Nil}]
  BY DEF Init
<1>5. runq \in Seq(Fiber) /\ cur \in Fiber
  BY FibersAssumption DEF Init
<1>6. halted \in BOOLEAN /\ error = NoError
  BY DEF Init
<1>7. QED
  BY <1>1, <1>2, <1>3, <1>4, <1>5, <1>6 DEF TypeOK, Endings

LEMMA NextTypeOK == TypeOK /\ [Next]_vars => TypeOK'
<1> SUFFICES ASSUME TypeOK, [Next]_vars PROVE TypeOK'
  OBVIOUS
<1> USE FibersAssumption DEF TypeOK, Execute, Running, Halt
<1>1. ASSUME NEW f \in Fiber, Spawn(f) PROVE TypeOK'
  BY <1>1, WakeTypes DEF Spawn, chanVars
<1>2. ASSUME NEW c \in Chan, SendClosed(c) PROVE TypeOK'
  BY <1>2 DEF SendClosed, chanVars, schedVars, SendOnClosed
<1>3. ASSUME NEW c \in Chan, NEW v \in Val, SendToReceiver(c, v) PROVE TypeOK'
  <2>1. Head(recvq[c]) \in Fiber /\ Tail(recvq[c]) \in Seq(Fiber)
    BY <1>3 DEF SendToReceiver
  <2>2. status' \in [Fiber -> Status] /\ runq' \in Seq(Fiber)
    BY <1>3, <2>1, WakeTypes DEF SendToReceiver
  <2>3. recvq' \in [Chan -> Seq(Fiber)] /\ got' \in [Fiber -> Val \cup {Nil}]
    BY <1>3, <2>1 DEF SendToReceiver
  <2>4. UNCHANGED <<cur, buf, sendq, closed, halted, error>>
    BY <1>3 DEF SendToReceiver
  <2>5. ops' \in [Fiber -> 0 .. MaxOps]
    BY <1>3 DEF SendToReceiver
  <2>6. QED
    BY <2>2, <2>3, <2>4, <2>5
<1>4. ASSUME NEW c \in Chan, NEW v \in Val, SendToBuffer(c, v) PROVE TypeOK'
  BY <1>4 DEF SendToBuffer, schedVars
<1>5. ASSUME NEW c \in Chan, NEW v \in Val, SendPark(c, v) PROVE TypeOK'
  <2>1. [fiber |-> cur, val |-> v] \in Parked
    BY DEF Parked
  <2>2. sendq' \in [Chan -> Seq(Parked)]
    BY <1>5, <2>1 DEF SendPark
  <2>3. QED
    BY <1>5, <2>2 DEF SendPark, Status
<1>6. ASSUME NEW c \in Chan, RecvFromBuffer(c) PROVE TypeOK'
  <2>1. Head(buf[c]) \in Val /\ Tail(buf[c]) \in Seq(Val)
    BY <1>6 DEF RecvFromBuffer, ParkedValue
  <2>2. CASE sendq[c] # <<>>
    <3>1. Head(sendq[c]) \in Parked /\ Tail(sendq[c]) \in Seq(Parked)
      BY <2>2
    <3>2. Head(sendq[c]).fiber \in Fiber /\ Head(sendq[c]).val \in Val
      BY <3>1 DEF Parked
    <3>3. status' \in [Fiber -> Status] /\ runq' \in Seq(Fiber)
      BY <1>6, <2>2, <3>2, WakeTypes DEF RecvFromBuffer, ParkedValue
    <3>4. buf' \in [Chan -> Seq(Val)]
      <4>1. Append(Tail(buf[c]), Head(sendq[c]).val) \in Seq(Val)
        BY <2>1, <3>2
      <4>2. buf' = [buf EXCEPT ![c] = Append(Tail(buf[c]), Head(sendq[c]).val)]
        BY <1>6, <2>2 DEF RecvFromBuffer, ParkedValue
      <4>3. QED
        BY <4>1, <4>2
    <3>5. sendq' \in [Chan -> Seq(Parked)]
      BY <1>6, <2>2, <3>1 DEF RecvFromBuffer, ParkedValue
    <3>6. got' \in [Fiber -> Val \cup {Nil}]
      BY <1>6, <2>1 DEF RecvFromBuffer, ParkedValue
    <3>7. UNCHANGED <<cur, recvq, closed, halted, error>> /\ ops' \in [Fiber -> 0 .. MaxOps]
      BY <1>6 DEF RecvFromBuffer
    <3>8. QED
      BY <3>3, <3>4, <3>5, <3>6, <3>7
  <2>3. CASE sendq[c] = <<>>
    <3>1. buf' \in [Chan -> Seq(Val)] /\ got' \in [Fiber -> Val \cup {Nil}]
      BY <1>6, <2>1, <2>3 DEF RecvFromBuffer, ParkedValue
    <3>2. UNCHANGED <<status, cur, runq, sendq, recvq, closed, halted, error>>
      BY <1>6, <2>3 DEF RecvFromBuffer, ParkedValue
    <3>3. ops' \in [Fiber -> 0 .. MaxOps]
      BY <1>6 DEF RecvFromBuffer
    <3>4. QED
      BY <3>1, <3>2, <3>3
  <2>4. QED
    BY <2>2, <2>3
<1>7. ASSUME NEW c \in Chan, RecvFromSender(c) PROVE TypeOK'
  <2>1. Head(sendq[c]) \in Parked /\ Tail(sendq[c]) \in Seq(Parked)
    BY <1>7 DEF RecvFromSender, ParkedValue
  <2>2. Head(sendq[c]).fiber \in Fiber /\ Head(sendq[c]).val \in Val
    BY <2>1 DEF Parked
  <2>3. status' \in [Fiber -> Status] /\ runq' \in Seq(Fiber)
    BY <1>7, <2>2, WakeTypes DEF RecvFromSender, ParkedValue
  <2>4. sendq' \in [Chan -> Seq(Parked)]
    BY <1>7, <2>1 DEF RecvFromSender, ParkedValue
  <2>5. got' \in [Fiber -> Val \cup {Nil}]
    BY <1>7, <2>2 DEF RecvFromSender, ParkedValue
  <2>6. UNCHANGED <<cur, buf, recvq, closed, halted, error>> /\ ops' \in [Fiber -> 0 .. MaxOps]
    BY <1>7 DEF RecvFromSender
  <2>7. QED
    BY <2>3, <2>4, <2>5, <2>6
<1>8. ASSUME NEW c \in Chan, RecvClosed(c) PROVE TypeOK'
  BY <1>8 DEF RecvClosed, schedVars, chanVars
<1>9. ASSUME NEW c \in Chan, RecvPark(c) PROVE TypeOK'
  BY <1>9 DEF RecvPark, Status
<1>10. ASSUME NEW c \in Chan, Close(c) PROVE TypeOK'
  <2>1. runq' \in Seq(Fiber) /\ recvq' \in [Chan -> Seq(Fiber)]
    BY <1>10, ConcatProperties DEF Close
  <2>2. status' \in [Fiber -> Status] /\ got' \in [Fiber -> Val \cup {Nil}]
    BY <1>10 DEF Close, Status
  <2>3. QED
    BY <1>10, <2>1, <2>2 DEF Close
<1>11. ASSUME NEW code \in Endings, Fail(code)
       PROVE  TypeOK'
  BY <1>11 DEF Fail, schedVars, chanVars
<1>12. CASE MainReturn
  BY <1>12 DEF Endings, MainReturn, schedVars, chanVars
<1>13. CASE FiberReturn
  BY <1>13 DEF FiberReturn, chanVars, Status
<1>14. CASE SwitchTo
  <2>1. PICK i \in 1 .. Len(runq) :
           cur' = runq[i] /\ runq' = SubSeq(runq, i + 1, Len(runq))
    BY <1>14 DEF SwitchTo, Runnable
  <2>2. \A j \in i + 1 .. Len(runq) : runq[j] \in Fiber
    BY <2>1
  <2>3. cur' \in Fiber /\ runq' \in Seq(Fiber)
    BY <2>1, <2>2, SubSeqProperties
  <2>4. QED
    BY <1>14, <2>3 DEF SwitchTo, chanVars
<1>15. CASE NothingToRun
  BY <1>15 DEF Endings, NothingToRun, chanVars
<1>16. CASE Ended \/ UNCHANGED vars
  BY <1>16 DEF Ended, vars
<1>17. QED
  BY <1>1, <1>2, <1>3, <1>4, <1>5, <1>6, <1>7, <1>8, <1>9, <1>10, <1>11,
     <1>12, <1>13, <1>14, <1>15, <1>16
     DEF Next, FiberStep, Send, Recv, Schedule

\* Every reachable state of the scheduler and the channels has its type: the
\* run queue holds fibers, a wait queue holds fibers or fibers with a value,
\* and the run ends with one of the machine's run-time errors or with none.
THEOREM TypeCorrect == Spec => []TypeOK
  BY InitTypeOK, NextTypeOK, PTL DEF Spec

-----------------------------------------------------------------------------
(* No lost wake-up: inductive by itself, once types are known.               *)

LEMMA InitNoLostWakeup == Init => NoLostWakeup
  BY CapacityNat DEF Init, NoLostWakeup

LEMMA NextNoLostWakeup == TypeOK /\ NoLostWakeup /\ [Next]_vars => NoLostWakeup'
<1> SUFFICES ASSUME TypeOK, NoLostWakeup, [Next]_vars PROVE NoLostWakeup'
  OBVIOUS
<1> USE CapacityNat DEF TypeOK, NoLostWakeup
\* Capacity is a constant operator, its prime is itself.
<1>1. ASSUME UNCHANGED chanVars PROVE NoLostWakeup'
  BY <1>1 DEF chanVars, Capacity
<1>2. ASSUME NEW c \in Chan, NEW v \in Val, SendToReceiver(c, v)
      PROVE  NoLostWakeup'
  BY <1>2 DEF SendToReceiver, Capacity
<1>3. ASSUME NEW c \in Chan, NEW v \in Val, SendToBuffer(c, v)
      PROVE  NoLostWakeup'
  <2>1. sendq[c] = <<>> /\ recvq[c] = <<>> /\ Len(buf'[c]) = Len(buf[c]) + 1
    BY <1>3 DEF SendToBuffer
  <2>2. Len(buf'[c]) <= Capacity(c)
    BY <1>3, <2>1 DEF SendToBuffer
  <2>3. ASSUME NEW d \in Chan, d # c PROVE buf'[d] = buf[d]
    BY <1>3, <2>3 DEF SendToBuffer
  <2>4. QED
    BY <1>3, <2>1, <2>2, <2>3 DEF SendToBuffer, Capacity
<1>4. ASSUME NEW c \in Chan, NEW v \in Val, SendPark(c, v)
      PROVE  NoLostWakeup'
  <2>1. Len(buf[c]) = Capacity(c) /\ recvq[c] = <<>>
    BY <1>4 DEF SendPark
  <2>2. ASSUME NEW d \in Chan, d # c PROVE sendq'[d] = sendq[d]
    BY <1>4, <2>2 DEF SendPark
  <2>3. QED
    BY <1>4, <2>1, <2>2 DEF SendPark, Capacity
<1>5. ASSUME NEW c \in Chan, RecvFromBuffer(c) PROVE NoLostWakeup'
  <2>1. recvq'[c] = <<>>
    BY <1>5 DEF RecvFromBuffer, ParkedValue
  <2>2. ASSUME NEW d \in Chan, d # c
        PROVE  buf'[d] = buf[d] /\ sendq'[d] = sendq[d] /\ recvq'[d] = recvq[d]
    BY <1>5, <2>2 DEF RecvFromBuffer, ParkedValue
  <2>3. CASE sendq[c] # <<>>
    <3>1. Head(sendq[c]) \in Parked
      BY <2>3
    <3>2. Len(Append(Tail(buf[c]), Head(sendq[c]).val)) = Len(buf[c])
      BY <1>5, <3>1 DEF RecvFromBuffer, ParkedValue, Parked
    <3>3. buf'[c] = Append(Tail(buf[c]), Head(sendq[c]).val)
      BY <1>5, <2>3 DEF RecvFromBuffer, ParkedValue
    <3>4. Len(buf'[c]) = Capacity(c)
      BY <2>3, <3>2, <3>3
    <3>5. closed' = closed
      BY <1>5 DEF RecvFromBuffer, ParkedValue
    <3>6. ASSUME NEW d \in Chan
          PROVE  /\ recvq'[d] # <<>> => buf'[d] = <<>> /\ sendq'[d] = <<>> /\ ~closed'[d]
                 /\ sendq'[d] # <<>> => Len(buf'[d]) = Capacity(d)
                 /\ Len(buf'[d]) <= Capacity(d)
      <4>1. CASE d = c
        BY <2>1, <3>4, <4>1, CapacityNat
      <4>2. CASE d # c
        BY <2>2, <3>5, <4>2
      <4>3. QED
        BY <4>1, <4>2
    <3>7. QED
      BY <3>6 DEF Capacity
  <2>4. CASE sendq[c] = <<>>
    <3>1. Len(buf'[c]) = Len(buf[c]) - 1 /\ sendq'[c] = <<>>
      BY <1>5, <2>4 DEF RecvFromBuffer, ParkedValue
    <3>2. closed' = closed /\ Len(buf[c]) \in Nat
      BY <1>5 DEF RecvFromBuffer, TypeOK
    <3>3. ASSUME NEW d \in Chan
          PROVE  /\ recvq'[d] # <<>> => buf'[d] = <<>> /\ sendq'[d] = <<>> /\ ~closed'[d]
                 /\ sendq'[d] # <<>> => Len(buf'[d]) = Capacity(d)
                 /\ Len(buf'[d]) <= Capacity(d)
      <4>1. CASE d = c
        BY <2>1, <3>1, <3>2, <4>1, CapacityNat
      <4>2. CASE d # c
        BY <2>2, <3>2, <4>2
      <4>3. QED
        BY <4>1, <4>2
    <3>4. QED
      BY <3>3 DEF Capacity
  <2>5. QED
    BY <2>3, <2>4
<1>6. ASSUME NEW c \in Chan, RecvFromSender(c) PROVE NoLostWakeup'
  BY <1>6 DEF RecvFromSender, ParkedValue, Capacity
<1>7. ASSUME NEW c \in Chan, RecvPark(c) PROVE NoLostWakeup'
  BY <1>7 DEF RecvPark, Capacity
<1>8. ASSUME NEW c \in Chan, Close(c) PROVE NoLostWakeup'
  BY <1>8 DEF Close, Capacity
<1>9. ASSUME NEW f \in Fiber, Spawn(f) PROVE NoLostWakeup'
  BY <1>1, <1>9 DEF Spawn
<1>10. ASSUME NEW c \in Chan, SendClosed(c) \/ RecvClosed(c)
       PROVE  NoLostWakeup'
  BY <1>1, <1>10 DEF SendClosed, RecvClosed
<1>11. ASSUME NEW code \in Endings, Fail(code)
       PROVE  NoLostWakeup'
  BY <1>1, <1>11 DEF Fail
<1>12. CASE MainReturn \/ FiberReturn \/ Schedule \/ Ended \/ UNCHANGED vars
  <2>1. UNCHANGED chanVars
    BY <1>12 DEF MainReturn, FiberReturn, Schedule, SwitchTo, NothingToRun,
                 Ended, vars, chanVars
  <2>2. QED
    BY <1>1, <2>1
<1>13. QED
  BY <1>2, <1>3, <1>4, <1>5, <1>6, <1>7, <1>8, <1>9, <1>10, <1>11, <1>12
     DEF Next, FiberStep, Send, Recv

\* On no channel does a fiber wait for what is there already: a parked
\* receiver while a value or the close could be received, a parked sender
\* while the buffer has room.
THEOREM NoWakeupIsLost == Spec => []NoLostWakeup
  BY InitNoLostWakeup, NextNoLostWakeup, TypeCorrect, PTL DEF Spec

-----------------------------------------------------------------------------
(* The deadlock verdict.  What makes it sound is that no runnable fiber is   *)
(* missing from the run queue; this is the half of RunQueueExact that        *)
(* NothingToRun relies on, and it is inductive by itself.                    *)

RunnableQueued ==
  \A f \in Fiber : status[f] = "runnable" /\ f # cur => f \in SeqRange(runq)

VerdictFinal ==
  error = DeadlockError =>
    /\ halted
    /\ \E f \in Fiber : status[f] = "blocked"
    /\ \A f \in Fiber : status[f] # "runnable"

LEMMA AppendRange ==
  ASSUME NEW S, NEW s \in Seq(S), NEW x \in S
  PROVE  SeqRange(Append(s, x)) = SeqRange(s) \cup {x}
<1>1. /\ Len(Append(s, x)) = Len(s) + 1
      /\ \A i \in 1 .. Len(s) : Append(s, x)[i] = s[i]
      /\ Append(s, x)[Len(s) + 1] = x
  BY AppendProperties
<1>2. Len(s) \in Nat
  OBVIOUS
<1>3. ASSUME NEW y \in SeqRange(Append(s, x)) PROVE y \in SeqRange(s) \cup {x}
  BY <1>1, <1>2 DEF SeqRange
<1>4. ASSUME NEW y \in SeqRange(s) PROVE y \in SeqRange(Append(s, x))
  BY <1>1, <1>2 DEF SeqRange
<1>5. x \in SeqRange(Append(s, x))
  BY <1>1, <1>2 DEF SeqRange
<1>6. QED
  BY <1>3, <1>4, <1>5

LEMMA ConcatRange ==
  ASSUME NEW S, NEW s \in Seq(S), NEW t \in Seq(S)
  PROVE  SeqRange(s \o t) = SeqRange(s) \cup SeqRange(t)
<1>1. /\ Len(s \o t) = Len(s) + Len(t)
      /\ \A i \in 1 .. Len(s) + Len(t) :
           (s \o t)[i] = IF i <= Len(s) THEN s[i] ELSE t[i - Len(s)]
  BY ConcatProperties
<1>2. Len(s) \in Nat /\ Len(t) \in Nat
  OBVIOUS
<1>3. ASSUME NEW i \in 1 .. Len(s) PROVE s[i] \in SeqRange(s \o t)
  <2>1. i \in 1 .. Len(s \o t) /\ (s \o t)[i] = s[i]
    BY <1>1, <1>2
  <2>2. QED
    BY <2>1 DEF SeqRange
<1>4. ASSUME NEW i \in 1 .. Len(t) PROVE t[i] \in SeqRange(s \o t)
  <2>1. Len(s) + i \in 1 .. Len(s \o t) /\ (s \o t)[Len(s) + i] = t[i]
    BY <1>1, <1>2
  <2>2. QED
    BY <2>1 DEF SeqRange
<1>5. ASSUME NEW i \in 1 .. Len(s \o t) PROVE (s \o t)[i] \in SeqRange(s) \cup SeqRange(t)
  <2>1. CASE i <= Len(s)
    BY <1>1, <1>2, <2>1 DEF SeqRange
  <2>2. CASE i > Len(s)
    <3>1. i - Len(s) \in 1 .. Len(t) /\ (s \o t)[i] = t[i - Len(s)]
      BY <1>1, <1>2, <2>2
    <3>2. QED
      BY <3>1 DEF SeqRange
  <2>3. QED
    BY <1>1, <1>2, <2>1, <2>2
<1>6. SeqRange(s) \cup SeqRange(t) \subseteq SeqRange(s \o t)
  BY <1>3, <1>4 DEF SeqRange
<1>7. SeqRange(s \o t) \subseteq SeqRange(s) \cup SeqRange(t)
  BY <1>5 DEF SeqRange
<1>8. QED
  BY <1>6, <1>7

LEMMA WakeQueues ==
  ASSUME TypeOK, RunnableQueued, NEW f \in Fiber, Wake(f), cur' = cur
  PROVE  RunnableQueued'
<1>1. SeqRange(runq') = SeqRange(runq) \cup {f}
  BY AppendRange DEF Wake, TypeOK
<1>2. QED
  BY <1>1 DEF RunnableQueued, Wake, TypeOK

LEMMA NextRunnableQueued == TypeOK /\ RunnableQueued /\ [Next]_vars => RunnableQueued'
<1> SUFFICES ASSUME TypeOK, RunnableQueued, [Next]_vars PROVE RunnableQueued'
  OBVIOUS
<1>1. ASSUME UNCHANGED schedVars PROVE RunnableQueued'
  BY <1>1 DEF schedVars, RunnableQueued
<1>2. ASSUME NEW f \in Fiber, Spawn(f) PROVE RunnableQueued'
  BY <1>2, WakeQueues DEF Spawn
<1>3. ASSUME NEW c \in Chan, NEW v \in Val, SendToReceiver(c, v)
      PROVE  RunnableQueued'
  <2>1. Head(recvq[c]) \in Fiber
    BY <1>3 DEF SendToReceiver, TypeOK
  <2>2. QED
    BY <1>3, <2>1, WakeQueues DEF SendToReceiver
<1>4. ASSUME NEW c \in Chan, NEW v \in Val, SendToBuffer(c, v) \/ SendPark(c, v)
      PROVE  RunnableQueued'
  BY <1>1, <1>4 DEF SendToBuffer, SendPark, RunnableQueued, TypeOK
<1>5. ASSUME NEW c \in Chan, RecvFromBuffer(c) PROVE RunnableQueued'
  <2>1. CASE sendq[c] # <<>>
    <3>1. Head(sendq[c]) \in Parked
      BY <2>1 DEF TypeOK
    <3>2. Head(sendq[c]).fiber \in Fiber
      BY <3>1 DEF Parked
    <3>3. QED
      BY <1>5, <2>1, <3>2, WakeQueues DEF RecvFromBuffer, ParkedValue
  <2>2. CASE sendq[c] = <<>>
    BY <1>1, <1>5, <2>2 DEF RecvFromBuffer, ParkedValue, schedVars
  <2>3. QED
    BY <2>1, <2>2
<1>6. ASSUME NEW c \in Chan, RecvFromSender(c) PROVE RunnableQueued'
  <2>1. Head(sendq[c]) \in Parked
    BY <1>6 DEF RecvFromSender, ParkedValue, TypeOK
  <2>2. Head(sendq[c]).fiber \in Fiber
    BY <2>1 DEF Parked
  <2>3. QED
    BY <1>6, <2>2, WakeQueues DEF RecvFromSender, ParkedValue
<1>7. ASSUME NEW c \in Chan, RecvPark(c) PROVE RunnableQueued'
  BY <1>7 DEF RecvPark, RunnableQueued, TypeOK
<1>8. ASSUME NEW c \in Chan, Close(c) PROVE RunnableQueued'
  <2>1. SeqRange(runq) \cup SeqRange(recvq[c]) \subseteq SeqRange(runq')
    BY <1>8, ConcatRange DEF Close, TypeOK
  <2>2. QED
    BY <1>8, <2>1 DEF Close, RunnableQueued, TypeOK
<1>9. ASSUME NEW c \in Chan, SendClosed(c) \/ RecvClosed(c) PROVE RunnableQueued'
  BY <1>1, <1>9 DEF SendClosed, RecvClosed
<1>10. ASSUME NEW code \in Endings, Fail(code)
       PROVE  RunnableQueued'
  BY <1>1, <1>10 DEF Fail
<1>11. CASE MainReturn
  BY <1>1, <1>11 DEF MainReturn
<1>12. CASE FiberReturn
  BY <1>12 DEF FiberReturn, RunnableQueued, TypeOK
<1>13. CASE SwitchTo
  <2>1. PICK i \in Runnable :
           /\ \A j \in Runnable : i <= j
           /\ cur' = runq[i]
           /\ runq' = SubSeq(runq, i + 1, Len(runq))
    BY <1>13 DEF SwitchTo
  <2>2. i \in 1 .. Len(runq) /\ Len(runq) \in Nat
    BY <2>1 DEF Runnable, TypeOK
  <2>3. /\ Len(runq') = Len(runq) - i
        /\ \A k \in 1 .. Len(runq) - i : runq'[k] = runq[k + i]
    <3>1. \A j \in i + 1 .. Len(runq) : runq[j] \in Fiber
      BY <2>2 DEF TypeOK
    <3>2. i + 1 \in Int /\ Len(runq) \in Int
      BY <2>2
    <3>3. /\ Len(runq') = IF i + 1 <= Len(runq) THEN Len(runq) - (i + 1) + 1 ELSE 0
          /\ \A k \in 1 .. Len(runq) - (i + 1) + 1 : runq'[k] = runq[i + 1 + k - 1]
      BY <2>1, <3>1, <3>2, SubSeqProperties
    <3>4. QED
      BY <2>2, <3>3
  <2>4. ASSUME NEW f \in Fiber, status'[f] = "runnable", f # cur'
        PROVE  f \in SeqRange(runq')
    <3>1. status[f] = "runnable" /\ f # cur
      BY <1>13, <2>4 DEF SwitchTo
    <3>2. PICK j \in 1 .. Len(runq) : runq[j] = f
      BY <3>1 DEF RunnableQueued, SeqRange
    <3>3. i < j
      BY <2>1, <2>2, <2>4, <3>1, <3>2 DEF Runnable
    <3>4. j - i \in 1 .. Len(runq') /\ runq'[j - i] = f
      BY <2>2, <2>3, <3>2, <3>3
    <3>5. QED
      BY <3>4 DEF SeqRange
  <2>5. QED
    BY <2>4 DEF RunnableQueued
<1>14. CASE NothingToRun
  <2>1. SeqRange(runq) \cap {f \in Fiber : status[f] = "runnable"} = {}
    BY <1>14 DEF NothingToRun, Runnable, SeqRange
  <2>2. \A f \in Fiber : status'[f] # "runnable"
    BY <1>14, <2>1 DEF NothingToRun, RunnableQueued
  <2>3. QED
    BY <2>2 DEF RunnableQueued
<1>15. CASE Ended \/ UNCHANGED vars
  BY <1>1, <1>15 DEF Ended, vars, schedVars
<1>16. QED
  BY <1>2, <1>3, <1>4, <1>5, <1>6, <1>7, <1>8, <1>9, <1>10, <1>11, <1>12,
     <1>13, <1>14, <1>15
     DEF Next, FiberStep, Send, Recv, Schedule

LEMMA NextVerdictFinal ==
  TypeOK /\ RunnableQueued /\ VerdictFinal /\ [Next]_vars => VerdictFinal'
<1> SUFFICES ASSUME TypeOK, RunnableQueued, VerdictFinal, [Next]_vars,
                    error' = DeadlockError
             PROVE  /\ halted'
                    /\ \E f \in Fiber : status'[f] = "blocked"
                    /\ \A f \in Fiber : status'[f] # "runnable"
  BY DEF VerdictFinal
<1> USE DEF DeadlockError, Endings, StepLimit, StackOverflow, OutputLimit,
            NilDereference, UnhandledException, SendOnClosed, NoError
<1>1. CASE FiberStep
  <2>1. ~halted
    BY <1>1 DEF FiberStep, Send, Recv, Spawn, SendClosed, SendToReceiver,
         SendToBuffer, SendPark, RecvFromBuffer, RecvFromSender, RecvClosed,
         RecvPark, Close, Fail, MainReturn, FiberReturn, Execute, Running
  <2>2. UNCHANGED error \/ error' # DeadlockError
    <3>1. ASSUME NEW c \in Chan, Send(c) PROVE UNCHANGED error \/ error' # DeadlockError
      <4>1. CASE SendClosed(c)
        BY <4>1 DEF SendClosed, Halt
      <4>2. ASSUME NEW v \in Val,
                   SendToReceiver(c, v) \/ SendToBuffer(c, v) \/ SendPark(c, v)
            PROVE  UNCHANGED error
        BY <4>2 DEF SendToReceiver, SendToBuffer, SendPark
      <4>3. QED
        BY <3>1, <4>1, <4>2 DEF Send
    <3>2. ASSUME NEW c \in Chan, Recv(c) PROVE UNCHANGED error
      BY <3>2 DEF Recv, RecvFromBuffer, RecvFromSender, RecvClosed, RecvPark
    <3>3. ASSUME NEW c \in Chan, Close(c) PROVE UNCHANGED error
      BY <3>3 DEF Close
    <3>4. ASSUME NEW f \in Fiber, Spawn(f) PROVE UNCHANGED error
      BY <3>4 DEF Spawn
    <3>5. ASSUME NEW code \in Endings, Fail(code)
          PROVE  error' # DeadlockError
      BY <3>5 DEF Fail, Halt
    <3>6. CASE MainReturn \/ FiberReturn
      BY <3>6 DEF MainReturn, FiberReturn, Halt
    <3>7. QED
      BY <1>1, <3>1, <3>2, <3>3, <3>4, <3>5, <3>6 DEF FiberStep
  <2>3. QED
    BY <2>1, <2>2 DEF VerdictFinal
<1>2. CASE SwitchTo
  BY <1>2 DEF SwitchTo, VerdictFinal
<1>3. CASE NothingToRun
  <2>1. halted' /\ status' = status /\ \E f \in Fiber : status[f] = "blocked"
    BY <1>3 DEF NothingToRun, Halt
  <2>2. SeqRange(runq) \cap {f \in Fiber : status[f] = "runnable"} = {}
    BY <1>3 DEF NothingToRun, Runnable, SeqRange
  <2>3. QED
    BY <1>3, <2>1, <2>2 DEF NothingToRun, RunnableQueued
<1>4. CASE Ended \/ UNCHANGED vars
  BY <1>4 DEF Ended, vars, VerdictFinal
<1>5. QED
  BY <1>1, <1>2, <1>3, <1>4 DEF Next, Schedule

\* The scheduler ends a run with the deadlock error only when some fiber is
\* parked, no fiber can run, and no channel has both a parked sender and a
\* parked receiver.
THEOREM DeadlockVerdictIsReal == Spec => []DeadlockIsReal
<1>1. Init => RunnableQueued /\ VerdictFinal
  BY DEF Init, RunnableQueued, VerdictFinal, NoError, DeadlockError
<1>2. NoLostWakeup /\ VerdictFinal => DeadlockIsReal
  <2> SUFFICES ASSUME NoLostWakeup, VerdictFinal, error = DeadlockError,
                      NEW c \in Chan, SendersOn(c) # {}, ReceiversOn(c) # {}
               PROVE  FALSE
    BY DEF DeadlockIsReal, VerdictFinal
  <2>1. sendq[c] # <<>> /\ recvq[c] # <<>>
    BY DEF SendersOn, ReceiversOn, SeqRange
  <2>2. QED
    BY <2>1 DEF NoLostWakeup
<1>3. QED
  BY <1>1, <1>2, NextRunnableQueued, NextVerdictFinal, TypeCorrect,
     NoWakeupIsLost, PTL DEF Spec

-----------------------------------------------------------------------------
(* Every fiber is in one place.  Its three parts are inductive only          *)
(* together: a fiber is queued once because it was parked, and it is parked  *)
(* once because it was running.                                              *)

LEMMA AppendNoRepeats ==
  ASSUME NEW S, NEW s \in Seq(S), NEW x \in S, NoRepeats(s), x \notin SeqRange(s)
  PROVE  NoRepeats(Append(s, x))
<1>1. /\ Len(Append(s, x)) = Len(s) + 1 /\ Len(s) \in Nat
      /\ \A i \in 1 .. Len(s) : Append(s, x)[i] = s[i] /\ s[i] # x
      /\ Append(s, x)[Len(s) + 1] = x
  BY AppendProperties DEF SeqRange
<1>2. QED
  BY <1>1 DEF NoRepeats

LEMMA ConcatNoRepeats ==
  ASSUME NEW S, NEW s \in Seq(S), NEW t \in Seq(S), NoRepeats(s), NoRepeats(t),
         SeqRange(s) \cap SeqRange(t) = {}
  PROVE  NoRepeats(s \o t)
<1>1. /\ Len(s \o t) = Len(s) + Len(t)
      /\ \A i \in 1 .. Len(s) + Len(t) :
           (s \o t)[i] = IF i <= Len(s) THEN s[i] ELSE t[i - Len(s)]
  BY ConcatProperties
<1>2. Len(s) \in Nat /\ Len(t) \in Nat
  OBVIOUS
<1>3. \A i \in 1 .. Len(s), j \in 1 .. Len(t) : s[i] # t[j]
  BY DEF SeqRange
<1> SUFFICES ASSUME NEW i \in 1 .. Len(s \o t), NEW j \in 1 .. Len(s \o t),
                    (s \o t)[i] = (s \o t)[j]
             PROVE  i = j
  BY DEF NoRepeats
<1>4. CASE i <= Len(s) /\ j <= Len(s)
  BY <1>1, <1>2, <1>4 DEF NoRepeats
<1>5. CASE i > Len(s) /\ j > Len(s)
  <2>1. /\ i - Len(s) \in 1 .. Len(t) /\ j - Len(s) \in 1 .. Len(t)
        /\ t[i - Len(s)] = t[j - Len(s)]
    BY <1>1, <1>2, <1>5
  <2>2. i - Len(s) = j - Len(s)
    BY <2>1 DEF NoRepeats
  <2>3. QED
    BY <1>1, <1>2, <2>2
<1>6. CASE i <= Len(s) /\ j > Len(s)
  <2>1. i \in 1 .. Len(s) /\ j - Len(s) \in 1 .. Len(t) /\ s[i] = t[j - Len(s)]
    BY <1>1, <1>2, <1>6
  <2>2. QED
    BY <1>3, <2>1
<1>7. CASE i > Len(s) /\ j <= Len(s)
  <2>1. j \in 1 .. Len(s) /\ i - Len(s) \in 1 .. Len(t) /\ s[j] = t[i - Len(s)]
    BY <1>1, <1>2, <1>7
  <2>2. QED
    BY <1>3, <2>1
<1>8. QED
  BY <1>1, <1>2, <1>4, <1>5, <1>6, <1>7

\* A fiber waits on some channel.
Waits(f) == \E c \in Chan : f \in SendersOn(c) \cup ReceiversOn(c)

\* The sender that has waited longest goes, and waits nowhere else.
LEMMA SenderGoes ==
  ASSUME TypeOK, ParkedOnce, NEW c \in Chan, sendq[c] # <<>>,
         sendq' = [sendq EXCEPT ![c] = Tail(@)], recvq' = recvq
  PROVE  /\ Head(sendq[c]) \in Parked /\ Head(sendq[c]).fiber \in Fiber
         /\ Waits(Head(sendq[c]).fiber)
         /\ ParkedOnce'
         /\ \A g \in Fiber : Waits(g)' <=> Waits(g) /\ g # Head(sendq[c]).fiber
<1> DEFINE h == Head(sendq[c]).fiber
<1>1. /\ sendq[c] \in Seq(Parked) /\ Head(sendq[c]) = sendq[c][1]
      /\ Len(sendq[c]) \in Nat \ {0} /\ Head(sendq[c]) \in Parked
      /\ Len(Tail(sendq[c])) = Len(sendq[c]) - 1
      /\ \A i \in 1 .. Len(sendq[c]) - 1 : Tail(sendq[c])[i] = sendq[c][i + 1]
  BY HeadTailProperties DEF TypeOK
<1>2. h = sendq[c][1].fiber /\ h \in Fiber
  BY <1>1 DEF Parked
<1>3. /\ \A d \in Chan : d # c => sendq'[d] = sendq[d]
      /\ Len(sendq'[c]) = Len(sendq[c]) - 1
      /\ \A i \in 1 .. Len(sendq[c]) - 1 : sendq'[c][i] = sendq[c][i + 1]
  BY <1>1 DEF TypeOK
<1>4. h \in SendersOn(c)
  BY <1>1, <1>2 DEF SendersOn
<1> HIDE DEF h
<1>5. ASSUME NEW d \in Chan, NEW i \in 1 .. Len(sendq'[d])
      PROVE  \E k \in 1 .. Len(sendq[d]) :
               sendq'[d][i] = sendq[d][k] /\ k = IF d = c THEN i + 1 ELSE i
  <2>1. CASE d = c
    <3>1. i + 1 \in 1 .. Len(sendq[c]) /\ sendq'[c][i] = sendq[c][i + 1]
      BY <1>1, <1>3, <2>1
    <3>2. QED
      BY <2>1, <3>1
  <2>2. CASE d # c
    BY <1>3, <2>2
  <2>3. QED
    BY <2>1, <2>2
<1>6. ASSUME NEW d \in Chan
      PROVE  /\ SendersOn(d)' = IF d = c THEN SendersOn(c) \ {h} ELSE SendersOn(d)
             /\ ReceiversOn(d)' = ReceiversOn(d)
  <2>1. ReceiversOn(d)' = ReceiversOn(d)
    BY DEF ReceiversOn, SeqRange
  <2>2. CASE d # c
    BY <1>3, <2>1, <2>2 DEF SendersOn
  <2>3. CASE d = c
    <3>1. \A i \in 1 .. Len(sendq[c]) : sendq[c][i].fiber = h => i = 1
      BY <1>1, <1>2 DEF ParkedOnce
    <3>2. \A g \in SendersOn(c)' : g \in SendersOn(c) \ {h}
      <4>1. ASSUME NEW i \in 1 .. Len(sendq'[c])
            PROVE  sendq'[c][i].fiber \in SendersOn(c) \ {h}
        <5>1. /\ i + 1 \in 1 .. Len(sendq[c]) /\ sendq'[c][i] = sendq[c][i + 1]
              /\ i + 1 # 1
          BY <1>1, <1>3
        <5>2. QED
          BY <3>1, <5>1 DEF SendersOn
      <4>2. QED
        BY <4>1 DEF SendersOn
    <3>3. ASSUME NEW i \in 1 .. Len(sendq[c]), sendq[c][i].fiber # h
          PROVE  sendq[c][i].fiber \in SendersOn(c)'
      <4>1. i # 1
        BY <1>2, <3>3
      <4>2. i - 1 \in 1 .. Len(sendq'[c]) /\ sendq'[c][i - 1] = sendq[c][i]
        BY <1>1, <1>3, <4>1
      <4>3. QED
        BY <4>2 DEF SendersOn
    <3>4. SendersOn(c) \ {h} \subseteq SendersOn(c)'
      BY <3>3 DEF SendersOn
    <3>5. QED
      BY <2>1, <2>3, <3>2, <3>4
  <2>4. QED
    BY <2>2, <2>3
<1>7. ParkedOnce'
  <2>1. ASSUME NEW d \in Chan, NEW e \in Chan
        PROVE  /\ \A i \in 1 .. Len(sendq'[d]), j \in 1 .. Len(sendq'[e]) :
                    sendq'[d][i].fiber = sendq'[e][j].fiber => d = e /\ i = j
               /\ \A i \in 1 .. Len(recvq'[d]), j \in 1 .. Len(recvq'[e]) :
                    recvq'[d][i] = recvq'[e][j] => d = e /\ i = j
               /\ SendersOn(d)' \cap ReceiversOn(e)' = {}
    <3>1. ASSUME NEW i \in 1 .. Len(sendq'[d]), NEW j \in 1 .. Len(sendq'[e]),
                 sendq'[d][i].fiber = sendq'[e][j].fiber
          PROVE  d = e /\ i = j
      <4>1. PICK k \in 1 .. Len(sendq[d]) :
                   sendq'[d][i] = sendq[d][k] /\ k = IF d = c THEN i + 1 ELSE i
        BY <1>5
      <4>2. PICK l \in 1 .. Len(sendq[e]) :
                   sendq'[e][j] = sendq[e][l] /\ l = IF e = c THEN j + 1 ELSE j
        BY <1>5
      <4>3. d = e /\ k = l
        BY <3>1, <4>1, <4>2 DEF ParkedOnce
      <4>4. QED
        BY <4>1, <4>2, <4>3
    <3>2. SendersOn(d)' \subseteq SendersOn(d) /\ ReceiversOn(e)' = ReceiversOn(e)
      BY <1>6
    <3>3. QED
      BY <3>1, <3>2 DEF ParkedOnce
  <2>2. QED
    BY <2>1 DEF ParkedOnce, SendersOn, ReceiversOn, SeqRange
<1>8. \A d \in Chan : d # c => h \notin SendersOn(d)
  BY <1>1, <1>2 DEF ParkedOnce, SendersOn
<1>9. \A d \in Chan : h \notin ReceiversOn(d)
  BY <1>4 DEF ParkedOnce
<1>10. \A g \in Fiber : Waits(g)' <=> Waits(g) /\ g # h
  BY <1>6, <1>8, <1>9 DEF Waits
<1>11. QED
  BY <1>1, <1>2, <1>4, <1>7, <1>10 DEF h, Waits

\* The receiver that has waited longest goes, and waits nowhere else.
LEMMA ReceiverGoes ==
  ASSUME TypeOK, ParkedOnce, NEW c \in Chan, recvq[c] # <<>>,
         recvq' = [recvq EXCEPT ![c] = Tail(@)], sendq' = sendq
  PROVE  /\ Head(recvq[c]) \in Fiber /\ Waits(Head(recvq[c]))
         /\ ParkedOnce'
         /\ \A g \in Fiber : Waits(g)' <=> Waits(g) /\ g # Head(recvq[c])
<1> DEFINE h == Head(recvq[c])
<1>1. /\ recvq[c] \in Seq(Fiber) /\ h = recvq[c][1] /\ h \in Fiber
      /\ Len(recvq[c]) \in Nat \ {0}
      /\ Len(Tail(recvq[c])) = Len(recvq[c]) - 1
      /\ \A i \in 1 .. Len(recvq[c]) - 1 : Tail(recvq[c])[i] = recvq[c][i + 1]
  BY HeadTailProperties DEF TypeOK
<1>2. /\ \A d \in Chan : d # c => recvq'[d] = recvq[d]
      /\ Len(recvq'[c]) = Len(recvq[c]) - 1
      /\ \A i \in 1 .. Len(recvq[c]) - 1 : recvq'[c][i] = recvq[c][i + 1]
  BY <1>1 DEF TypeOK
<1>3. h \in ReceiversOn(c)
  BY <1>1 DEF ReceiversOn, SeqRange
<1> HIDE DEF h
<1>4. ASSUME NEW d \in Chan, NEW i \in 1 .. Len(recvq'[d])
      PROVE  \E k \in 1 .. Len(recvq[d]) :
               recvq'[d][i] = recvq[d][k] /\ k = IF d = c THEN i + 1 ELSE i
  <2>1. CASE d = c
    <3>1. i + 1 \in 1 .. Len(recvq[c]) /\ recvq'[c][i] = recvq[c][i + 1]
      BY <1>1, <1>2, <2>1
    <3>2. QED
      BY <2>1, <3>1
  <2>2. CASE d # c
    BY <1>2, <2>2
  <2>3. QED
    BY <2>1, <2>2
<1>5. ASSUME NEW d \in Chan
      PROVE  /\ ReceiversOn(d)' = IF d = c THEN ReceiversOn(c) \ {h} ELSE ReceiversOn(d)
             /\ SendersOn(d)' = SendersOn(d)
  <2>1. SendersOn(d)' = SendersOn(d)
    BY DEF SendersOn
  <2>2. CASE d # c
    BY <1>2, <2>1, <2>2 DEF ReceiversOn, SeqRange
  <2>3. CASE d = c
    <3>1. \A i \in 1 .. Len(recvq[c]) : recvq[c][i] = h => i = 1
      BY <1>1 DEF ParkedOnce
    <3>2. ASSUME NEW i \in 1 .. Len(recvq'[c])
          PROVE  recvq'[c][i] \in ReceiversOn(c) \ {h}
      <4>1. /\ i + 1 \in 1 .. Len(recvq[c]) /\ recvq'[c][i] = recvq[c][i + 1]
            /\ i + 1 # 1
        BY <1>1, <1>2
      <4>2. QED
        BY <3>1, <4>1 DEF ReceiversOn, SeqRange
    <3>3. ASSUME NEW i \in 1 .. Len(recvq[c]), recvq[c][i] # h
          PROVE  recvq[c][i] \in ReceiversOn(c)'
      <4>1. i # 1
        BY <1>1, <3>3
      <4>2. i - 1 \in 1 .. Len(recvq'[c]) /\ recvq'[c][i - 1] = recvq[c][i]
        BY <1>1, <1>2, <4>1
      <4>3. QED
        BY <4>2 DEF ReceiversOn, SeqRange
    <3>4. ReceiversOn(c)' = ReceiversOn(c) \ {h}
      BY <3>2, <3>3 DEF ReceiversOn, SeqRange
    <3>5. QED
      BY <2>1, <2>3, <3>4
  <2>4. QED
    BY <2>2, <2>3
<1>6. ParkedOnce'
  <2>1. ASSUME NEW d \in Chan, NEW e \in Chan
        PROVE  /\ \A i \in 1 .. Len(sendq'[d]), j \in 1 .. Len(sendq'[e]) :
                    sendq'[d][i].fiber = sendq'[e][j].fiber => d = e /\ i = j
               /\ \A i \in 1 .. Len(recvq'[d]), j \in 1 .. Len(recvq'[e]) :
                    recvq'[d][i] = recvq'[e][j] => d = e /\ i = j
               /\ SendersOn(d)' \cap ReceiversOn(e)' = {}
    <3>1. ASSUME NEW i \in 1 .. Len(recvq'[d]), NEW j \in 1 .. Len(recvq'[e]),
                 recvq'[d][i] = recvq'[e][j]
          PROVE  d = e /\ i = j
      <4>1. PICK k \in 1 .. Len(recvq[d]) :
                   recvq'[d][i] = recvq[d][k] /\ k = IF d = c THEN i + 1 ELSE i
        BY <1>4
      <4>2. PICK l \in 1 .. Len(recvq[e]) :
                   recvq'[e][j] = recvq[e][l] /\ l = IF e = c THEN j + 1 ELSE j
        BY <1>4
      <4>3. d = e /\ k = l
        BY <3>1, <4>1, <4>2 DEF ParkedOnce
      <4>4. QED
        BY <4>1, <4>2, <4>3
    <3>2. ReceiversOn(e)' \subseteq ReceiversOn(e) /\ SendersOn(d)' = SendersOn(d)
      BY <1>5
    <3>3. QED
      BY <3>1, <3>2 DEF ParkedOnce
  <2>2. QED
    BY <2>1 DEF ParkedOnce, SendersOn, ReceiversOn, SeqRange
<1>7. \A d \in Chan : d # c => h \notin ReceiversOn(d)
  BY <1>1 DEF ParkedOnce, ReceiversOn, SeqRange
<1>8. \A d \in Chan : h \notin SendersOn(d)
  BY <1>3 DEF ParkedOnce
<1>9. \A g \in Fiber : Waits(g)' <=> Waits(g) /\ g # h
  BY <1>5, <1>7, <1>8 DEF Waits
<1>10. QED
  BY <1>1, <1>3, <1>6, <1>9 DEF h, Waits

\* Close: all the receivers of a channel go.
LEMMA ReceiversGo ==
  ASSUME TypeOK, ParkedOnce, NEW c \in Chan,
         recvq' = [recvq EXCEPT ![c] = <<>>], sendq' = sendq
  PROVE  /\ ParkedOnce'
         /\ \A g \in ReceiversOn(c) : Waits(g)
         /\ \A g \in Fiber : Waits(g)' <=> Waits(g) /\ g \notin ReceiversOn(c)
<1>1. /\ \A d \in Chan : d # c => recvq'[d] = recvq[d]
      /\ recvq'[c] = <<>> /\ Len(recvq'[c]) = 0
  BY DEF TypeOK
<1>2. ASSUME NEW d \in Chan
      PROVE  /\ ReceiversOn(d)' = IF d = c THEN {} ELSE ReceiversOn(d)
             /\ SendersOn(d)' = SendersOn(d)
  BY <1>1 DEF ReceiversOn, SeqRange, SendersOn
<1>3. ParkedOnce'
  <2>1. \A d, e \in Chan : \A i \in 1 .. Len(recvq'[d]), j \in 1 .. Len(recvq'[e]) :
          recvq'[d][i] = recvq'[e][j] => d = e /\ i = j
    BY <1>1 DEF ParkedOnce
  <2>2. \A d, e \in Chan : SendersOn(d)' \cap ReceiversOn(e)' = {}
    BY <1>2 DEF ParkedOnce
  <2>3. QED
    BY <2>1, <2>2 DEF ParkedOnce
<1>4. \A d \in Chan : d # c => ReceiversOn(d) \cap ReceiversOn(c) = {}
  BY DEF ParkedOnce, ReceiversOn, SeqRange
<1>5. \A d \in Chan : SendersOn(d) \cap ReceiversOn(c) = {}
  BY DEF ParkedOnce
<1>6. QED
  BY <1>2, <1>3, <1>4, <1>5 DEF Waits

\* A fiber that waits nowhere parks with a value it sends.
LEMMA SenderParks ==
  ASSUME TypeOK, ParkedOnce, NEW c \in Chan, NEW v \in Val, ~Waits(cur),
         sendq' = [sendq EXCEPT ![c] = Append(@, [fiber |-> cur, val |-> v])],
         recvq' = recvq
  PROVE  /\ ParkedOnce'
         /\ \A g \in Fiber : Waits(g)' <=> Waits(g) \/ g = cur
<1> DEFINE p == [fiber |-> cur, val |-> v]
           n == Len(sendq[c])
<1>1. p \in Parked /\ p.fiber = cur /\ sendq[c] \in Seq(Parked) /\ n \in Nat
  <2>1. cur \in Fiber /\ sendq \in [Chan -> Seq(Parked)]
    BY DEF TypeOK
  <2>2. p \in Parked /\ p.fiber = cur
    BY <2>1 DEF Parked
  <2>3. sendq[c] \in Seq(Parked) /\ n \in Nat
    BY <2>1
  <2>4. QED
    BY <2>2, <2>3
<1>2. /\ \A d \in Chan : d # c => sendq'[d] = sendq[d]
      /\ Len(sendq'[c]) = n + 1
      /\ \A i \in 1 .. n : sendq'[c][i] = sendq[c][i]
      /\ sendq'[c][n + 1] = p
  <2>1. sendq' = [sendq EXCEPT ![c] = Append(sendq[c], p)]
    OBVIOUS
  <2> HIDE DEF p
  <2>2. /\ Len(Append(sendq[c], p)) = n + 1
        /\ \A i \in 1 .. n : Append(sendq[c], p)[i] = sendq[c][i]
        /\ Append(sendq[c], p)[n + 1] = p
    BY <1>1, AppendProperties
  <2>3. QED
    BY <2>1, <2>2 DEF TypeOK
<1> HIDE DEF p
<1>3. \A d \in Chan : \A i \in 1 .. Len(sendq[d]) : sendq[d][i].fiber # cur
  BY DEF Waits, SendersOn
<1>4. ASSUME NEW d \in Chan
      PROVE  \A i \in 1 .. Len(sendq'[d]) :
               \/ i \in 1 .. Len(sendq[d]) /\ sendq'[d][i] = sendq[d][i]
               \/ d = c /\ i = n + 1 /\ sendq'[d][i] = p
  <2>1. CASE d # c
    BY <1>2, <2>1
  <2>2. CASE d = c
    <3>1. \A i \in 1 .. Len(sendq'[c]) : i \in 1 .. n \/ i = n + 1
      BY <1>1, <1>2
    <3>2. QED
      BY <1>2, <2>2, <3>1
  <2>3. QED
    BY <2>1, <2>2
<1>5. ASSUME NEW d \in Chan
      PROVE  /\ SendersOn(d)' = IF d = c THEN SendersOn(c) \cup {cur} ELSE SendersOn(d)
             /\ ReceiversOn(d)' = ReceiversOn(d)
  <2>1. ReceiversOn(d)' = ReceiversOn(d)
    BY DEF ReceiversOn, SeqRange
  <2>2. CASE d # c
    BY <1>2, <2>1, <2>2 DEF SendersOn
  <2>3. CASE d = c
    <3>1. SendersOn(c)' \subseteq SendersOn(c) \cup {cur}
      BY <1>1, <1>4 DEF SendersOn
    <3>2. \A i \in 1 .. n : i \in 1 .. Len(sendq'[c])
      BY <1>1, <1>2
    <3>3. SendersOn(c) \subseteq SendersOn(c)'
      BY <1>2, <3>2 DEF SendersOn
    <3>4. cur \in SendersOn(c)'
      <4>1. n + 1 \in 1 .. Len(sendq'[c]) /\ sendq'[c][n + 1].fiber = cur
        BY <1>1, <1>2
      <4>2. QED
        BY <4>1 DEF SendersOn
    <3>5. QED
      BY <2>1, <2>3, <3>1, <3>3, <3>4
  <2>4. QED
    BY <2>2, <2>3
<1>6. ParkedOnce'
  <2>1. ASSUME NEW d \in Chan, NEW e \in Chan,
               NEW i \in 1 .. Len(sendq'[d]), NEW j \in 1 .. Len(sendq'[e]),
               sendq'[d][i].fiber = sendq'[e][j].fiber
        PROVE  d = e /\ i = j
    <3>1. CASE i \in 1 .. Len(sendq[d]) /\ sendq'[d][i] = sendq[d][i]
      BY <1>1, <1>3, <1>4, <2>1, <3>1 DEF ParkedOnce
    <3>2. CASE d = c /\ i = n + 1 /\ sendq'[d][i] = p
      BY <1>1, <1>3, <1>4, <2>1, <3>2
    <3>3. QED
      BY <1>4, <3>1, <3>2
  <2>2. \A d, e \in Chan : SendersOn(d)' \cap ReceiversOn(e)' = {}
    BY <1>5 DEF ParkedOnce, Waits
  <2>3. QED
    BY <2>1, <2>2 DEF ParkedOnce
<1>7. QED
  BY <1>5, <1>6 DEF Waits

\* A fiber that waits nowhere parks for a value.
LEMMA ReceiverParks ==
  ASSUME TypeOK, ParkedOnce, NEW c \in Chan, ~Waits(cur),
         recvq' = [recvq EXCEPT ![c] = Append(@, cur)], sendq' = sendq
  PROVE  /\ ParkedOnce'
         /\ \A g \in Fiber : Waits(g)' <=> Waits(g) \/ g = cur
<1> DEFINE n == Len(recvq[c])
<1>1. cur \in Fiber /\ recvq[c] \in Seq(Fiber) /\ n \in Nat
  BY DEF TypeOK
<1>2. /\ \A d \in Chan : d # c => recvq'[d] = recvq[d]
      /\ Len(recvq'[c]) = n + 1
      /\ \A i \in 1 .. n : recvq'[c][i] = recvq[c][i]
      /\ recvq'[c][n + 1] = cur
  BY <1>1, AppendProperties DEF TypeOK
<1>3. \A d \in Chan : \A i \in 1 .. Len(recvq[d]) : recvq[d][i] # cur
  BY DEF Waits, ReceiversOn, SeqRange
<1>4. ASSUME NEW d \in Chan
      PROVE  \A i \in 1 .. Len(recvq'[d]) :
               \/ i \in 1 .. Len(recvq[d]) /\ recvq'[d][i] = recvq[d][i]
               \/ d = c /\ i = n + 1 /\ recvq'[d][i] = cur
  BY <1>1, <1>2
<1>5. ASSUME NEW d \in Chan
      PROVE  /\ ReceiversOn(d)' = IF d = c THEN ReceiversOn(c) \cup {cur} ELSE ReceiversOn(d)
             /\ SendersOn(d)' = SendersOn(d)
  <2>1. SendersOn(d)' = SendersOn(d)
    BY DEF SendersOn
  <2>2. CASE d # c
    BY <1>2, <2>1, <2>2 DEF ReceiversOn, SeqRange
  <2>3. CASE d = c
    BY <1>1, <2>1, <2>3, AppendRange DEF ReceiversOn, TypeOK
  <2>4. QED
    BY <2>2, <2>3
<1>6. ParkedOnce'
  <2>1. ASSUME NEW d \in Chan, NEW e \in Chan,
               NEW i \in 1 .. Len(recvq'[d]), NEW j \in 1 .. Len(recvq'[e]),
               recvq'[d][i] = recvq'[e][j]
        PROVE  d = e /\ i = j
    <3>1. CASE i \in 1 .. Len(recvq[d]) /\ recvq'[d][i] = recvq[d][i]
      BY <1>1, <1>3, <1>4, <2>1, <3>1 DEF ParkedOnce
    <3>2. CASE d = c /\ i = n + 1 /\ recvq'[d][i] = cur
      BY <1>1, <1>3, <1>4, <2>1, <3>2
    <3>3. QED
      BY <1>4, <3>1, <3>2
  <2>2. \A d, e \in Chan : SendersOn(d)' \cap ReceiversOn(e)' = {}
    BY <1>5 DEF ParkedOnce, Waits
  <2>3. QED
    BY <2>1, <2>2 DEF ParkedOnce
<1>7. QED
  BY <1>5, <1>6 DEF Waits

\* A fiber that did not run is woken by the fiber that runs.
LEMMA WakeKeepsExact ==
  ASSUME TypeOK, RunQueueExact, NEW f \in Fiber, status[f] # "runnable",
         status[cur] = "runnable", Wake(f), cur' = cur
  PROVE  RunQueueExact'
<1>1. f \notin SeqRange(runq) /\ f # cur
  BY DEF RunQueueExact
<1>2. NoRepeats(runq') /\ SeqRange(runq') = SeqRange(runq) \cup {f}
  BY <1>1, AppendRange, AppendNoRepeats DEF Wake, TypeOK, RunQueueExact
<1>3. \A g \in Fiber : status'[g] = IF g = f THEN "runnable" ELSE status[g]
  BY DEF Wake, TypeOK
<1>4. QED
  BY <1>1, <1>2, <1>3 DEF RunQueueExact

\* The fiber that runs stops to run.
LEMMA StopKeepsExact ==
  ASSUME TypeOK, RunQueueExact, NEW s \in Status, s # "runnable",
         status' = [status EXCEPT ![cur] = s], UNCHANGED <<cur, runq>>
  PROVE  RunQueueExact'
<1>1. \A g \in Fiber : status'[g] = IF g = cur THEN s ELSE status[g]
  BY DEF TypeOK
<1>2. QED
  BY <1>1 DEF RunQueueExact, SeqRange, NoRepeats

LEMMA BlockedWaits == OnePlace <=>
  /\ RunQueueExact
  /\ ParkedOnce
  /\ \A f \in Fiber : status[f] = "blocked" <=> Waits(f)
  BY DEF OnePlace, Waits

LEMMA SamePrimes ==
  ASSUME UNCHANGED <<sendq, recvq>>
  PROVE  /\ ParkedOnce => ParkedOnce'
         /\ \A f \in Fiber : Waits(f)' <=> Waits(f)
<1>1. \A c \in Chan : SendersOn(c)' = SendersOn(c) /\ ReceiversOn(c)' = ReceiversOn(c)
  BY DEF SendersOn, ReceiversOn, SeqRange
<1>2. ParkedOnce => ParkedOnce'
  BY <1>1 DEF ParkedOnce
<1>3. QED
  BY <1>1, <1>2 DEF Waits

LEMMA SameKeepsOnePlace ==
  ASSUME OnePlace, UNCHANGED <<status, cur, runq, sendq, recvq>>
  PROVE  OnePlace'
<1>1. RunQueueExact'
  BY DEF OnePlace, RunQueueExact, NoRepeats, SeqRange
<1>2. ParkedOnce' /\ \A f \in Fiber : Waits(f)' <=> Waits(f)
  BY SamePrimes DEF OnePlace
<1>3. QED
  BY <1>1, <1>2 DEF OnePlace, Waits

LEMMA NextOnePlace == TypeOK /\ OnePlace /\ [Next]_vars => OnePlace'
<1> SUFFICES ASSUME TypeOK, OnePlace, [Next]_vars PROVE OnePlace'
  OBVIOUS
<1>1. /\ RunQueueExact /\ ParkedOnce
      /\ \A f \in Fiber : status[f] = "blocked" <=> Waits(f)
  BY BlockedWaits
<1>2. status \in [Fiber -> Status] /\ cur \in Fiber /\ runq \in Seq(Fiber)
  BY DEF TypeOK
\* What is to show, in these words.
<1> SUFFICES /\ RunQueueExact' /\ ParkedOnce'
             /\ \A f \in Fiber : status'[f] = "blocked" <=> Waits(f)'
  BY DEF OnePlace, Waits
<1>3. ASSUME NEW f \in Fiber, Wake(f)
      PROVE  \A g \in Fiber : status'[g] = IF g = f THEN "runnable" ELSE status[g]
  BY <1>2, <1>3 DEF Wake
<1>4. ASSUME UNCHANGED <<status, cur, runq, sendq, recvq>>
      PROVE  /\ RunQueueExact' /\ ParkedOnce'
             /\ \A f \in Fiber : status'[f] = "blocked" <=> Waits(f)'
  BY <1>4, SameKeepsOnePlace, SamePrimes, <1>1 DEF OnePlace
<1>5. ASSUME NEW f \in Fiber, Spawn(f)
      PROVE  /\ RunQueueExact' /\ ParkedOnce'
             /\ \A g \in Fiber : status'[g] = "blocked" <=> Waits(g)'
  <2>1. /\ status[cur] = "runnable" /\ status[f] = "unborn" /\ Wake(f)
        /\ UNCHANGED <<cur, sendq, recvq>>
    BY <1>5 DEF Spawn, Execute, Running, chanVars
  <2>2. RunQueueExact'
    BY <1>1, <2>1, WakeKeepsExact
  <2>3. QED
    BY <1>1, <1>3, <2>1, <2>2, SamePrimes
<1>6. ASSUME NEW c \in Chan, NEW v \in Val, SendToReceiver(c, v)
      PROVE  /\ RunQueueExact' /\ ParkedOnce'
             /\ \A g \in Fiber : status'[g] = "blocked" <=> Waits(g)'
  <2> DEFINE h == Head(recvq[c])
  <2>1. /\ status[cur] = "runnable" /\ recvq[c] # <<>> /\ cur' = cur
        /\ recvq' = [recvq EXCEPT ![c] = Tail(@)] /\ sendq' = sendq /\ Wake(h)
    BY <1>6 DEF SendToReceiver, Execute, Running
  <2>2. /\ h \in Fiber /\ Waits(h) /\ ParkedOnce'
        /\ \A g \in Fiber : Waits(g)' <=> Waits(g) /\ g # h
    BY <1>1, <2>1, ReceiverGoes
  <2> HIDE DEF h
  <2>3. status[h] = "blocked"
    BY <1>1, <2>2
  <2>4. RunQueueExact'
    BY <1>1, <2>1, <2>2, <2>3, WakeKeepsExact
  <2>5. \A g \in Fiber : status'[g] = IF g = h THEN "runnable" ELSE status[g]
    BY <1>3, <2>1, <2>2
  <2>6. QED
    BY <1>1, <2>2, <2>4, <2>5
<1>7. ASSUME NEW c \in Chan, NEW v \in Val, SendPark(c, v)
      PROVE  /\ RunQueueExact' /\ ParkedOnce'
             /\ \A g \in Fiber : status'[g] = "blocked" <=> Waits(g)'
  <2>1. /\ status[cur] = "runnable" /\ status' = [status EXCEPT ![cur] = "blocked"]
        /\ sendq' = [sendq EXCEPT ![c] = Append(@, [fiber |-> cur, val |-> v])]
        /\ UNCHANGED <<cur, runq, recvq>>
    BY <1>7 DEF SendPark, Execute, Running
  <2>2. ~Waits(cur)
    BY <1>1, <1>2, <2>1
  <2>3. ParkedOnce' /\ \A g \in Fiber : Waits(g)' <=> Waits(g) \/ g = cur
    BY <1>1, <2>1, <2>2, SenderParks
  <2>4. RunQueueExact'
    BY <1>1, <2>1, StopKeepsExact DEF Status
  <2>5. QED
    BY <1>1, <1>2, <2>1, <2>3, <2>4
<1>8. ASSUME NEW c \in Chan, RecvFromBuffer(c)
      PROVE  /\ RunQueueExact' /\ ParkedOnce'
             /\ \A g \in Fiber : status'[g] = "blocked" <=> Waits(g)'
  <2>1. CASE sendq[c] # <<>>
    <3> DEFINE h == Head(sendq[c]).fiber
    <3>1. /\ status[cur] = "runnable" /\ cur' = cur /\ recvq' = recvq
          /\ sendq' = [sendq EXCEPT ![c] = Tail(@)] /\ Wake(h)
      BY <1>8, <2>1 DEF RecvFromBuffer, Execute, Running
    <3>2. /\ h \in Fiber /\ Waits(h) /\ ParkedOnce'
          /\ \A g \in Fiber : Waits(g)' <=> Waits(g) /\ g # h
      BY <1>1, <2>1, <3>1, SenderGoes
    <3> HIDE DEF h
    <3>3. status[h] = "blocked"
      BY <1>1, <3>2
    <3>4. RunQueueExact'
      BY <1>1, <3>1, <3>2, <3>3, WakeKeepsExact
    <3>5. \A g \in Fiber : status'[g] = IF g = h THEN "runnable" ELSE status[g]
      BY <1>3, <3>1, <3>2
    <3>6. QED
      BY <1>1, <3>2, <3>4, <3>5
  <2>2. CASE sendq[c] = <<>>
    <3>1. UNCHANGED <<status, cur, runq, sendq, recvq>>
      BY <1>8, <2>2 DEF RecvFromBuffer
    <3>2. QED
      BY <1>4, <3>1
  <2>3. QED
    BY <2>1, <2>2
<1>9. ASSUME NEW c \in Chan, RecvFromSender(c)
      PROVE  /\ RunQueueExact' /\ ParkedOnce'
             /\ \A g \in Fiber : status'[g] = "blocked" <=> Waits(g)'
  <2> DEFINE h == Head(sendq[c]).fiber
  <2>1. /\ status[cur] = "runnable" /\ sendq[c] # <<>> /\ cur' = cur /\ recvq' = recvq
        /\ sendq' = [sendq EXCEPT ![c] = Tail(@)] /\ Wake(h)
    BY <1>9 DEF RecvFromSender, Execute, Running
  <2>2. /\ h \in Fiber /\ Waits(h) /\ ParkedOnce'
        /\ \A g \in Fiber : Waits(g)' <=> Waits(g) /\ g # h
    BY <1>1, <2>1, SenderGoes
  <2> HIDE DEF h
  <2>3. status[h] = "blocked"
    BY <1>1, <2>2
  <2>4. RunQueueExact'
    BY <1>1, <2>1, <2>2, <2>3, WakeKeepsExact
  <2>5. \A g \in Fiber : status'[g] = IF g = h THEN "runnable" ELSE status[g]
    BY <1>3, <2>1, <2>2
  <2>6. QED
    BY <1>1, <2>2, <2>4, <2>5
<1>10. ASSUME NEW c \in Chan, RecvPark(c)
       PROVE  /\ RunQueueExact' /\ ParkedOnce'
              /\ \A g \in Fiber : status'[g] = "blocked" <=> Waits(g)'
  <2>1. /\ status[cur] = "runnable" /\ status' = [status EXCEPT ![cur] = "blocked"]
        /\ recvq' = [recvq EXCEPT ![c] = Append(@, cur)]
        /\ UNCHANGED <<cur, runq, sendq>>
    BY <1>10 DEF RecvPark, Execute, Running
  <2>2. ~Waits(cur)
    BY <1>1, <1>2, <2>1
  <2>3. ParkedOnce' /\ \A g \in Fiber : Waits(g)' <=> Waits(g) \/ g = cur
    BY <1>1, <2>1, <2>2, ReceiverParks
  <2>4. RunQueueExact'
    BY <1>1, <2>1, StopKeepsExact DEF Status
  <2>5. QED
    BY <1>1, <1>2, <2>1, <2>3, <2>4
<1>11. ASSUME NEW c \in Chan, Close(c)
       PROVE  /\ RunQueueExact' /\ ParkedOnce'
              /\ \A g \in Fiber : status'[g] = "blocked" <=> Waits(g)'
  <2>1. /\ status[cur] = "runnable" /\ cur' = cur /\ runq' = runq \o recvq[c]
        /\ recvq' = [recvq EXCEPT ![c] = <<>>] /\ sendq' = sendq
        /\ \A g \in Fiber :
             status'[g] = IF g \in ReceiversOn(c) THEN "runnable" ELSE status[g]
    BY <1>11 DEF Close, Execute, Running, ReceiversOn
  <2>2. /\ ParkedOnce' /\ \A g \in ReceiversOn(c) : Waits(g)
        /\ \A g \in Fiber : Waits(g)' <=> Waits(g) /\ g \notin ReceiversOn(c)
    BY <1>1, <2>1, ReceiversGo
  <2>3. recvq[c] \in Seq(Fiber) /\ ReceiversOn(c) = SeqRange(recvq[c])
        /\ ReceiversOn(c) \subseteq Fiber
    BY DEF TypeOK, ReceiversOn, SeqRange
  <2>4. \A g \in ReceiversOn(c) : status[g] = "blocked"
    BY <1>1, <2>2, <2>3
  <2>5. NoRepeats(recvq[c]) /\ SeqRange(runq) \cap SeqRange(recvq[c]) = {}
    <3>1. NoRepeats(recvq[c])
      BY <1>1 DEF ParkedOnce, NoRepeats
    <3>2. QED
      BY <1>1, <2>3, <2>4, <3>1 DEF RunQueueExact
  <2>6. NoRepeats(runq') /\ SeqRange(runq') = SeqRange(runq) \cup ReceiversOn(c)
    BY <1>1, <1>2, <2>1, <2>3, <2>5, ConcatNoRepeats, ConcatRange DEF RunQueueExact
  <2>7. RunQueueExact'
    BY <1>1, <2>1, <2>4, <2>6 DEF RunQueueExact
  <2>8. QED
    BY <1>1, <2>1, <2>2, <2>7
<1>12. CASE FiberReturn
  <2>1. /\ status[cur] = "runnable" /\ status' = [status EXCEPT ![cur] = "done"]
        /\ UNCHANGED <<cur, runq, sendq, recvq>>
    BY <1>12 DEF FiberReturn, Running, chanVars
  <2>2. RunQueueExact'
    BY <1>1, <2>1, StopKeepsExact DEF Status
  <2>3. QED
    BY <1>1, <1>2, <2>1, <2>2, SamePrimes
<1>13. CASE SwitchTo
  <2>1. PICK i \in Runnable :
           /\ \A j \in Runnable : i <= j
           /\ cur' = runq[i]
           /\ runq' = SubSeq(runq, i + 1, Len(runq))
    BY <1>13 DEF SwitchTo
  <2>2. status[cur] # "runnable" /\ UNCHANGED <<status, sendq, recvq>>
    BY <1>13 DEF SwitchTo, chanVars
  <2>3. Len(runq) \in Nat /\ Runnable = 1 .. Len(runq)
    BY <1>1, <1>2 DEF Runnable, RunQueueExact, SeqRange
  <2>4. i = 1 /\ runq # <<>>
    BY <1>2, <2>1, <2>3
  <2>5. runq' = Tail(runq) /\ cur' = runq[1]
    BY <1>2, <2>1, <2>4, TailIsSubSeq
  <2>6. /\ Len(runq') = Len(runq) - 1 /\ runq' \in Seq(Fiber)
        /\ \A k \in 1 .. Len(runq) - 1 : runq'[k] = runq[k + 1]
    BY <1>2, <2>4, <2>5, HeadTailProperties
  <2>7. NoRepeats(runq')
    <3>1. ASSUME NEW k \in 1 .. Len(runq'), NEW l \in 1 .. Len(runq'), runq'[k] = runq'[l]
          PROVE  k = l
      <4>1. /\ k + 1 \in 1 .. Len(runq) /\ l + 1 \in 1 .. Len(runq)
            /\ runq[k + 1] = runq[l + 1]
        BY <2>3, <2>6, <3>1
      <4>2. k + 1 = l + 1
        BY <1>1, <4>1 DEF RunQueueExact, NoRepeats
      <4>3. QED
        BY <2>3, <2>6, <4>2
    <3>2. QED
      BY <3>1 DEF NoRepeats
  <2>8. ASSUME NEW f \in Fiber
        PROVE  f \in SeqRange(runq') <=> f \in SeqRange(runq) /\ f # cur'
    <3>1. ASSUME NEW k \in 1 .. Len(runq'), runq'[k] = f
          PROVE  f \in SeqRange(runq) /\ f # cur'
      <4>1. k + 1 \in 1 .. Len(runq) /\ runq[k + 1] = f /\ 1 \in 1 .. Len(runq) /\ k + 1 # 1
        BY <2>3, <2>6, <3>1
      <4>2. runq[k + 1] # runq[1]
        BY <1>1, <4>1 DEF RunQueueExact, NoRepeats
      <4>3. QED
        BY <2>5, <4>1, <4>2 DEF SeqRange
    <3>2. ASSUME NEW k \in 1 .. Len(runq), runq[k] = f, f # cur'
          PROVE  f \in SeqRange(runq')
      <4>1. k # 1
        BY <2>5, <3>2
      <4>2. k - 1 \in 1 .. Len(runq') /\ runq'[k - 1] = f
        BY <2>3, <2>6, <3>2, <4>1
      <4>3. QED
        BY <4>2 DEF SeqRange
    <3>3. QED
      BY <3>1, <3>2 DEF SeqRange
  <2>9. RunQueueExact'
    BY <1>1, <2>2, <2>7, <2>8 DEF RunQueueExact
  <2>10. QED
    BY <1>1, <2>2, <2>9, SamePrimes
<1>14. CASE NothingToRun
  <2>1. runq' = <<>> /\ Runnable = {} /\ status[cur] # "runnable"
        /\ UNCHANGED <<status, cur, sendq, recvq>>
    BY <1>14 DEF NothingToRun, chanVars
  <2>2. \A f \in Fiber : status[f] = "runnable" => f \notin SeqRange(runq)
    BY <2>1 DEF Runnable, SeqRange
  <2>3. NoRepeats(runq') /\ SeqRange(runq') = {}
    BY <2>1 DEF NoRepeats, SeqRange
  <2>4. RunQueueExact'
    BY <1>1, <2>1, <2>2, <2>3 DEF RunQueueExact
  <2>5. QED
    BY <1>1, <2>1, <2>4, SamePrimes
<1>15. ASSUME NEW c \in Chan,
              SendClosed(c) \/ RecvClosed(c) \/ \E v \in Val : SendToBuffer(c, v)
       PROVE  UNCHANGED <<status, cur, runq, sendq, recvq>>
  BY <1>15 DEF SendClosed, RecvClosed, SendToBuffer, schedVars, chanVars
<1>16. ASSUME \/ \E code \in Endings : Fail(code)
              \/ MainReturn \/ Ended \/ UNCHANGED vars
       PROVE  UNCHANGED <<status, cur, runq, sendq, recvq>>
  BY <1>16 DEF Fail, MainReturn, Ended, vars, schedVars, chanVars
<1>17. QED
  BY <1>4, <1>5, <1>6, <1>7, <1>8, <1>9, <1>10, <1>11, <1>12, <1>13, <1>14, <1>15, <1>16
     DEF Next, FiberStep, Send, Recv, Schedule

LEMMA InitOnePlace == Init => OnePlace
  BY FibersAssumption
     DEF Init, OnePlace, RunQueueExact, ParkedOnce, NoRepeats, SeqRange, SendersOn, ReceiversOn

\* Every fiber is in exactly one place: it runs, it is queued once, it waits
\* once on one channel, or it is not yet or no longer alive.
THEOREM EveryFiberInOnePlace == Spec => []OnePlace
  BY InitOnePlace, NextOnePlace, TypeCorrect, PTL DEF Spec

-----------------------------------------------------------------------------
(* What a channel promises.  The fibers parked to send carry the end of the  *)
(* channel's line of values, the buffer holds its beginning.                 *)

Carried(s) == [i \in 1 .. Len(s) |-> s[i].val]

LEMMA CarriedSeq ==
  ASSUME NEW s \in Seq(Parked)
  PROVE  /\ Carried(s) \in Seq(Val)
         /\ Len(Carried(s)) = Len(s)
         /\ \A i \in 1 .. Len(s) : Carried(s)[i] = s[i].val
<1>1. Len(s) \in Nat /\ \A i \in 1 .. Len(s) : s[i].val \in Val
  <2>1. Len(s) \in Nat /\ \A i \in 1 .. Len(s) : s[i] \in Parked
    OBVIOUS
  <2>2. QED
    BY <2>1 DEF Parked
<1>2. Carried(s) \in [1 .. Len(s) -> Val]
  BY <1>1 DEF Carried
<1>3. QED
  BY <1>1, <1>2 DEF Carried

LEMMA CarriedEmpty == Carried(<<>>) = <<>>
  BY DEF Carried

LEMMA CarriedAppend ==
  ASSUME NEW s \in Seq(Parked), NEW p \in Parked
  PROVE  Carried(Append(s, p)) = Append(Carried(s), p.val)
<1> DEFINE u == Append(s, p)
           a == Carried(u)
           b == Append(Carried(s), p.val)
<1>1. /\ p.val \in Val /\ Len(s) \in Nat /\ u \in Seq(Parked) /\ Len(u) = Len(s) + 1
      /\ \A i \in 1 .. Len(s) : u[i] = s[i]
      /\ u[Len(s) + 1] = p
  <2>1. p.val \in Val
    BY DEF Parked
  <2>2. QED
    BY <2>1, AppendProperties
<1> HIDE DEF u
<1>2. /\ a \in Seq(Val) /\ Len(a) = Len(s) + 1
      /\ \A i \in 1 .. Len(s) + 1 : a[i] = u[i].val
  BY <1>1, CarriedSeq
<1>3. /\ b \in Seq(Val) /\ Len(b) = Len(s) + 1
      /\ \A i \in 1 .. Len(s) : b[i] = s[i].val
      /\ b[Len(s) + 1] = p.val
  BY <1>1, CarriedSeq
<1>4. \A i \in 1 .. Len(s) + 1 : a[i] = b[i]
  BY <1>1, <1>2, <1>3
<1> HIDE DEF a, b
<1>5. a = b
  BY <1>2, <1>3, <1>4, SeqEqual
<1>6. QED
  BY <1>5 DEF a, b, u

LEMMA CarriedTail ==
  ASSUME NEW s \in Seq(Parked), s # <<>>
  PROVE  /\ Carried(s) # <<>>
         /\ Head(Carried(s)) = Head(s).val
         /\ Carried(Tail(s)) = Tail(Carried(s))
<1> DEFINE u == Tail(s)
           a == Carried(u)
           b == Tail(Carried(s))
<1>1. Len(s) \in Nat /\ Len(s) >= 1 /\ u \in Seq(Parked) /\ Len(u) = Len(s) - 1
      /\ \A i \in 1 .. Len(s) - 1 : u[i] = s[i + 1]
  BY HeadTailProperties
<1> HIDE DEF u
<1>2. /\ Carried(s) \in Seq(Val) /\ Len(Carried(s)) = Len(s)
      /\ \A i \in 1 .. Len(s) : Carried(s)[i] = s[i].val
  BY CarriedSeq
<1>3. Carried(s) # <<>> /\ Head(Carried(s)) = Head(s).val
  BY <1>1, <1>2
<1>4. /\ a \in Seq(Val) /\ Len(a) = Len(s) - 1
      /\ \A i \in 1 .. Len(s) - 1 : a[i] = s[i + 1].val
  BY <1>1, CarriedSeq
<1>5. /\ b \in Seq(Val) /\ Len(b) = Len(s) - 1
      /\ \A i \in 1 .. Len(s) - 1 : b[i] = s[i + 1].val
  BY <1>1, <1>2, <1>3
<1> HIDE DEF a, b
<1>6. a = b
  BY <1>4, <1>5, SeqEqual
<1>7. QED
  BY <1>3, <1>6 DEF a, b, u

\* A value added behind the second part is added behind the whole.
LEMMA ConcatAppend ==
  ASSUME NEW S, NEW s \in Seq(S), NEW t \in Seq(S), NEW x \in S
  PROVE  s \o Append(t, x) = Append(s \o t, x)
<1> DEFINE a == s \o Append(t, x)
           b == Append(s \o t, x)
<1>1. Len(s) \in Nat /\ Len(t) \in Nat /\ Append(t, x) \in Seq(S) /\ Len(Append(t, x)) = Len(t) + 1
  OBVIOUS
<1>2. /\ a \in Seq(S) /\ Len(a) = Len(s) + Len(t) + 1
      /\ \A i \in 1 .. Len(s) + Len(t) + 1 :
           a[i] = IF i <= Len(s) THEN s[i] ELSE Append(t, x)[i - Len(s)]
  BY <1>1, ConcatProperties
<1>3. /\ s \o t \in Seq(S) /\ Len(s \o t) = Len(s) + Len(t)
      /\ \A i \in 1 .. Len(s) + Len(t) :
           (s \o t)[i] = IF i <= Len(s) THEN s[i] ELSE t[i - Len(s)]
  BY ConcatProperties
<1>4. /\ b \in Seq(S) /\ Len(b) = Len(s) + Len(t) + 1
      /\ \A i \in 1 .. Len(s) + Len(t) : b[i] = (s \o t)[i]
      /\ b[Len(s) + Len(t) + 1] = x
  BY <1>1, <1>3, AppendProperties
<1>5. /\ \A i \in 1 .. Len(t) : Append(t, x)[i] = t[i]
      /\ Append(t, x)[Len(t) + 1] = x
  BY <1>1, AppendProperties
<1> HIDE DEF a, b
<1>6. ASSUME NEW i \in 1 .. Len(s) + Len(t) + 1 PROVE a[i] = b[i]
  <2>1. CASE i <= Len(s)
    BY <1>1, <1>2, <1>3, <1>4, <2>1
  <2>2. CASE i > Len(s) /\ i <= Len(s) + Len(t)
    BY <1>1, <1>2, <1>3, <1>4, <1>5, <2>2
  <2>3. CASE i = Len(s) + Len(t) + 1
    BY <1>1, <1>2, <1>4, <1>5, <2>3
  <2>4. QED
    BY <1>1, <2>1, <2>2, <2>3
<1>7. a = b
  BY <1>2, <1>4, <1>6, SeqEqual
<1>8. QED
  BY <1>7 DEF a, b

\* What is taken from the front of the first part is taken from the whole.
LEMMA ConcatHeadTail ==
  ASSUME NEW S, NEW s \in Seq(S), NEW t \in Seq(S), s # <<>>
  PROVE  /\ s \o t # <<>>
         /\ Head(s \o t) = Head(s)
         /\ Tail(s \o t) = Tail(s) \o t
<1> DEFINE a == Tail(s \o t)
           b == Tail(s) \o t
<1>1. Len(s) \in Nat /\ Len(s) >= 1 /\ Len(t) \in Nat
      /\ Tail(s) \in Seq(S) /\ Len(Tail(s)) = Len(s) - 1
      /\ \A i \in 1 .. Len(s) - 1 : Tail(s)[i] = s[i + 1]
  BY HeadTailProperties
<1>2. /\ s \o t \in Seq(S) /\ Len(s \o t) = Len(s) + Len(t)
      /\ \A i \in 1 .. Len(s) + Len(t) :
           (s \o t)[i] = IF i <= Len(s) THEN s[i] ELSE t[i - Len(s)]
  BY ConcatProperties
<1>3. s \o t # <<>> /\ Head(s \o t) = Head(s)
  BY <1>1, <1>2
<1>4. /\ a \in Seq(S) /\ Len(a) = Len(s) + Len(t) - 1
      /\ \A i \in 1 .. Len(s) + Len(t) - 1 : a[i] = (s \o t)[i + 1]
  BY <1>1, <1>2, <1>3, HeadTailProperties
<1>5. /\ b \in Seq(S) /\ Len(b) = Len(s) + Len(t) - 1
      /\ \A i \in 1 .. Len(s) + Len(t) - 1 :
           b[i] = IF i <= Len(s) - 1 THEN Tail(s)[i] ELSE t[i - (Len(s) - 1)]
  BY <1>1, ConcatProperties
<1> HIDE DEF a, b
<1>6. ASSUME NEW i \in 1 .. Len(s) + Len(t) - 1 PROVE a[i] = b[i]
  BY <1>1, <1>2, <1>4, <1>5
<1>7. a = b
  BY <1>1, <1>4, <1>5, <1>6, SeqEqual
<1>8. QED
  BY <1>3, <1>7 DEF a, b

\* The head of the second part moves to the end of the first.
LEMMA MovesBetween ==
  ASSUME NEW S, NEW s \in Seq(S), NEW t \in Seq(S), t # <<>>
  PROVE  Append(s, Head(t)) \o Tail(t) = s \o t
<1> DEFINE h == Append(s, Head(t))
           r == Tail(t)
           a == h \o r
           b == s \o t
<1>1. /\ Len(s) \in Nat /\ Len(t) \in Nat /\ Len(t) >= 1
      /\ r \in Seq(S) /\ Len(r) = Len(t) - 1
      /\ \A i \in 1 .. Len(t) - 1 : r[i] = t[i + 1]
  BY HeadTailProperties
<1>2. /\ h \in Seq(S) /\ Len(h) = Len(s) + 1
      /\ \A i \in 1 .. Len(s) : h[i] = s[i]
      /\ h[Len(s) + 1] = t[1]
  BY AppendProperties
<1> HIDE DEF h, r
<1>3. /\ a \in Seq(S) /\ Len(a) = Len(s) + Len(t)
      /\ \A i \in 1 .. Len(s) + Len(t) :
           a[i] = IF i <= Len(s) + 1 THEN h[i] ELSE r[i - (Len(s) + 1)]
  <2>1. /\ a \in Seq(S) /\ Len(a) = Len(h) + Len(r)
        /\ \A i \in 1 .. Len(h) + Len(r) : a[i] = IF i <= Len(h) THEN h[i] ELSE r[i - Len(h)]
    BY <1>1, <1>2, ConcatProperties
  <2> HIDE DEF a
  <2>2. QED
    BY <1>1, <1>2, <2>1
<1>4. /\ b \in Seq(S) /\ Len(b) = Len(s) + Len(t)
      /\ \A i \in 1 .. Len(s) + Len(t) :
           b[i] = IF i <= Len(s) THEN s[i] ELSE t[i - Len(s)]
  BY ConcatProperties
<1> HIDE DEF a, b
<1>5. ASSUME NEW i \in 1 .. Len(s) + Len(t) PROVE a[i] = b[i]
  <2>1. CASE i <= Len(s)
    <3>1. i \in 1 .. Len(s) /\ i <= Len(s) + 1
      BY <1>1, <2>1
    <3>2. a[i] = h[i] /\ h[i] = s[i] /\ b[i] = s[i]
      BY <1>2, <1>3, <1>4, <3>1
    <3>3. QED
      BY <3>2
  <2>2. CASE i = Len(s) + 1
    <3>1. i <= Len(s) + 1 /\ ~(i <= Len(s)) /\ i - Len(s) = 1
      BY <1>1, <2>2
    <3>2. a[i] = h[i] /\ b[i] = t[1]
      BY <1>3, <1>4, <3>1
    <3>3. QED
      BY <1>2, <2>2, <3>2
  <2>3. CASE i > Len(s) + 1
    <3>1. i - (Len(s) + 1) \in 1 .. Len(t) - 1 /\ i - (Len(s) + 1) + 1 = i - Len(s)
      BY <1>1, <2>3
    <3>2. r[i - (Len(s) + 1)] = t[i - Len(s)]
      BY <1>1, <3>1
    <3>3. QED
      BY <1>1, <1>3, <1>4, <2>3, <3>2
  <2>4. QED
    BY <1>1, <2>1, <2>2, <2>3
<1>6. a = b
  BY <1>1, <1>3, <1>4, <1>5, SeqEqual
<1>7. QED
  BY <1>6 DEF a, b, h, r

\* One line is changed when only one channel's values are.
LEMMA OneLineChanges ==
  ASSUME NEW c \in Chan, NEW x,
         \A d \in Chan : d # c => buf'[d] = buf[d] /\ sendq'[d] = sendq[d],
         buf'[c] \o Carried(sendq'[c]) = x
  PROVE  Line' = [Line EXCEPT ![c] = x]
<1>1. Line = [d \in Chan |-> buf[d] \o Carried(sendq[d])]
      /\ Line' = [d \in Chan |-> buf'[d] \o Carried(sendq'[d])]
  BY DEF Line, Carried
<1>2. QED
  BY <1>1

LEMMA LineAt ==
  ASSUME TypeOK, NEW c \in Chan
  PROVE  /\ Line[c] = buf[c] \o Carried(sendq[c])
         /\ buf[c] \in Seq(Val) /\ sendq[c] \in Seq(Parked)
         /\ Carried(sendq[c]) \in Seq(Val)
         /\ sendq[c] = <<>> => Line[c] = buf[c]
         /\ buf[c] = <<>> => Line[c] = Carried(sendq[c])
<1>1. Line[c] = buf[c] \o Carried(sendq[c]) /\ buf[c] \in Seq(Val) /\ sendq[c] \in Seq(Parked)
  BY DEF Line, Carried, TypeOK
<1>2. Carried(sendq[c]) \in Seq(Val)
  BY <1>1, CarriedSeq
<1>3. QED
  BY <1>1, <1>2, CarriedEmpty, ConcatEmptySeq

\* Each opcode is a step of the channels' promise or leaves the lines, the
\* closed channels and the received values alone.
LEMMA ChannelStep ==
  TypeOK /\ NoLostWakeup /\ [Next]_vars => [Abstract!Next]_Abstract!lineVars
<1> SUFFICES ASSUME TypeOK, NoLostWakeup, [Next]_vars
             PROVE  Abstract!Next \/ UNCHANGED <<Line, closed, got>>
  BY DEF Abstract!lineVars
<1>1. ASSUME UNCHANGED <<buf, sendq, closed, got>>
      PROVE  UNCHANGED <<Line, closed, got>>
  BY <1>1 DEF Line
<1>2. ASSUME NEW c \in Chan, NEW v \in Val, SendToReceiver(c, v) PROVE Abstract!Next
  <2>1. /\ ~closed[c] /\ recvq[c] # <<>> /\ got' = [got EXCEPT ![Head(recvq[c])] = v]
        /\ UNCHANGED <<buf, sendq, closed>>
    BY <1>2 DEF SendToReceiver
  <2>2. buf[c] = <<>> /\ sendq[c] = <<>>
    BY <2>1 DEF NoLostWakeup
  <2>3. Line[c] = <<>>
    BY <2>2, LineAt
  <2>4. Head(recvq[c]) \in Fiber
    BY <2>1 DEF TypeOK
  <2>5. UNCHANGED <<Line, closed>>
    BY <2>1 DEF Line
  <2>6. Abstract!HandOver(Head(recvq[c]), c, v)
    BY <2>1, <2>3, <2>5 DEF Abstract!HandOver
  <2>7. QED
    BY <2>4, <2>6 DEF Abstract!Next
<1>3. ASSUME NEW c \in Chan, NEW v \in Val, SendToBuffer(c, v) PROVE Abstract!Next
  <2>1. /\ ~closed[c] /\ recvq[c] = <<>> /\ Len(buf[c]) < Capacity(c)
        /\ buf' = [buf EXCEPT ![c] = Append(@, v)]
        /\ UNCHANGED <<sendq, closed, got>>
    BY <1>3 DEF SendToBuffer
  <2>2. sendq[c] = <<>>
    BY <2>1, CapacityNat DEF NoLostWakeup
  <2>3. buf'[c] = Append(buf[c], v) /\ \A d \in Chan : d # c => buf'[d] = buf[d]
    BY <2>1 DEF TypeOK
  <2>4. buf'[c] \o Carried(sendq'[c]) = Append(Line[c], v)
    <3>1. Line[c] = buf[c] /\ Append(buf[c], v) \in Seq(Val)
      <4>1. Line[c] = buf[c] /\ buf[c] \in Seq(Val)
        BY <2>2, LineAt
      <4>2. QED
        BY <4>1
    <3>2. Carried(sendq'[c]) = <<>>
      BY <2>1, <2>2, CarriedEmpty
    <3>3. QED
      BY <2>3, <3>1, <3>2, ConcatEmptySeq
  <2>5. Line' = [Line EXCEPT ![c] = Append(Line[c], v)]
    BY <2>1, <2>3, <2>4, OneLineChanges
  <2>6. Abstract!Put(c, v)
    BY <2>1, <2>5 DEF Abstract!Put
  <2>7. QED
    BY <2>6 DEF Abstract!Next
<1>4. ASSUME NEW c \in Chan, NEW v \in Val, SendPark(c, v) PROVE Abstract!Next
  <2> DEFINE p == [fiber |-> cur, val |-> v]
  <2>1. /\ ~closed[c] /\ sendq' = [sendq EXCEPT ![c] = Append(@, p)]
        /\ UNCHANGED <<buf, closed, got>>
    BY <1>4 DEF SendPark
  <2>2. p \in Parked /\ p.val = v
    BY DEF Parked, TypeOK
  <2> HIDE DEF p
  <2>3. sendq'[c] = Append(sendq[c], p) /\ \A d \in Chan : d # c => sendq'[d] = sendq[d]
    BY <2>1 DEF TypeOK
  <2>4. Carried(sendq'[c]) = Append(Carried(sendq[c]), v)
    BY <2>2, <2>3, LineAt, CarriedAppend
  <2>5. buf'[c] \o Carried(sendq'[c]) = Append(Line[c], v)
    <3>1. /\ buf[c] \in Seq(Val) /\ Carried(sendq[c]) \in Seq(Val)
          /\ Line[c] = buf[c] \o Carried(sendq[c])
      BY LineAt
    <3>2. ASSUME NEW s \in Seq(Val), NEW t \in Seq(Val)
          PROVE  s \o Append(t, v) = Append(s \o t, v)
      BY ConcatAppend
    <3>3. QED
      BY <2>1, <2>4, <3>1, <3>2
  <2>6. Line' = [Line EXCEPT ![c] = Append(Line[c], v)]
    BY <2>1, <2>3, <2>5, OneLineChanges
  <2>7. Abstract!Put(c, v)
    BY <2>1, <2>6 DEF Abstract!Put
  <2>8. QED
    BY <2>7 DEF Abstract!Next
<1>5. ASSUME NEW c \in Chan, RecvFromBuffer(c) PROVE Abstract!Next
  <2>1. /\ buf[c] # <<>> /\ got' = [got EXCEPT ![cur] = Head(buf[c])] /\ closed' = closed
        /\ cur \in Fiber
    BY <1>5 DEF RecvFromBuffer, TypeOK
  <2>2. /\ buf[c] \in Seq(Val) /\ sendq[c] \in Seq(Parked) /\ Carried(sendq[c]) \in Seq(Val)
        /\ Line[c] = buf[c] \o Carried(sendq[c])
        /\ Tail(buf[c]) \in Seq(Val)
    <3>1. /\ buf[c] \in Seq(Val) /\ sendq[c] \in Seq(Parked) /\ Carried(sendq[c]) \in Seq(Val)
          /\ Line[c] = buf[c] \o Carried(sendq[c])
      BY LineAt
    <3>2. Tail(buf[c]) \in Seq(Val)
      BY <2>1, <3>1
    <3>3. QED
      BY <3>1, <3>2
  <2>3. /\ Line[c] # <<>> /\ Head(Line[c]) = Head(buf[c])
        /\ Tail(Line[c]) = Tail(buf[c]) \o Carried(sendq[c])
    BY <2>1, <2>2, ConcatHeadTail
  <2>4. /\ \A d \in Chan : d # c => buf'[d] = buf[d] /\ sendq'[d] = sendq[d]
        /\ buf'[c] \o Carried(sendq'[c]) = Tail(Line[c])
    <3>1. CASE sendq[c] # <<>>
      <4>1. /\ buf' = [buf EXCEPT ![c] = Append(Tail(@), ParkedValue(c))]
            /\ sendq' = [sendq EXCEPT ![c] = Tail(@)]
        BY <1>5, <3>1 DEF RecvFromBuffer
      <4>2. /\ buf'[c] = Append(Tail(buf[c]), ParkedValue(c)) /\ sendq'[c] = Tail(sendq[c])
            /\ \A d \in Chan : d # c => buf'[d] = buf[d] /\ sendq'[d] = sendq[d]
        BY <4>1 DEF TypeOK
      <4>3. /\ Carried(sendq[c]) # <<>> /\ Head(Carried(sendq[c])) = ParkedValue(c)
            /\ Carried(sendq'[c]) = Tail(Carried(sendq[c]))
        BY <2>2, <3>1, <4>2, CarriedTail DEF ParkedValue
      <4>4. buf'[c] \o Carried(sendq'[c]) = Tail(buf[c]) \o Carried(sendq[c])
        <5>1. Append(Tail(buf[c]), Head(Carried(sendq[c]))) \o Tail(Carried(sendq[c]))
                = Tail(buf[c]) \o Carried(sendq[c])
          BY <2>2, <4>3, MovesBetween
        <5>2. QED
          BY <4>2, <4>3, <5>1
      <4>5. QED
        BY <2>3, <4>2, <4>4
    <3>2. CASE sendq[c] = <<>>
      <4>1. buf' = [buf EXCEPT ![c] = Tail(@)] /\ sendq' = sendq
        BY <1>5, <3>2 DEF RecvFromBuffer
      <4>2. buf'[c] = Tail(buf[c]) /\ \A d \in Chan : d # c => buf'[d] = buf[d]
        BY <4>1 DEF TypeOK
      <4>3. QED
        BY <2>3, <4>1, <4>2
    <3>3. QED
      BY <3>1, <3>2
  <2>5. Line' = [Line EXCEPT ![c] = Tail(Line[c])]
    BY <2>4, OneLineChanges
  <2>6. Abstract!Take(cur, c)
    BY <2>1, <2>3, <2>5 DEF Abstract!Take
  <2>7. QED
    BY <2>1, <2>6 DEF Abstract!Next
<1>6. ASSUME NEW c \in Chan, RecvFromSender(c) PROVE Abstract!Next
  <2>1. /\ buf[c] = <<>> /\ sendq[c] # <<>> /\ got' = [got EXCEPT ![cur] = ParkedValue(c)]
        /\ sendq' = [sendq EXCEPT ![c] = Tail(@)] /\ UNCHANGED <<buf, closed>>
        /\ cur \in Fiber
    BY <1>6 DEF RecvFromSender, TypeOK
  <2>2. sendq'[c] = Tail(sendq[c]) /\ \A d \in Chan : d # c => sendq'[d] = sendq[d]
    BY <2>1 DEF TypeOK
  <2>3. Line[c] = Carried(sendq[c]) /\ sendq[c] \in Seq(Parked) /\ Carried(sendq[c]) \in Seq(Val)
    BY <2>1, LineAt
  <2>4. /\ Carried(sendq[c]) # <<>> /\ Head(Carried(sendq[c])) = ParkedValue(c)
        /\ Carried(sendq'[c]) = Tail(Carried(sendq[c]))
    BY <2>1, <2>2, <2>3, CarriedTail DEF ParkedValue
  <2>5. buf'[c] \o Carried(sendq'[c]) = Tail(Line[c])
    <3>1. Tail(Carried(sendq[c])) \in Seq(Val)
      BY <2>3, <2>4
    <3>2. QED
      BY <2>1, <2>3, <2>4, <3>1, ConcatEmptySeq
  <2>6. Line' = [Line EXCEPT ![c] = Tail(Line[c])]
    BY <2>1, <2>2, <2>5, OneLineChanges
  <2>7. Abstract!Take(cur, c)
    BY <2>1, <2>3, <2>4, <2>6 DEF Abstract!Take
  <2>8. QED
    BY <2>1, <2>7 DEF Abstract!Next
<1>7. ASSUME NEW c \in Chan, RecvClosed(c) PROVE Abstract!Next
  <2>1. /\ buf[c] = <<>> /\ sendq[c] = <<>> /\ closed[c] /\ got' = [got EXCEPT ![cur] = Nil]
        /\ UNCHANGED <<buf, sendq, closed>> /\ cur \in Fiber
    BY <1>7 DEF RecvClosed, chanVars, TypeOK
  <2>2. Line[c] = <<>> /\ UNCHANGED <<Line, closed>>
    <3>1. Line[c] = <<>>
      BY <2>1, LineAt
    <3>2. QED
      BY <2>1, <3>1 DEF Line
  <2>3. Abstract!TakeNil(cur, c)
    BY <2>1, <2>2 DEF Abstract!TakeNil
  <2>4. QED
    BY <2>1, <2>3 DEF Abstract!Next
<1>8. ASSUME NEW c \in Chan, Close(c) PROVE Abstract!Next
  <2> DEFINE waiting == SeqRange(recvq[c])
  <2>1. /\ closed' = [closed EXCEPT ![c] = TRUE]
        /\ got' = [f \in Fiber |-> IF f \in waiting THEN Nil ELSE got[f]]
        /\ UNCHANGED <<buf, sendq>>
    BY <1>8 DEF Close
  <2>2. waiting \subseteq Fiber
    BY DEF SeqRange, TypeOK
  <2>3. waiting # {} => Line[c] = <<>>
    <3>1. waiting # {} => recvq[c] # <<>>
      BY DEF SeqRange
    <3>2. recvq[c] # <<>> => buf[c] = <<>> /\ sendq[c] = <<>>
      BY DEF NoLostWakeup
    <3>3. QED
      BY <3>1, <3>2, LineAt
  <2>4. Line' = Line
    BY <2>1 DEF Line
  <2>5. Abstract!Shut(c, waiting)
    BY <2>1, <2>3, <2>4 DEF Abstract!Shut
  <2>6. QED
    BY <2>2, <2>5 DEF Abstract!Next
<1>9. ASSUME \/ \E f \in Fiber : Spawn(f)
             \/ \E c \in Chan : SendClosed(c) \/ RecvPark(c)
             \/ \E code \in Endings : Fail(code)
             \/ MainReturn \/ FiberReturn \/ Schedule \/ Ended \/ UNCHANGED vars
      PROVE  UNCHANGED <<buf, sendq, closed, got>>
  BY <1>9 DEF Spawn, SendClosed, RecvPark, Fail, MainReturn, FiberReturn, Schedule,
              SwitchTo, NothingToRun, Ended, vars, chanVars, schedVars
<1>10. QED
  BY <1>1, <1>2, <1>3, <1>4, <1>5, <1>6, <1>7, <1>8, <1>9
     DEF Next, FiberStep, Send, Recv

\* The channels of the machine keep the promise of Channel<T>: with any number
\* of fibers, any capacities and any schedule, every value that is sent goes
\* through the one line of its channel and out of it once, in order, and nil is
\* received from a closed and empty channel only.
THEOREM ChannelPromiseKept == Spec => KeepsChannelPromise
<1>1. Init => Abstract!Init
  <2> SUFFICES ASSUME Init PROVE Abstract!Init
    OBVIOUS
  <2>1. Line = [c \in Chan |-> <<>>]
    BY CarriedEmpty, ConcatEmptySeq DEF Init, Line, Carried
  <2>2. QED
    BY <2>1 DEF Init, Abstract!Init
<1>2. QED
  BY <1>1, ChannelStep, TypeCorrect, NoWakeupIsLost, PTL
     DEF Spec, KeepsChannelPromise, Abstract!Spec

-----------------------------------------------------------------------------
(* The rendezvous.  Only the two receives that find a parked sender take     *)
(* anyone out of a send queue, and on an unbuffered channel there is nothing *)
(* in the buffer to be received first.                                       *)

GoesOnlyTaken(c, f) ==
  (Capacity(c) = 0 /\ f \in SendersOn(c) /\ f \notin SendersOn(c)') =>
    \E i \in 1 .. Len(sendq[c]) : sendq[c][i].fiber = f /\ got'[cur] = sendq[c][i].val

LEMMA SendersMeetReceivers ==
  ASSUME TypeOK, NoLostWakeup, [Next]_vars, NEW c \in Chan, NEW f \in Fiber
  PROVE  GoesOnlyTaken(c, f)
<1> SUFFICES ASSUME Capacity(c) = 0, f \in SendersOn(c), f \notin SendersOn(c)'
             PROVE  \E i \in 1 .. Len(sendq[c]) :
                      sendq[c][i].fiber = f /\ got'[cur] = sendq[c][i].val
  BY DEF GoesOnlyTaken
<1>1. ASSUME sendq'[c] = sendq[c] PROVE FALSE
  BY <1>1 DEF SendersOn
<1>2. sendq[c] \in Seq(Parked) /\ Len(sendq[c]) \in Nat /\ got \in [Fiber -> Val \cup {Nil}]
      /\ cur \in Fiber
  BY DEF TypeOK
<1>3. CASE \E d \in Chan, v \in Val : SendPark(d, v)
  <2>1. PICK d \in Chan, v \in Val : SendPark(d, v)
    BY <1>3
  <2>2. sendq' = [sendq EXCEPT ![d] = Append(@, [fiber |-> cur, val |-> v])]
    BY <2>1 DEF SendPark
  <2>3. CASE d # c
    BY <1>1, <2>2, <2>3 DEF TypeOK
  <2>4. CASE d = c
    <3>1. [fiber |-> cur, val |-> v] \in Parked
      BY <1>2 DEF Parked
    <3>2. sendq'[c] = Append(sendq[c], [fiber |-> cur, val |-> v])
      BY <2>2, <2>4 DEF TypeOK
    <3>3. /\ Len(sendq'[c]) = Len(sendq[c]) + 1
          /\ \A i \in 1 .. Len(sendq[c]) : sendq'[c][i] = sendq[c][i]
      BY <1>2, <3>1, <3>2, AppendProperties
    <3>4. f \in SendersOn(c)'
      BY <1>2, <3>3 DEF SendersOn
    <3>5. QED
      BY <3>4
  <2>5. QED
    BY <2>3, <2>4
<1>4. CASE \E d \in Chan : RecvFromBuffer(d)
  <2>1. PICK d \in Chan : RecvFromBuffer(d)
    BY <1>4
  <2>2. d # c
    <3>1. buf[d] # <<>> /\ buf[d] \in Seq(Val)
      BY <2>1 DEF RecvFromBuffer, TypeOK
    <3>2. Len(buf[d]) > 0 /\ Len(buf[d]) <= Capacity(d)
      BY <3>1 DEF NoLostWakeup
    <3>3. QED
      BY <3>2
  <2>3. sendq'[c] = sendq[c]
    BY <2>1, <2>2 DEF RecvFromBuffer, TypeOK
  <2>4. QED
    BY <1>1, <2>3
<1>5. CASE \E d \in Chan : RecvFromSender(d)
  <2>1. PICK d \in Chan : RecvFromSender(d)
    BY <1>5
  <2>2. /\ sendq[d] # <<>> /\ got' = [got EXCEPT ![cur] = ParkedValue(d)]
        /\ sendq' = [sendq EXCEPT ![d] = Tail(@)]
    BY <2>1 DEF RecvFromSender
  <2>3. d = c
    BY <1>1, <2>2 DEF TypeOK
  <2>4. /\ sendq'[c] = Tail(sendq[c]) /\ Len(sendq[c]) >= 1
        /\ Len(Tail(sendq[c])) = Len(sendq[c]) - 1
        /\ \A i \in 1 .. Len(sendq[c]) - 1 : Tail(sendq[c])[i] = sendq[c][i + 1]
    <3>1. sendq'[c] = Tail(sendq[c])
      BY <2>2, <2>3 DEF TypeOK
    <3>2. QED
      BY <1>2, <2>2, <2>3, <3>1, HeadTailProperties
  <2>5. PICK i \in 1 .. Len(sendq[c]) : sendq[c][i].fiber = f
    BY DEF SendersOn
  <2>6. i = 1
    <3>1. SUFFICES ASSUME i # 1 PROVE FALSE
      OBVIOUS
    <3>2. i - 1 \in 1 .. Len(sendq'[c]) /\ sendq'[c][i - 1].fiber = f
      BY <1>2, <2>4, <2>5, <3>1
    <3>3. f \in SendersOn(c)'
      BY <3>2 DEF SendersOn
    <3>4. QED
      BY <3>3
  <2>7. got'[cur] = sendq[c][1].val
    BY <1>2, <2>2, <2>3 DEF ParkedValue
  <2>8. QED
    BY <2>5, <2>6, <2>7
<1>6. CASE \/ \E g \in Fiber : Spawn(g)
           \/ \E d \in Chan : \/ SendClosed(d) \/ RecvClosed(d) \/ RecvPark(d) \/ Close(d)
                              \/ \E v \in Val : SendToReceiver(d, v) \/ SendToBuffer(d, v)
           \/ \E code \in Endings : Fail(code)
           \/ MainReturn \/ FiberReturn \/ Schedule \/ Ended \/ UNCHANGED vars
  <2>1. sendq' = sendq
    BY <1>6 DEF Spawn, SendClosed, RecvClosed, RecvPark, Close, SendToReceiver, SendToBuffer,
                Fail, MainReturn, FiberReturn, Schedule, SwitchTo, NothingToRun, Ended,
                vars, chanVars, schedVars
  <2>2. QED
    BY <1>1, <2>1
<1>7. QED
  BY <1>3, <1>4, <1>5, <1>6 DEF Next, FiberStep, Send, Recv

\* On an unbuffered channel a fiber that waits to send goes on only when the
\* fiber that runs takes its value: a Send never returns before its Receive.
THEOREM SendWaitsForReceive == Spec => Rendezvous
<1>1. TypeOK /\ NoLostWakeup /\ [Next]_vars =>
        [\A c \in Chan, f \in Fiber :
           (Capacity(c) = 0 /\ f \in SendersOn(c) /\ f \notin SendersOn(c)') =>
             \E i \in 1 .. Len(sendq[c]) :
               sendq[c][i].fiber = f /\ got'[cur] = sendq[c][i].val]_vars
  BY SendersMeetReceivers DEF GoesOnlyTaken
<1>2. QED
  BY <1>1, TypeCorrect, NoWakeupIsLost, PTL DEF Spec, Rendezvous

-----------------------------------------------------------------------------
(* Turns.  The queue holds only fibers that can run, so that                 *)
(* dequeueRunnable, which drops what cannot, always takes the first.         *)

Turn(i) ==
  \/ cur' = cur /\ i <= Len(runq') /\ runq'[i] = runq[i]
  \/ cur' # cur /\ i = 1 /\ cur' = runq[1]
  \/ cur' # cur /\ i > 1 /\ i - 1 <= Len(runq') /\ runq'[i - 1] = runq[i]

\* What is put behind the queue changes no turn.
LEMMA TurnsBehind ==
  ASSUME TypeOK, cur' = cur, NEW more \in Seq(Fiber), runq' = runq \o more, NEW i \in 1 .. Len(runq)
  PROVE  Turn(i)
<1>1. runq \in Seq(Fiber) /\ Len(runq) \in Nat /\ Len(more) \in Nat
  BY DEF TypeOK
<1>2. Len(runq \o more) = Len(runq) + Len(more) /\ (runq \o more)[i] = runq[i]
  BY <1>1
<1>3. i <= Len(runq') /\ runq'[i] = runq[i]
  BY <1>1, <1>2
<1>4. QED
  BY <1>3 DEF Turn

LEMMA WokenBehind ==
  ASSUME TypeOK, cur' = cur, NEW f \in Fiber, Wake(f), NEW i \in 1 .. Len(runq)
  PROVE  Turn(i)
<1>1. runq' = Append(runq, f) /\ runq \in Seq(Fiber) /\ Len(runq) \in Nat
  BY DEF Wake, TypeOK
<1>2. i <= Len(runq') /\ runq'[i] = runq[i]
  BY <1>1
<1>3. QED
  BY <1>2 DEF Turn

LEMMA TurnsTaken ==
  ASSUME TypeOK, OnePlace, Next, ~halted', NEW i \in 1 .. Len(runq)
  PROVE  Turn(i)
<1>1. /\ runq \in Seq(Fiber) /\ Len(runq) \in Nat /\ cur \in Fiber
      /\ recvq \in [Chan -> Seq(Fiber)] /\ sendq \in [Chan -> Seq(Parked)]
  BY DEF TypeOK
<1>2. ASSUME UNCHANGED <<cur, runq>> PROVE Turn(i)
  BY <1>1, <1>2 DEF Turn
<1>3. ASSUME NEW f \in Fiber, Spawn(f) PROVE Turn(i)
  BY <1>3, WokenBehind DEF Spawn
<1>4. ASSUME NEW c \in Chan, Send(c) PROVE Turn(i)
  <2>1. CASE SendClosed(c)
    BY <1>2, <2>1 DEF SendClosed, schedVars
  <2>2. ASSUME NEW v \in Val, SendToReceiver(c, v) PROVE Turn(i)
    <3>1. Head(recvq[c]) \in Fiber
      BY <1>1, <2>2 DEF SendToReceiver
    <3>2. QED
      BY <2>2, <3>1, WokenBehind DEF SendToReceiver
  <2>3. ASSUME NEW v \in Val, SendToBuffer(c, v) \/ SendPark(c, v) PROVE Turn(i)
    BY <1>2, <2>3 DEF SendToBuffer, SendPark, schedVars
  <2>4. QED
    BY <1>4, <2>1, <2>2, <2>3 DEF Send
<1>5. ASSUME NEW c \in Chan, Recv(c) PROVE Turn(i)
  <2>1. sendq[c] # <<>> => Head(sendq[c]).fiber \in Fiber
    <3>1. sendq[c] \in Seq(Parked)
      BY <1>1
    <3>2. sendq[c] # <<>> => Head(sendq[c]) \in Parked
      BY <3>1
    <3>3. QED
      BY <3>2 DEF Parked
  <2>2. CASE RecvFromBuffer(c)
    <3>1. cur' = cur
      BY <2>2 DEF RecvFromBuffer
    <3>2. CASE sendq[c] # <<>>
      BY <2>1, <2>2, <3>1, <3>2, WokenBehind DEF RecvFromBuffer
    <3>3. CASE ~(sendq[c] # <<>>)
      BY <1>2, <2>2, <3>1, <3>3 DEF RecvFromBuffer
    <3>4. QED
      BY <3>2, <3>3
  <2>3. CASE RecvFromSender(c)
    BY <2>1, <2>3, WokenBehind DEF RecvFromSender
  <2>4. CASE RecvClosed(c) \/ RecvPark(c)
    BY <1>2, <2>4 DEF RecvClosed, RecvPark, schedVars
  <2>5. QED
    BY <1>5, <2>2, <2>3, <2>4 DEF Recv
<1>6. ASSUME NEW c \in Chan, Close(c) PROVE Turn(i)
  <2>1. recvq[c] \in Seq(Fiber) /\ runq' = runq \o recvq[c] /\ cur' = cur
    BY <1>1, <1>6 DEF Close
  <2>2. QED
    BY <2>1, TurnsBehind
<1>7. CASE (\E code \in Endings : Fail(code)) \/ MainReturn \/ NothingToRun \/ Ended
  BY <1>7 DEF Fail, MainReturn, NothingToRun, Ended, Halt, vars
<1>8. CASE FiberReturn
  BY <1>2, <1>8 DEF FiberReturn
<1>9. CASE SwitchTo
  <2>1. status[cur] # "runnable"
    BY <1>9 DEF SwitchTo
  \* The first of the queue can run, and is therefore the one that is taken.
  <2>2. 1 \in Runnable /\ runq[1] # cur
    <3>1. 1 \in 1 .. Len(runq)
      BY <1>1
    <3>2. runq[1] \in SeqRange(runq) /\ runq[1] \in Fiber
      BY <1>1, <3>1 DEF SeqRange
    <3>3. status[runq[1]] = "runnable" /\ runq[1] # cur
      BY <3>2 DEF OnePlace, RunQueueExact
    <3>4. QED
      BY <3>1, <3>3 DEF Runnable
  <2>3. cur' = runq[1] /\ runq' = SubSeq(runq, 2, Len(runq))
    <3>1. PICK k \in Runnable : /\ \A j \in Runnable : k <= j
                                /\ cur' = runq[k]
                                /\ runq' = SubSeq(runq, k + 1, Len(runq))
      BY <1>9 DEF SwitchTo
    <3>2. k \in 1 .. Len(runq) /\ k <= 1
      BY <2>2, <3>1 DEF Runnable
    <3>3. k = 1
      BY <1>1, <3>2
    <3>4. QED
      BY <3>1, <3>3
  <2>4. CASE i = 1
    BY <2>2, <2>3, <2>4 DEF Turn
  <2>5. CASE i # 1
    <3>1. i > 1 /\ i - 1 <= Len(runq') /\ runq'[i - 1] = runq[i]
      BY <1>1, <2>3, <2>5
    <3>2. QED
      BY <2>2, <2>3, <3>1 DEF Turn
  <2>6. QED
    BY <2>4, <2>5
<1>10. QED
  BY <1>3, <1>4, <1>5, <1>6, <1>7, <1>8, <1>9 DEF Next, FiberStep, Schedule

\* With any number of fibers and channels, a fiber that can run gets the machine
\* after at most as many switches as there are fibers before it: the fairness
\* among fibers that the model does not assume is one that the queue gives.
THEOREM FibersTakeTurns == Spec => TakesTurns
<1>1. TypeOK /\ OnePlace /\ [Next]_vars => [~halted' => \A i \in 1 .. Len(runq) : Turn(i)]_vars
  BY TurnsTaken
<1>2. QED
  BY <1>1, TypeCorrect, EveryFiberInOnePlace, PTL DEF Spec, TakesTurns, Turn
=============================================================================
