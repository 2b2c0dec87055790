-------------------------- MODULE ExceptionsProofs --------------------------
(* Proofs about the handler stack, for programs of every kind: also those    *)
(* that leave try statements by exit or by a jump and whose cleanups call    *)
(* builtins.                                                                 *)
EXTENDS Exceptions, SequenceTheorems, TLAPS

IInv == TypeOK /\ HandlersNested

LEMMA PrefixProperties ==
  ASSUME NEW S, NEW s \in Seq(S), NEW n \in 0 .. Len(s)
  PROVE  /\ SubSeq(s, 1, n) \in Seq(S)
         /\ Len(SubSeq(s, 1, n)) = n
         /\ \A i \in 1 .. n : SubSeq(s, 1, n)[i] = s[i]
<1>1. \A i \in 1 .. n : s[i] \in S
  OBVIOUS
<1>2. n \in Int /\ 1 \in Int
  OBVIOUS
<1>3. /\ SubSeq(s, 1, n) \in Seq(S)
      /\ Len(SubSeq(s, 1, n)) = IF 1 <= n THEN n - 1 + 1 ELSE 0
      /\ \A i \in 1 .. n - 1 + 1 : SubSeq(s, 1, n)[i] = s[1 + i - 1]
  BY <1>1, <1>2, SubSeqProperties
<1>4. QED
  BY <1>3

LEMMA FrontProperties ==
  ASSUME NEW S, NEW s \in Seq(S), s # <<>>
  PROVE  /\ Front(s) \in Seq(S)
         /\ Len(s) \in Nat \ {0}
         /\ Len(Front(s)) = Len(s) - 1
         /\ \A i \in 1 .. Len(s) - 1 : Front(s)[i] = s[i]
         /\ Last(s) \in S
<1>1. Len(s) \in Nat \ {0} /\ Len(s) - 1 \in 0 .. Len(s)
  OBVIOUS
<1>2. /\ SubSeq(s, 1, Len(s) - 1) \in Seq(S)
      /\ Len(SubSeq(s, 1, Len(s) - 1)) = Len(s) - 1
      /\ \A i \in 1 .. Len(s) - 1 : SubSeq(s, 1, Len(s) - 1)[i] = s[i]
  BY <1>1, PrefixProperties
<1>3. s[Len(s)] \in S
  BY <1>1
<1>4. QED
  BY <1>1, <1>2, <1>3 DEF Front, Last

\* A prefix of the handlers, over the same or more frames, is still nested.
LEMMA PrefixNested ==
  ASSUME IInv, NEW n \in 0 .. Len(handlers), handlers' = SubSeq(handlers, 1, n),
         Len(frames') \in Nat,
         \A i \in 1 .. n : handlers[i].depth <= Len(frames')
  PROVE  handlers' \in Seq(Handler) /\ HandlersNested'
<1>1. /\ handlers' \in Seq(Handler)
      /\ Len(handlers') = n
      /\ \A i \in 1 .. n : handlers'[i] = handlers[i]
  BY PrefixProperties DEF IInv, TypeOK
<1>2. n \in Nat /\ n <= Len(handlers) /\ Len(handlers) \in Nat
  BY DEF IInv, TypeOK
<1>3. \A i \in 1 .. n : handlers[i].depth \in 1 .. Len(frames)
  BY <1>2 DEF IInv, HandlersNested
<1>4. Len(frames) \in Nat
  BY DEF IInv, TypeOK
<1>5. \A i \in 1 .. n : handlers[i].depth \in 1 .. Len(frames')
  BY <1>3, <1>4
<1>6. \A i, j \in 1 .. n : i <= j => handlers[i].depth <= handlers[j].depth
  BY <1>2 DEF IInv, HandlersNested
<1>7. QED
  BY <1>1, <1>5, <1>6 DEF HandlersNested

\* Moving on in the running routine keeps the call stack's shape.
LEMMA MoveKeepsShape ==
  ASSUME IInv, NEW place \in Place, MoveTo(place)
  PROVE  frames' \in Seq(Place) \ {<<>>} /\ Len(frames') = Len(frames)
<1>1. Len(frames) \in 1 .. Len(frames)
  BY DEF IInv, TypeOK
<1>2. QED
  BY <1>1, ExceptSeq DEF IInv, TypeOK, MoveTo, Top

LEMMA SameDepthNested ==
  ASSUME IInv, Len(frames') = Len(frames), UNCHANGED handlers
  PROVE  HandlersNested'
  BY DEF IInv, HandlersNested

LEMMA HereProperties ==
  ASSUME IInv
  PROVE  Here \in Place /\ Top \in Nat \ {0} /\ Top = Len(frames)
  BY DEF IInv, TypeOK, Here, Top

\* A statement left at its end or by a jump, the machine's handlers untouched.
LEMMA LeaveStatements ==
  ASSUME IInv, NEW n \in 0 .. Len(Here), MoveTo(SubSeq(Here, 1, n)),
         UNCHANGED handlers
  PROVE  frames' \in Seq(Place) \ {<<>>} /\ HandlersNested'
<1>1. SubSeq(Here, 1, n) \in Place
  BY HereProperties, PrefixProperties DEF Place
<1>2. QED
  BY <1>1, MoveKeepsShape, SameDepthNested

LEMMA LeaveLast ==
  ASSUME IInv, Here # <<>>, MoveTo(Front(Here)), UNCHANGED handlers
  PROVE  frames' \in Seq(Place) \ {<<>>} /\ HandlersNested'
<1>1. Front(Here) \in Place
  BY HereProperties, FrontProperties DEF Place
<1>2. QED
  BY <1>1, MoveKeepsShape, SameDepthNested

LEMMA UnwindInv ==
  ASSUME IInv, Unwind, excValue' \in Values
  PROVE  IInv'
<1>1. CASE handlers = <<>>
  BY <1>1 DEF Unwind, IInv, TypeOK, HandlersNested
<1>2. CASE handlers # <<>>
  <2> DEFINE n == Len(handlers)
             h == Last(handlers)
             entry == [kind |-> IF h.isFinally THEN "unwinding" ELSE "except",
                       left |-> h.left]
  <2>1. n \in Nat \ {0} /\ h \in Handler /\ h = handlers[n]
    BY <1>2, FrontProperties DEF IInv, TypeOK, Last
  <2>2. h.depth \in 1 .. Len(frames) /\ Len(frames) \in Nat
    BY <2>1 DEF IInv, HandlersNested, TypeOK
  <2>3. entry \in Statement
    BY <2>1 DEF Handler, Statement, Kinds, Cleanups
  <2>4. Append(h.place, entry) \in Place
    BY <2>1, <2>3 DEF Handler, Place
  <2>5. /\ SubSeq(frames, 1, h.depth) \in Seq(Place)
        /\ Len(SubSeq(frames, 1, h.depth)) = h.depth
    BY <2>2, PrefixProperties DEF IInv, TypeOK
  <2>6. frames' = [SubSeq(frames, 1, h.depth) EXCEPT ![h.depth] = Append(h.place, entry)]
    BY <1>2 DEF Unwind
  <2>7. frames' \in Seq(Place) /\ Len(frames') = h.depth
    <3>1. h.depth \in 1 .. Len(SubSeq(frames, 1, h.depth))
      BY <2>2, <2>5
    <3>2. QED
      BY <2>4, <2>5, <2>6, <3>1, ExceptSeq
  <2>8. frames' # <<>>
    BY <2>2, <2>7
  <2>9. n - 1 \in 0 .. Len(handlers) /\ handlers' = SubSeq(handlers, 1, n - 1)
    BY <1>2, <2>1 DEF Unwind, Front
  <2>10. \A i \in 1 .. n - 1 : handlers[i].depth <= Len(frames')
    BY <2>1, <2>7 DEF IInv, HandlersNested
  <2>11. handlers' \in Seq(Handler) /\ HandlersNested'
    <3>1. Len(frames') \in Nat
      BY <2>2, <2>7
    <3>2. QED
      BY <2>9, <2>10, <3>1, PrefixNested
  <2>12. excActive' \in BOOLEAN
    BY <1>2, <2>1 DEF Unwind, StillActive, Handler
  <2>13. QED
    BY <1>2, <2>7, <2>8, <2>11, <2>12 DEF Unwind, IInv, TypeOK
<1>3. QED
  BY <1>1, <1>2

LEMMA NextIInv == IInv /\ [Next]_vars => IInv'
<1> SUFFICES ASSUME IInv, [Next]_vars PROVE IInv'
  OBVIOUS
<1> USE ExceptionsAssumption
<1>1. ASSUME NEW kind \in TryBodies, NEW left \in 0 .. MaxCleanup, EnterTry(kind, left)
      PROVE  IInv'
  <2> DEFINE new == [depth |-> Top, place |-> Here,
                     isFinally |-> kind = "try_finally", left |-> left]
  <2>1. new \in Handler
    BY HereProperties DEF Handler
  <2>2. [kind |-> kind, left |-> left] \in Statement
    BY DEF Statement, Kinds
  <2>3. Append(Here, [kind |-> kind, left |-> left]) \in Place
    BY <2>2, HereProperties DEF Place
  <2>4. frames' \in Seq(Place) \ {<<>>} /\ Len(frames') = Len(frames)
    BY <1>1, <2>3, MoveKeepsShape DEF EnterTry
  <2>5. /\ handlers' \in Seq(Handler)
        /\ Len(handlers') = Len(handlers) + 1
        /\ \A i \in 1 .. Len(handlers) : handlers'[i] = handlers[i]
        /\ handlers'[Len(handlers) + 1] = new
    BY <1>1, <2>1, AppendProperties DEF EnterTry, IInv, TypeOK
  <2>6. new.depth = Len(frames) /\ Len(frames) \in Nat \ {0}
    BY HereProperties
  <2>7. Len(handlers) \in Nat
    BY DEF IInv, TypeOK
  <2>8. \A i \in 1 .. Len(handlers') : handlers'[i].depth \in 1 .. Len(frames')
    <3>1. ASSUME NEW i \in 1 .. Len(handlers)
          PROVE  handlers'[i].depth \in 1 .. Len(frames')
      BY <2>4, <2>5 DEF IInv, HandlersNested
    <3>2. handlers'[Len(handlers) + 1].depth \in 1 .. Len(frames')
      BY <2>4, <2>5, <2>6
    <3>3. QED
      BY <2>5, <2>7, <3>1, <3>2
  <2>9. \A i, j \in 1 .. Len(handlers') : i <= j => handlers'[i].depth <= handlers'[j].depth
    <3> SUFFICES ASSUME NEW i \in 1 .. Len(handlers'), NEW j \in 1 .. Len(handlers'),
                        i <= j
                 PROVE  handlers'[i].depth <= handlers'[j].depth
      OBVIOUS
    <3>1. CASE j <= Len(handlers)
      <4>1. i \in 1 .. Len(handlers) /\ j \in 1 .. Len(handlers)
        BY <2>7, <3>1
      <4>2. handlers'[i] = handlers[i] /\ handlers'[j] = handlers[j]
        BY <2>5, <4>1
      <4>3. QED
        BY <4>1, <4>2 DEF IInv, HandlersNested
    <3>2. CASE j = Len(handlers) + 1
      BY <2>4, <2>5, <2>6, <2>8, <3>2
    <3>3. QED
      BY <2>5, <2>7, <3>1, <3>2
  <2>10. QED
    BY <1>1, <2>4, <2>5, <2>8, <2>9 DEF EnterTry, IInv, TypeOK, HandlersNested
<1>2. CASE EndTryBody
  <2>1. Here # <<>> /\ Here \in Place
    BY <1>2, HereProperties DEF EndTryBody, Inside
  <2>2. Front(Here) \in Place /\ Last(Here) \in Statement
    BY <2>1, FrontProperties DEF Place
  <2>3. [Last(Here) EXCEPT !.kind = "normal"] \in Statement
    BY <2>2 DEF Statement, Kinds, Cleanups
  <2>4. Append(Front(Here), [Last(Here) EXCEPT !.kind = "normal"]) \in Place
    BY <2>2, <2>3 DEF Place
  <2>5. PICK place \in Place : MoveTo(place)
    BY <1>2, <2>2, <2>4 DEF EndTryBody
  <2>6. frames' \in Seq(Place) \ {<<>>} /\ Len(frames') = Len(frames)
    BY <2>5, MoveKeepsShape
  <2>7. handlers' \in Seq(Handler) /\ HandlersNested'
    <3>1. CASE handlers = <<>>
      BY <1>2, <2>6, <3>1, SameDepthNested DEF EndTryBody, PopTry, IInv, TypeOK
    <3>2. CASE handlers # <<>>
      <4>1. Len(handlers) \in Nat \ {0}
        BY <3>2, FrontProperties DEF IInv, TypeOK
      <4>2. /\ Len(handlers) - 1 \in 0 .. Len(handlers)
            /\ handlers' = SubSeq(handlers, 1, Len(handlers) - 1)
        BY <1>2, <3>2, <4>1 DEF EndTryBody, PopTry, Front
      <4>3. Len(frames) \in Nat
        BY DEF IInv, TypeOK
      <4>4. \A i \in 1 .. Len(handlers) - 1 : handlers[i].depth <= Len(frames')
        BY <2>6, <4>1, <4>3 DEF IInv, HandlersNested
      <4>5. QED
        BY <2>6, <4>2, <4>3, <4>4, PrefixNested
    <3>3. QED
      BY <3>1, <3>2
  <2>8. QED
    BY <1>2, <2>6, <2>7 DEF EndTryBody, IInv, TypeOK
<1>3. CASE EndExcept \/ EndNormalCleanup
  <2>1. Here # <<>> /\ MoveTo(Front(Here)) /\ UNCHANGED handlers
    BY <1>3 DEF EndExcept, EndNormalCleanup, Inside
  <2>2. frames' \in Seq(Place) \ {<<>>} /\ HandlersNested'
    BY <2>1, LeaveLast
  <2>3. QED
    BY <1>3, <2>2 DEF EndExcept, EndNormalCleanup, IInv, TypeOK
<1>4. CASE CleanupStatement
  <2>1. Here \in Place /\ Here # <<>> /\ Last(Here).left > 0
    BY <1>4, HereProperties DEF CleanupStatement, Inside
  <2>2. Len(Here) \in 1 .. Len(Here) /\ Here[Len(Here)] \in Statement
    BY <2>1 DEF Place
  <2>3. [Here[Len(Here)] EXCEPT !.left = @ - 1] \in Statement
    BY <2>1, <2>2 DEF Statement, Last
  <2>4. [Here EXCEPT ![Len(Here)] = [Here[Len(Here)] EXCEPT !.left = @ - 1]] \in Place
    BY <2>1, <2>2, <2>3, ExceptSeq DEF Place
  <2>5. [Here EXCEPT ![Len(Here)].left = @ - 1]
          = [Here EXCEPT ![Len(Here)] = [Here[Len(Here)] EXCEPT !.left = @ - 1]]
    OBVIOUS
  <2>6. frames' \in Seq(Place) \ {<<>>} /\ Len(frames') = Len(frames)
    BY <1>4, <2>4, <2>5, MoveKeepsShape DEF CleanupStatement
  <2>7. QED
    BY <1>4, <2>6, SameDepthNested DEF CleanupStatement, IInv, TypeOK
<1>5. CASE EndUnwindingCleanup
  <2>1. CASE excActive
    BY <1>5, <2>1, UnwindInv DEF EndUnwindingCleanup, IInv, TypeOK
  <2>2. CASE ~excActive
    <3>1. Here # <<>> /\ MoveTo(Front(Here)) /\ UNCHANGED handlers
      BY <1>5, <2>2 DEF EndUnwindingCleanup, Inside
    <3>2. frames' \in Seq(Place) \ {<<>>} /\ HandlersNested'
      BY <3>1, LeaveLast
    <3>3. QED
      BY <1>5, <2>2, <3>2 DEF EndUnwindingCleanup, IInv, TypeOK
  <2>3. QED
    BY <2>1, <2>2 DEF IInv, TypeOK
<1>6. CASE Raise
  BY <1>6, UnwindInv DEF Raise
<1>7. CASE BuiltinWhileUnwinding
  BY <1>7, UnwindInv DEF BuiltinWhileUnwinding, IInv, TypeOK
<1>8. CASE Recover
  BY <1>8 DEF Recover, IInv, TypeOK, HandlersNested
<1>9. CASE Call
  <2>1. <<>> \in Place
    BY DEF Place
  <2>2. frames' \in Seq(Place) /\ Len(frames') = Len(frames) + 1
    BY <1>9, <2>1, AppendProperties DEF Call, IInv, TypeOK
  <2>3. Len(frames) \in Nat /\ frames' # <<>>
    BY <2>2 DEF IInv, TypeOK
  <2>4. HandlersNested'
    BY <1>9, <2>2, <2>3 DEF Call, IInv, HandlersNested
  <2>5. QED
    BY <1>9, <2>2, <2>3, <2>4 DEF Call, IInv, TypeOK
<1>10. CASE Return
  <2>1. CASE Top = 1
    BY <1>10, <2>1 DEF Return, IInv, TypeOK, HandlersNested
  <2>2. CASE Top # 1
    <3>1. PICK n \in 0 .. Len(handlers) :
             /\ \A i \in n + 1 .. Len(handlers) : handlers[i].depth = Top
             /\ n > 0 => handlers[n].depth # Top
             /\ handlers' = SubSeq(handlers, 1, n)
      BY <1>10, <2>2 DEF Return, DropHandlers
    <3>2. frames' = Front(frames) /\ Top = Len(frames) /\ Top \in Nat \ {0, 1}
      BY <1>10, <2>2, HereProperties DEF Return
    <3>3. frames' \in Seq(Place) /\ Len(frames') = Len(frames) - 1
      BY <3>2, FrontProperties DEF IInv, TypeOK
    <3>4. frames' # <<>> /\ Len(frames') \in Nat
      BY <3>2, <3>3
    <3>5. ASSUME NEW i \in 1 .. n PROVE handlers[i].depth <= Len(frames')
      <4>1. n \in 1 .. Len(handlers) /\ Len(handlers) \in Nat /\ i \in 1 .. Len(handlers)
        BY DEF IInv, TypeOK
      <4>2. handlers[n].depth \in 1 .. Len(frames) /\ handlers[n].depth # Len(frames)
        BY <3>1, <3>2, <4>1 DEF IInv, HandlersNested
      <4>3. handlers[i].depth <= handlers[n].depth
        BY <4>1 DEF IInv, HandlersNested
      <4>4. handlers[i].depth \in 1 .. Len(frames)
        BY <4>1 DEF IInv, HandlersNested
      <4>5. handlers[n].depth <= Len(frames) - 1 /\ Len(frames) \in Nat
        BY <3>2, <4>2
      <4>6. handlers[i].depth \in Nat /\ handlers[n].depth \in Nat
        BY <3>2, <4>2, <4>4
      <4>7. handlers[i].depth <= Len(frames) - 1
        BY <4>3, <4>5, <4>6
      <4>8. QED
        BY <3>3, <4>7
    <3>6. handlers' \in Seq(Handler) /\ HandlersNested'
      BY <3>1, <3>4, <3>5, PrefixNested
    <3>7. QED
      BY <1>10, <2>2, <3>3, <3>4, <3>6 DEF Return, IInv, TypeOK
  <2>3. QED
    BY <2>1, <2>2
<1>11. CASE EnterLoop
  <2>1. [kind |-> "loop", left |-> 0] \in Statement
    BY DEF Statement, Kinds
  <2>2. Append(Here, [kind |-> "loop", left |-> 0]) \in Place
    BY <2>1, HereProperties DEF Place
  <2>3. frames' \in Seq(Place) \ {<<>>} /\ Len(frames') = Len(frames)
    BY <1>11, <2>2, MoveKeepsShape DEF EnterLoop
  <2>4. QED
    BY <1>11, <2>3, SameDepthNested DEF EnterLoop, IInv, TypeOK
<1>12. CASE Jump
  <2>1. PICK n \in 0 .. Len(Here) - 1 : MoveTo(SubSeq(Here, 1, n))
    BY <1>12 DEF Jump
  <2>2. n \in 0 .. Len(Here)
    BY <2>1, HereProperties DEF Place
  <2>3. frames' \in Seq(Place) \ {<<>>} /\ HandlersNested'
    BY <1>12, <2>1, <2>2, LeaveStatements DEF Jump
  <2>4. QED
    BY <1>12, <2>3 DEF Jump, IInv, TypeOK
<1>13. CASE Ended \/ UNCHANGED vars
  BY <1>13 DEF Ended, vars, IInv, TypeOK, HandlersNested
<1>14. QED
  BY <1>1, <1>2, <1>3, <1>4, <1>5, <1>6, <1>7, <1>8, <1>9, <1>10, <1>11,
     <1>12, <1>13
     DEF Next, EndRoutine, Exit, TryBodies

LEMMA InitIInv == Init => IInv
<1> SUFFICES ASSUME Init PROVE IInv
  OBVIOUS
<1>1. <<>> \in Place
  BY DEF Place
<1>2. <<<<>>>> \in Seq(Place) \ {<<>>}
  BY <1>1
<1>3. handlers \in Seq(Handler) /\ Len(handlers) = 0
  BY DEF Init
<1>4. HandlersNested
  BY <1>3 DEF HandlersNested
<1>5. QED
  BY <1>2, <1>3, <1>4 DEF Init, IInv, TypeOK

\* Every reachable state has its type; in particular the call stack is never
\* empty while the handler stack is consulted.
THEOREM TypeCorrect == Spec => []TypeOK
  BY InitIInv, NextIInv, PTL DEF Spec, IInv

\* Whatever a program does with try, exit, jumps and builtins, each handler
\* belongs to an active routine, and a callee's handlers are above its
\* caller's.
THEOREM HandlersStayNested == Spec => []HandlersNested
  BY InitIInv, NextIInv, PTL DEF Spec, IInv

-----------------------------------------------------------------------------
(* What the steps do to the statements a program is inside of.               *)

\* The routine that runs moves to a place that agrees with where it was up to a
\* level m.  Beyond m no try body is left or entered; a cleanup is left only at
\* its end, and one that runs because of an exception only when the exception
\* has been stopped; none is entered and none goes back.
Moved(place, m) ==
  /\ MoveTo(place)
  /\ m <= Len(place)
  /\ Len(place) <= Len(Here) \/ (Len(Here) < MaxNesting /\ Len(place) = Len(Here) + 1)
  /\ \A k \in 1 .. m : place[k] = Here[k]
  /\ \A k \in m + 1 .. Len(place) : place[k].kind \notin TryBodies
  /\ \A k \in m + 1 .. Len(Here) :
       /\ Here[k].kind \notin TryBodies
       /\ Here[k].kind \in Cleanups =>
            \/ k <= Len(place) /\ place[k].kind = Here[k].kind
            \/ Here[k].left = 0 /\ (Here[k].kind = "unwinding" => ~excActive)
  /\ \A k \in m + 1 .. Len(place) :
       place[k].kind \in Cleanups =>
         k <= Len(Here) /\ place[k].kind = Here[k].kind /\ place[k].left <= Here[k].left

LEMMA MoveShape ==
  ASSUME IInv, NEW place, MoveTo(place)
  PROVE  /\ Len(frames') = Len(frames)
         /\ frames'[Top] = place
         /\ \A d \in 1 .. Len(frames) : d # Top => frames'[d] = frames[d]
<1>1. Top \in 1 .. Len(frames) /\ frames \in Seq(Place) /\ Top = Len(frames)
  BY HereProperties DEF IInv, TypeOK
<1>2. frames' = [frames EXCEPT ![Top] = place]
  BY DEF MoveTo
<1>3. QED
  BY <1>1, <1>2

\* The steps that end, continue or enter a statement that is not a try.
QuietStep ==
  \/ EndExcept
  \/ EndNormalCleanup
  \/ EndUnwindingCleanup /\ ~excActive
  \/ CleanupStatement
  \/ EnterLoop
  \/ Jump

LEMMA LeftAtEnd ==
  ASSUME IInv, Here # <<>>, MoveTo(Front(Here)), Last(Here).kind \notin TryBodies,
         Last(Here).kind \in Cleanups =>
           Last(Here).left = 0 /\ (Last(Here).kind = "unwinding" => ~excActive)
  PROVE  Moved(Front(Here), Len(Here) - 1) /\ Front(Here) \in Place /\ Len(Here) - 1 \in 0 .. Len(Here)
<1>1. /\ Front(Here) \in Place /\ Len(Here) \in Nat \ {0} /\ Len(Front(Here)) = Len(Here) - 1
      /\ \A i \in 1 .. Len(Here) - 1 : Front(Here)[i] = Here[i]
  BY HereProperties, FrontProperties DEF Place
<1>2. \A k \in Len(Here) - 1 + 1 .. Len(Here) : Here[k] = Last(Here)
  BY <1>1 DEF Last
<1>3. \A k \in Len(Here) - 1 + 1 .. Len(Front(Here)) : FALSE
  BY <1>1
<1>4. QED
  BY <1>1, <1>2, <1>3 DEF Moved

LEMMA QuietMoves ==
  ASSUME IInv, QuietStep, "jump" \notin program
  PROVE  /\ \E place \in Place, m \in 0 .. Len(Here) : Moved(place, m)
         /\ UNCHANGED <<handlers, excActive, excValue, halted, unhandled, program>>
<1>1. UNCHANGED <<handlers, excActive, excValue, halted, unhandled, program>>
  BY DEF QuietStep, EndExcept, EndNormalCleanup, EndUnwindingCleanup, CleanupStatement,
         EnterLoop, Jump
<1> SUFFICES \E place \in Place, m \in 0 .. Len(Here) : Moved(place, m)
  BY <1>1
<1>2. Here \in Place /\ Len(Here) \in Nat
  BY HereProperties DEF Place
<1>3. CASE EndExcept \/ EndNormalCleanup \/ (EndUnwindingCleanup /\ ~excActive)
  <2>1. /\ Here # <<>> /\ MoveTo(Front(Here))
        /\ \/ Last(Here).kind = "except"
           \/ Last(Here).kind = "normal" /\ Last(Here).left = 0
           \/ Last(Here).kind = "unwinding" /\ Last(Here).left = 0 /\ ~excActive
    BY <1>3 DEF EndExcept, EndNormalCleanup, EndUnwindingCleanup, Inside
  <2>2. Moved(Front(Here), Len(Here) - 1) /\ Front(Here) \in Place
        /\ Len(Here) - 1 \in 0 .. Len(Here)
    BY <2>1, LeftAtEnd DEF TryBodies, Cleanups
  <2>3. QED
    BY <1>1, <2>2
<1>4. CASE CleanupStatement
  <2> DEFINE n == Len(Here)
             s == [Here[n] EXCEPT !.left = @ - 1]
             place == [Here EXCEPT ![n] = s]
  <2>1. /\ Here # <<>> /\ Last(Here).left > 0 /\ Last(Here).kind \in Cleanups
        /\ MoveTo([Here EXCEPT ![n].left = @ - 1])
    BY <1>4 DEF CleanupStatement, Inside, Cleanups
  <2>2. n \in 1 .. Len(Here) /\ Here[n] \in Statement /\ Last(Here) = Here[n]
    BY <1>2, <2>1 DEF Place, Last
  <2>3. s \in Statement /\ s.kind = Here[n].kind /\ s.left <= Here[n].left
    <3>1. Here[n].kind \in Kinds /\ Here[n].left \in 0 .. MaxCleanup /\ Here[n].left > 0
          /\ MaxCleanup \in Nat
      BY <2>1, <2>2, ExceptionsAssumption DEF Statement
    <3>2. Here[n].left - 1 \in 0 .. MaxCleanup /\ Here[n].left - 1 <= Here[n].left
      BY <3>1
    <3>3. QED
      BY <2>2, <3>1, <3>2 DEF Statement
  <2>4. MoveTo(place)
    BY <2>1
  <2> HIDE DEF s
  <2>5. /\ place \in Place /\ Len(place) = n
        /\ \A k \in 1 .. n - 1 : place[k] = Here[k]
        /\ place[n] = s
    BY <1>2, <2>2, <2>3, ExceptSeq DEF Place
  <2>6. n - 1 \in 0 .. Len(Here) /\ \A k \in n - 1 + 1 .. n : k = n
    BY <2>2
  <2>7. s.kind \in Cleanups /\ s.kind \notin TryBodies
    BY <2>1, <2>2, <2>3 DEF Cleanups, TryBodies
  <2> HIDE DEF place
  <2>8. Moved(place, n - 1)
    BY <2>2, <2>3, <2>4, <2>5, <2>6, <2>7 DEF Moved
  <2>9. QED
    BY <1>1, <2>5, <2>6, <2>8
<1>5. CASE EnterLoop
  <2> DEFINE s == [kind |-> "loop", left |-> 0]
             place == Append(Here, s)
  <2>1. MoveTo(place) /\ Len(Here) < MaxNesting
    BY <1>5 DEF EnterLoop
  <2>2. s \in Statement /\ s.kind \notin TryBodies /\ s.kind \notin Cleanups
    BY ExceptionsAssumption DEF Statement, Kinds, TryBodies, Cleanups
  <2> HIDE DEF s
  <2>3. /\ place \in Place /\ Len(place) = Len(Here) + 1
        /\ \A k \in 1 .. Len(Here) : place[k] = Here[k]
        /\ place[Len(Here) + 1] = s
    BY <1>2, <2>2, AppendProperties DEF Place
  <2>4. \A k \in Len(Here) + 1 .. Len(place) : k = Len(Here) + 1
    BY <1>2, <2>3
  <2> HIDE DEF place
  <2>5. Moved(place, Len(Here))
    BY <1>2, <2>1, <2>2, <2>3, <2>4 DEF Moved
  <2>6. Len(Here) \in 0 .. Len(Here)
    BY <1>2
  <2>7. QED
    BY <1>1, <2>3, <2>5, <2>6
<1>6. CASE Jump
  <2>1. PICK n \in 0 .. Len(Here) - 1 :
           /\ \A i \in n + 1 .. Len(Here) : Here[i].kind \notin TryBodies \cup Cleanups
           /\ MoveTo(SubSeq(Here, 1, n))
    BY <1>6 DEF Jump
  <2>2. n \in 0 .. Len(Here)
    BY <1>2
  <2>3. /\ SubSeq(Here, 1, n) \in Place /\ Len(SubSeq(Here, 1, n)) = n
        /\ \A i \in 1 .. n : SubSeq(Here, 1, n)[i] = Here[i]
    BY <1>2, <2>2, PrefixProperties DEF Place
  <2>4. Moved(SubSeq(Here, 1, n), n)
    BY <1>2, <2>1, <2>2, <2>3 DEF Moved
  <2>5. QED
    BY <1>1, <2>2, <2>3, <2>4
<1>7. QED
  BY <1>3, <1>4, <1>5, <1>6 DEF QuietStep

Stays(d, k) ==
  d \in 1 .. Len(frames') /\ k \in 1 .. Len(frames'[d]) /\ frames'[d][k] = frames[d][k]

LEMMA Shapes ==
  ASSUME IInv
  PROVE  /\ frames \in Seq(Place) /\ Len(frames) \in Nat \ {0} /\ Top = Len(frames)
         /\ Top \in 1 .. Len(frames) /\ Here = frames[Top]
         /\ \A d \in 1 .. Len(frames) : frames[d] \in Place /\ Len(frames[d]) \in Nat
         /\ \A d \in 1 .. Len(frames) : \A k \in 1 .. Len(frames[d]) : frames[d][k] \in Statement
<1>1. frames \in Seq(Place) /\ Len(frames) \in Nat \ {0} /\ Top = Len(frames) /\ Here = frames[Top]
  BY HereProperties DEF IInv, TypeOK, Here
<1>2. \A d \in 1 .. Len(frames) : frames[d] \in Place /\ Len(frames[d]) \in Nat
  BY <1>1 DEF Place
<1>3. \A d \in 1 .. Len(frames) : \A k \in 1 .. Len(frames[d]) : frames[d][k] \in Statement
  BY <1>2 DEF Place
<1>4. QED
  BY <1>1, <1>2, <1>3

LEMMA MovedStays ==
  ASSUME IInv, NEW place, NEW m \in 0 .. Len(Here), Moved(place, m), Len(place) \in Nat,
         NEW d \in 1 .. Len(frames), NEW k \in 1 .. Len(frames[d]), d # Top \/ k <= m
  PROVE  Stays(d, k)
<1>1. /\ Len(frames') = Len(frames) /\ frames'[Top] = place
      /\ \A e \in 1 .. Len(frames) : e # Top => frames'[e] = frames[e]
  BY MoveShape DEF Moved
<1>2. CASE d # Top
  BY <1>1, <1>2 DEF Stays
<1>3. CASE d = Top
  <2>1. k \in 1 .. m /\ k \in 1 .. Len(place) /\ place[k] = Here[k] /\ Here = frames[d]
    BY <1>3, Shapes DEF Moved
  <2>2. QED
    BY <1>1, <1>3, <2>1 DEF Stays
<1>4. QED
  BY <1>2, <1>3

\* A call, a try that begins, recover: nothing that was open is left.
GrowingStep ==
  \/ \E kind \in TryBodies, left \in 0 .. MaxCleanup : EnterTry(kind, left)
  \/ Call
  \/ Recover
  \/ Ended
  \/ UNCHANGED vars

LEMMA GrowingStays ==
  ASSUME IInv, GrowingStep, NEW d \in 1 .. Len(frames), NEW k \in 1 .. Len(frames[d])
  PROVE  Stays(d, k)
<1>1. CASE \E kind \in TryBodies, left \in 0 .. MaxCleanup : EnterTry(kind, left)
  <2>1. PICK kind \in TryBodies, left \in 0 .. MaxCleanup : EnterTry(kind, left)
    BY <1>1
  <2> DEFINE new == [kind |-> kind, left |-> left]
             place == Append(Here, new)
  <2>2. MoveTo(place)
    BY <2>1 DEF EnterTry
  <2>3. new \in Statement
    BY DEF Statement, Kinds
  <2> HIDE DEF new
  <2>4. Len(place) = Len(Here) + 1 /\ \A i \in 1 .. Len(Here) : place[i] = Here[i]
    BY <2>3, HereProperties, AppendProperties DEF Place
  <2> HIDE DEF place
  <2>5. /\ Len(frames') = Len(frames) /\ frames'[Top] = place
        /\ \A e \in 1 .. Len(frames) : e # Top => frames'[e] = frames[e]
    BY <2>2, MoveShape
  <2>6. CASE d = Top
    <3>1. Here = frames[d] /\ Len(Here) \in Nat
      BY <2>6, Shapes
    <3>2. k \in 1 .. Len(place) /\ place[k] = Here[k]
      BY <2>4, <3>1
    <3>3. QED
      BY <2>5, <2>6, <3>1, <3>2 DEF Stays
  <2>7. CASE d # Top
    BY <2>5, <2>7 DEF Stays
  <2>8. QED
    BY <2>6, <2>7
<1>2. CASE Call
  <2>1. frames' = Append(frames, <<>>) /\ <<>> \in Place
    BY <1>2 DEF Call, Place
  <2>2. Len(frames') = Len(frames) + 1 /\ \A i \in 1 .. Len(frames) : frames'[i] = frames[i]
    BY <2>1, Shapes, AppendProperties
  <2>3. d \in 1 .. Len(frames')
    BY <2>2, Shapes
  <2>4. QED
    BY <2>2, <2>3 DEF Stays
<1>3. CASE Recover \/ Ended \/ UNCHANGED vars
  BY <1>3 DEF Recover, Ended, vars, Stays
<1>4. QED
  BY <1>1, <1>2, <1>3 DEF GrowingStep

\* The end of a try body: the try goes, or its cleanup takes its place.
LEMMA EndTryShape ==
  ASSUME IInv, EndTryBody
  PROVE  \E place \in Place :
           /\ MoveTo(place) /\ Len(Here) \in Nat \ {0}
           /\ Here[Len(Here)].kind \in TryBodies
           /\ Len(place) = Len(Here) \/ Len(place) = Len(Here) - 1
           /\ Here[Len(Here)].kind = "try_finally" => Len(place) = Len(Here)
           /\ \A k \in 1 .. Len(Here) - 1 : place[k] = Here[k]
           /\ Len(place) = Len(Here) =>
                /\ Here[Len(Here)].kind = "try_finally"
                /\ place[Len(Here)].kind = "normal"
                /\ place[Len(Here)].left = Here[Len(Here)].left
<1>1. Here # <<>> /\ Here \in Place
  BY HereProperties DEF EndTryBody, Inside
<1>2. /\ Front(Here) \in Place /\ Len(Here) \in Nat \ {0} /\ Len(Front(Here)) = Len(Here) - 1
      /\ \A i \in 1 .. Len(Here) - 1 : Front(Here)[i] = Here[i]
      /\ Last(Here) \in Statement /\ Last(Here) = Here[Len(Here)]
  BY <1>1, FrontProperties DEF Place, Last
<1>3. CASE Inside("try_except") /\ MoveTo(Front(Here))
  BY <1>2, <1>3 DEF Inside, TryBodies
<1>4. CASE Inside("try_finally")
           /\ MoveTo(Append(Front(Here), [Last(Here) EXCEPT !.kind = "normal"]))
  <2> DEFINE s == [Last(Here) EXCEPT !.kind = "normal"]
             place == Append(Front(Here), s)
  <2>1. s \in Statement /\ s.kind = "normal" /\ s.left = Here[Len(Here)].left
    BY <1>2 DEF Statement, Kinds, Cleanups
  <2>2. MoveTo(place)
    BY <1>4
  <2> HIDE DEF s
  <2>3. /\ place \in Place /\ Len(place) = Len(Here)
        /\ \A i \in 1 .. Len(Here) - 1 : place[i] = Here[i]
        /\ place[Len(Here)] = s
    BY <1>2, <2>1, AppendProperties DEF Place
  <2> HIDE DEF place
  <2>4. Here[Len(Here)].kind = "try_finally"
    BY <1>2, <1>4 DEF Inside
  <2>5. QED
    BY <1>2, <2>1, <2>2, <2>3, <2>4 DEF TryBodies
<1>5. QED
  BY <1>3, <1>4 DEF EndTryBody

LEMMA EndTryStays ==
  ASSUME IInv, EndTryBody, NEW d \in 1 .. Len(frames), NEW k \in 1 .. Len(frames[d]),
         frames[d][k].kind \notin TryBodies \/ d # Top \/ k # Len(Here)
  PROVE  Stays(d, k)
<1>1. PICK place \in Place :
        /\ MoveTo(place) /\ Len(Here) \in Nat \ {0}
        /\ Here[Len(Here)].kind \in TryBodies
        /\ Len(place) = Len(Here) \/ Len(place) = Len(Here) - 1
        /\ \A i \in 1 .. Len(Here) - 1 : place[i] = Here[i]
  BY EndTryShape
<1>2. /\ Len(frames') = Len(frames) /\ frames'[Top] = place
      /\ \A e \in 1 .. Len(frames) : e # Top => frames'[e] = frames[e]
  BY <1>1, MoveShape
<1>3. CASE d # Top
  BY <1>2, <1>3 DEF Stays
<1>4. CASE d = Top
  <2>1. Here = frames[d] /\ k # Len(Here)
    BY <1>1, <1>4, Shapes
  <2>2. k \in 1 .. Len(Here) - 1 /\ k \in 1 .. Len(place)
    BY <1>1, <2>1
  <2>3. QED
    BY <1>1, <1>2, <1>4, <2>1, <2>2 DEF Stays
<1>5. QED
  BY <1>3, <1>4

\* doUnwind with a handler: the frames below the handler's stay, its own frame
\* continues at the handler's place.
LEMMA UnwindShape ==
  ASSUME IInv, Unwind, handlers # <<>>
  PROVE  LET h == Last(handlers)
             kind == IF h.isFinally THEN "unwinding" ELSE "except"
         IN  /\ h = handlers[Len(handlers)] /\ Len(handlers) \in Nat \ {0}
             /\ h \in Handler /\ h.depth \in 1 .. Len(frames)
             /\ handlers' = SubSeq(handlers, 1, Len(handlers) - 1)
             /\ Len(frames') = h.depth
             /\ \A d \in 1 .. h.depth - 1 : frames'[d] = frames[d]
             /\ h.place \in Place
             /\ Len(frames'[h.depth]) = Len(h.place) + 1
             /\ \A k \in 1 .. Len(h.place) : frames'[h.depth][k] = h.place[k]
             /\ frames'[h.depth][Len(h.place) + 1].kind = kind
             /\ frames'[h.depth][Len(h.place) + 1].left = h.left
             /\ excActive' = h.isFinally
<1> DEFINE n == Len(handlers)
           h == Last(handlers)
           kind == IF h.isFinally THEN "unwinding" ELSE "except"
           entry == [kind |-> kind, left |-> h.left]
<1>1. n \in Nat \ {0} /\ h \in Handler /\ h = handlers[n]
  BY FrontProperties DEF IInv, TypeOK, Last
<1>2. h.depth \in 1 .. Len(frames) /\ Len(frames) \in Nat
  BY <1>1 DEF IInv, HandlersNested, TypeOK
<1>3. entry \in Statement /\ h.place \in Place /\ entry.kind = kind /\ entry.left = h.left
  BY <1>1 DEF Handler, Statement, Kinds, Cleanups
<1>4. /\ handlers' = SubSeq(handlers, 1, n - 1) /\ excActive' = h.isFinally
      /\ frames' = [SubSeq(frames, 1, h.depth) EXCEPT ![h.depth] = Append(h.place, entry)]
  BY DEF Unwind, Front, StillActive
<1> HIDE DEF entry, n, h, kind
<1>5. /\ Append(h.place, entry) \in Place /\ Len(Append(h.place, entry)) = Len(h.place) + 1
      /\ \A k \in 1 .. Len(h.place) : Append(h.place, entry)[k] = h.place[k]
      /\ Append(h.place, entry)[Len(h.place) + 1] = entry
  BY <1>3, AppendProperties DEF Place
<1>6. /\ SubSeq(frames, 1, h.depth) \in Seq(Place)
      /\ Len(SubSeq(frames, 1, h.depth)) = h.depth
      /\ \A d \in 1 .. h.depth : SubSeq(frames, 1, h.depth)[d] = frames[d]
  BY <1>2, PrefixProperties DEF IInv, TypeOK
<1>7. /\ Len(frames') = h.depth
      /\ \A d \in 1 .. h.depth :
           frames'[d] = IF d = h.depth THEN Append(h.place, entry) ELSE frames[d]
  <2> DEFINE base == SubSeq(frames, 1, h.depth)
             top == h.depth
             place == Append(h.place, entry)
  <2>1. top \in 1 .. Len(base) /\ frames' = [base EXCEPT ![top] = place]
    BY <1>2, <1>4, <1>6
  <2>2. base \in Seq(Place) /\ place \in Place /\ Len(base) = top
        /\ \A d \in 1 .. top : base[d] = frames[d]
    BY <1>5, <1>6
  <2> HIDE DEF base, top, place
  <2>3. /\ Len(frames') = Len(base)
        /\ \A d \in 1 .. Len(base) : frames'[d] = IF d = top THEN place ELSE base[d]
    BY <2>1, <2>2, ExceptSeq
  <2>4. /\ Len(frames') = top
        /\ \A d \in 1 .. top : frames'[d] = IF d = top THEN place ELSE frames[d]
    BY <2>2, <2>3
  <2>5. QED
    BY <2>4 DEF top, place
<1>8. /\ \A d \in 1 .. h.depth - 1 : frames'[d] = frames[d]
      /\ frames'[h.depth] = Append(h.place, entry)
  <2>1. h.depth \in Nat /\ h.depth \in 1 .. h.depth
        /\ \A d \in 1 .. h.depth - 1 : d \in 1 .. h.depth /\ d # h.depth
    BY <1>2
  <2>2. frames'[h.depth] = Append(h.place, entry)
    BY <1>7, <2>1
  <2>3. \A d \in 1 .. h.depth - 1 : frames'[d] = frames[d]
    BY <1>7, <2>1
  <2>4. QED
    BY <2>2, <2>3
<1>9. /\ h = handlers[n] /\ n \in Nat \ {0} /\ h \in Handler /\ h.depth \in 1 .. Len(frames)
      /\ handlers' = SubSeq(handlers, 1, n - 1)
      /\ Len(frames') = h.depth /\ \A d \in 1 .. h.depth - 1 : frames'[d] = frames[d]
      /\ h.place \in Place /\ Len(frames'[h.depth]) = Len(h.place) + 1
      /\ \A k \in 1 .. Len(h.place) : frames'[h.depth][k] = h.place[k]
      /\ frames'[h.depth][Len(h.place) + 1].kind = kind
      /\ frames'[h.depth][Len(h.place) + 1].left = h.left
      /\ excActive' = h.isFinally
  BY <1>1, <1>2, <1>3, <1>4, <1>5, <1>7, <1>8
<1>10. QED
  BY <1>9 DEF n, h, kind

\* OPReturn of a routine that is not the root.
LEMMA ReturnShape ==
  ASSUME IInv, Return, Top # 1
  PROVE  /\ Len(frames') = Len(frames) - 1
         /\ \A d \in 1 .. Len(frames) - 1 : frames'[d] = frames[d]
         /\ \A d \in 1 .. Len(frames) - 1 : \A k \in 1 .. Len(frames[d]) : Stays(d, k)
<1>1. frames' = Front(frames) /\ frames # <<>>
  BY Shapes DEF Return
<1>2. /\ Len(frames') = Len(frames) - 1
      /\ \A d \in 1 .. Len(frames) - 1 : frames'[d] = frames[d]
  BY <1>1, Shapes, FrontProperties
<1>3. QED
  BY <1>2 DEF Stays

UnwindingStep ==
  Raise \/ BuiltinWhileUnwinding \/ (EndUnwindingCleanup /\ excActive)

LEMMA UnwindingUnwinds == UnwindingStep => Unwind /\ Running
  BY DEF UnwindingStep, Raise, BuiltinWhileUnwinding, EndUnwindingCleanup

\* The steps of a routine, sorted by what they do to its statements.
LEMMA StepsSorted ==
  [Next]_vars =>
    \/ QuietStep \/ GrowingStep \/ EndTryBody \/ UnwindingStep \/ EndRoutine \/ Exit
  BY ExceptionsAssumption DEF Next, QuietStep, GrowingStep, UnwindingStep, TryBodies

LEMMA ProgramIsConstant == [Next]_vars => program' = program
  BY DEF Next, EnterTry, EndTryBody, EndExcept, CleanupStatement, EndNormalCleanup,
         EndUnwindingCleanup, Raise, BuiltinWhileUnwinding, Recover, Call, EndRoutine,
         Exit, Return, EnterLoop, Jump, Ended, Unwind, vars

-----------------------------------------------------------------------------
(* An active exception.  Inductive by itself, once the shapes are known.     *)

Tame == program \cap {"exit", "jump"} = {}

\* With neither exit nor jumps, a routine that returns is inside no cleanup.
LEMMA TameReturns ==
  ASSUME IInv, Tame, EndRoutine \/ Exit
  PROVE  /\ Return /\ Running
         /\ \A k \in 1 .. Len(Here) : Here[k].kind \notin TryBodies \cup Cleanups
<1>1. CASE EndRoutine
  <2>1. Here = <<>> /\ Return /\ Running
    BY <1>1 DEF EndRoutine
  <2>2. Len(Here) = 0
    BY <2>1
  <2>3. QED
    BY <2>1, <2>2
<1>2. CASE Exit
  BY <1>2 DEF Exit, Tame
<1>3. QED
  BY <1>1, <1>2

LEMMA NextActive ==
  ASSUME IInv, ActiveOnlyInCleanup, [Next]_vars
  PROVE  ActiveOnlyInCleanup'
<1> DEFINE Unwinding(d, i) == frames[d][i].kind = "unwinding"
<1>1. program' = program
  BY ProgramIsConstant
<1> SUFFICES ASSUME Tame, excActive', ~halted'
             PROVE  \E d \in 1 .. Len(frames') : \E i \in 1 .. Len(frames'[d]) :
                      frames'[d][i].kind = "unwinding"
  BY <1>1 DEF ActiveOnlyInCleanup, Tame
<1>2. ASSUME NEW d \in 1 .. Len(frames), NEW i \in 1 .. Len(frames[d]),
             Unwinding(d, i), Stays(d, i)
      PROVE  \E e \in 1 .. Len(frames') : \E j \in 1 .. Len(frames'[e]) :
               frames'[e][j].kind = "unwinding"
  BY <1>2 DEF Stays
<1>3. ASSUME excActive, ~halted
      PROVE  \E d \in 1 .. Len(frames) : \E i \in 1 .. Len(frames[d]) : Unwinding(d, i)
  BY <1>3 DEF ActiveOnlyInCleanup, Tame
<1>4. CASE QuietStep
  <2>1. "jump" \notin program
    BY DEF Tame
  <2>2. excActive /\ ~halted
    <3>1. excActive' = excActive /\ halted' = halted
      BY <1>4, <2>1, QuietMoves
    <3>2. QED
      BY <3>1, Zenon
  <2>3. PICK place \in Place, m \in 0 .. Len(Here) : Moved(place, m)
    BY <1>4, <2>1, QuietMoves
  <2>4a. PICK d \in 1 .. Len(frames) : \E i \in 1 .. Len(frames[d]) : Unwinding(d, i)
    BY <1>3, <2>2
  <2>4. PICK i \in 1 .. Len(frames[d]) : Unwinding(d, i)
    BY <2>4a
  <2>5. Len(place) \in Nat
    BY DEF Place
  <2>6. CASE d # Top \/ i <= m
    BY <1>2, <2>3, <2>4, <2>5, <2>6, MovedStays
  <2>7. CASE d = Top /\ i > m
    <3>1. Here = frames[d] /\ i \in m + 1 .. Len(Here)
      BY <2>7, Shapes
    <3>2. i <= Len(place) /\ place[i].kind = "unwinding"
      BY <2>2, <2>3, <2>4, <3>1 DEF Moved, Cleanups
    <3>3. Len(frames') = Len(frames) /\ frames'[Top] = place
      BY <2>3, MoveShape DEF Moved
    <3>4. d \in 1 .. Len(frames') /\ i \in 1 .. Len(frames'[d]) /\ frames'[d][i].kind = "unwinding"
      BY <2>5, <2>7, <3>1, <3>2, <3>3
    <3>5. QED
      BY <3>4
  <2>8. m \in Nat /\ i \in Nat
    BY HereProperties, Shapes DEF Place
  <2>9. QED
    BY <2>6, <2>7, <2>8
<1>5. CASE GrowingStep
  <2>1. excActive /\ ~halted
    <3>1. ~Recover
      BY Zenon DEF Recover
    <3>2. excActive' = excActive /\ halted' = halted
      BY <1>5, <3>1 DEF GrowingStep, EnterTry, Call, Ended, vars
    <3>3. QED
      BY <3>2, Zenon
  <2>2a. PICK d \in 1 .. Len(frames) : \E i \in 1 .. Len(frames[d]) : Unwinding(d, i)
    BY <1>3, <2>1
  <2>2. PICK i \in 1 .. Len(frames[d]) : Unwinding(d, i)
    BY <2>2a
  <2>3. QED
    BY <1>2, <1>5, <2>2, GrowingStays
<1>6. CASE EndTryBody
  <2>1. excActive /\ ~halted
    BY <1>6 DEF EndTryBody
  <2>2a. PICK d \in 1 .. Len(frames) : \E i \in 1 .. Len(frames[d]) : Unwinding(d, i)
    BY <1>3, <2>1
  <2>2. PICK i \in 1 .. Len(frames[d]) : Unwinding(d, i)
    BY <2>2a
  <2>3. frames[d][i].kind \notin TryBodies
    BY <2>2 DEF TryBodies
  <2>4. Stays(d, i)
    BY <1>6, <2>3, EndTryStays
  <2>5. QED
    BY <1>2, <2>2, <2>4
<1>7. CASE UnwindingStep
  <2>1. Unwind /\ handlers # <<>>
    BY <1>7, UnwindingUnwinds DEF Unwind
  <2> DEFINE h == Last(handlers)
  <2>2. /\ h \in Handler /\ h.depth \in 1 .. Len(frames) /\ Len(frames') = h.depth
        /\ h.place \in Place /\ Len(frames'[h.depth]) = Len(h.place) + 1
        /\ frames'[h.depth][Len(h.place) + 1].kind = IF h.isFinally THEN "unwinding" ELSE "except"
        /\ excActive' = h.isFinally
    BY <2>1, UnwindShape
  <2>3. Len(h.place) \in Nat /\ h.depth \in Nat \ {0}
    BY <2>2, Shapes DEF Place
  <2> HIDE DEF h
  <2>4. h.depth \in 1 .. Len(frames') /\ Len(h.place) + 1 \in 1 .. Len(frames'[h.depth])
    BY <2>2, <2>3
  <2>5. frames'[h.depth][Len(h.place) + 1].kind = "unwinding"
    BY <2>2
  <2>6. QED
    BY <2>4, <2>5
<1>8. CASE EndRoutine \/ Exit
  <2>1. Return /\ Running /\ \A k \in 1 .. Len(Here) : Here[k].kind \notin TryBodies \cup Cleanups
    BY <1>8, TameReturns
  <2>2. Top # 1 /\ excActive /\ ~halted
    BY <2>1 DEF Return, Running
  <2>3a. PICK d \in 1 .. Len(frames) : \E i \in 1 .. Len(frames[d]) : Unwinding(d, i)
    BY <1>3, <2>2
  <2>3. PICK i \in 1 .. Len(frames[d]) : Unwinding(d, i)
    BY <2>3a
  <2>4. d # Top
    BY <2>1, <2>3, Shapes DEF Cleanups
  <2>5. d \in 1 .. Len(frames) - 1
    BY <2>4, Shapes
  <2>6. Stays(d, i)
    BY <2>1, <2>2, <2>5, ReturnShape
  <2>7. QED
    BY <1>2, <2>3, <2>6
<1>9. QED
  BY <1>4, <1>5, <1>6, <1>7, <1>8, StepsSorted

\* Unless exit or a jump leaves a cleanup, an exception is active only while a
\* cleanup runs because of it: no builtin called elsewhere unwinds by mistake.
THEOREM ActiveMeansCleanup == Spec => []ActiveOnlyInCleanup
<1>1. Init => ActiveOnlyInCleanup
  BY DEF Init, ActiveOnlyInCleanup
<1>2. QED
  BY <1>1, InitIInv, NextIInv, NextActive, PTL DEF Spec

-----------------------------------------------------------------------------
(* The handlers and the try bodies of a program that jumps out of none.      *)

\* The handler's try body is open, in the place where it was entered, and its
\* cleanup is that of the handler.
Held(stack, h) ==
  /\ Len(h.place) < Len(stack[h.depth])
  /\ \A k \in 1 .. Len(h.place) : stack[h.depth][k] = h.place[k]
  /\ stack[h.depth][Len(h.place) + 1].kind = IF h.isFinally THEN "try_finally" ELSE "try_except"
  /\ stack[h.depth][Len(h.place) + 1].left = h.left

Bounded == \A d \in 1 .. Len(frames) : Len(frames[d]) <= MaxNesting

Covered ==
  \A d \in 1 .. Len(frames) : \A k \in 1 .. Len(frames[d]) :
    frames[d][k].kind \in TryBodies =>
      \E i \in 1 .. Len(handlers) : handlers[i].depth = d /\ Len(handlers[i].place) + 1 = k

Ordered ==
  \A i, j \in 1 .. Len(handlers) :
    i < j => Before(Position(handlers[i]), Position(handlers[j]))

AllHeld == \A i \in 1 .. Len(handlers) : Held(frames, handlers[i])

Exact == Bounded /\ AllHeld /\ Covered /\ Ordered

LEMMA HandlerShapes ==
  ASSUME IInv
  PROVE  /\ Len(handlers) \in Nat
         /\ \A i \in 1 .. Len(handlers) :
              /\ handlers[i] \in Handler /\ handlers[i].depth \in 1 .. Len(frames)
              /\ handlers[i].depth \in Nat /\ handlers[i].depth <= Top
              /\ handlers[i].place \in Place /\ Len(handlers[i].place) \in Nat
              /\ handlers[i].isFinally \in BOOLEAN
<1>1. Len(handlers) \in Nat /\ \A i \in 1 .. Len(handlers) : handlers[i] \in Handler
  BY DEF IInv, TypeOK
<1>2. \A i \in 1 .. Len(handlers) :
        handlers[i].place \in Place /\ handlers[i].isFinally \in BOOLEAN
  BY <1>1 DEF Handler
<1>3. \A i \in 1 .. Len(handlers) : Len(handlers[i].place) \in Nat
  BY <1>2 DEF Place
<1>4. \A i \in 1 .. Len(handlers) :
        handlers[i].depth \in 1 .. Len(frames) /\ handlers[i].depth \in Nat /\ handlers[i].depth <= Top
  BY Shapes DEF IInv, HandlersNested
<1>5. QED
  BY <1>1, <1>2, <1>3, <1>4

\* What the properties below speak of: the positions of open try bodies.
LEMMA ExactHandlers ==
  ASSUME IInv, Exact
  PROVE  HandlersExact
<1>1. ASSUME NEW i \in 1 .. Len(handlers) PROVE Position(handlers[i]) \in OpenTries
  <2> DEFINE h == handlers[i]
             k == Len(h.place) + 1
  <2>1. h.depth \in 1 .. Len(frames) /\ Len(h.place) \in Nat
    BY HandlerShapes
  <2>2. Held(frames, h)
    BY DEF Exact, AllHeld
  <2>3. Len(frames[h.depth]) <= MaxNesting /\ Len(frames[h.depth]) \in Nat /\ MaxNesting \in Nat
    BY <2>1, Shapes, ExceptionsAssumption DEF Exact, Bounded
  <2>4. k \in 1 .. MaxNesting /\ k <= Len(frames[h.depth])
    BY <2>1, <2>2, <2>3 DEF Held
  <2>5. frames[h.depth][k].kind \in TryBodies
    BY <2>2 DEF Held, TryBodies
  <2>6. <<h.depth, k>> \in OpenTries
    BY <2>1, <2>4, <2>5 DEF OpenTries
  <2>7. QED
    BY <2>6 DEF Position
<1>2. ASSUME NEW p \in OpenTries
      PROVE  \E i \in 1 .. Len(handlers) : p = Position(handlers[i])
  <2>1. PICK d \in 1 .. Len(frames), k \in 1 .. MaxNesting :
          p = <<d, k>> /\ k <= Len(frames[d]) /\ frames[d][k].kind \in TryBodies
    BY DEF OpenTries
  <2>2. k \in 1 .. Len(frames[d])
    BY <2>1, Shapes, ExceptionsAssumption
  <2>3. QED
    BY <2>1, <2>2 DEF Exact, Covered, Position
<1>3. OpenTries = {Position(handlers[i]) : i \in 1 .. Len(handlers)}
  BY <1>1, <1>2
<1>4. QED
  BY <1>3 DEF HandlersExact, Exact, Ordered

\* The innermost handler is that of the innermost try body, and the handlers
\* below it are those of try bodies further out.
LEMMA BelowLast ==
  ASSUME IInv, Exact, NEW i \in 1 .. Len(handlers) - 1
  PROVE  LET h == handlers[Len(handlers)]
         IN  \/ handlers[i].depth < h.depth
             \/ handlers[i].depth = h.depth /\ Len(handlers[i].place) < Len(h.place)
<1>1. i \in 1 .. Len(handlers) /\ Len(handlers) \in 1 .. Len(handlers) /\ i < Len(handlers)
  BY HandlerShapes
<1>2. Before(Position(handlers[i]), Position(handlers[Len(handlers)]))
  BY <1>1 DEF Exact, Ordered
<1>3. QED
  BY <1>1, <1>2, HandlerShapes DEF Before, Position

\* When the handlers are cut and the try bodies of those that remain stay, and
\* no others, the two still agree.
LEMMA CutKeepsExact ==
  ASSUME IInv, Exact, IInv', NEW n \in 0 .. Len(handlers),
         Len(handlers') = n, \A i \in 1 .. n : handlers'[i] = handlers[i],
         Bounded',
         \A i \in 1 .. n : \A k \in 1 .. Len(handlers[i].place) + 1 :
           Stays(handlers[i].depth, k),
         \A d \in 1 .. Len(frames') : \A k \in 1 .. Len(frames'[d]) :
           frames'[d][k].kind \in TryBodies =>
             \E i \in 1 .. n : handlers[i].depth = d /\ Len(handlers[i].place) + 1 = k
  PROVE  Exact'
<1>1. n \in Nat /\ \A i \in 1 .. n : i \in 1 .. Len(handlers)
  BY HandlerShapes
<1>2. ASSUME NEW i \in 1 .. Len(handlers') PROVE Held(frames', handlers'[i])
  <2>1. i \in 1 .. n /\ handlers'[i] = handlers[i]
    OBVIOUS
  <2> DEFINE h == handlers[i]
             last == Len(h.place) + 1
  <2>2. Held(frames, h) /\ Len(h.place) \in Nat
    BY <1>1, <2>1, HandlerShapes DEF Exact, AllHeld
  <2>3. \A k \in 1 .. last : Stays(h.depth, k)
    BY <2>1
  <2>4. last \in 1 .. last /\ \A k \in 1 .. Len(h.place) : k \in 1 .. last
    BY <2>2
  <2>5. h.depth \in 1 .. Len(frames') /\ last \in 1 .. Len(frames'[h.depth])
        /\ frames'[h.depth][last] = frames[h.depth][last]
    BY <2>3, <2>4 DEF Stays
  <2>6. \A k \in 1 .. Len(h.place) : frames'[h.depth][k] = frames[h.depth][k]
    BY <2>3, <2>4 DEF Stays
  <2>7. Len(frames'[h.depth]) \in Nat
    <3>1. frames' \in Seq(Place)
      BY DEF IInv, TypeOK
    <3>2. frames'[h.depth] \in Place
      BY <2>5, <3>1
    <3>3. QED
      BY <3>2 DEF Place
  <2>8. /\ Len(h.place) < Len(frames'[h.depth])
        /\ \A k \in 1 .. Len(h.place) : frames'[h.depth][k] = h.place[k]
        /\ frames'[h.depth][Len(h.place) + 1].kind
             = IF h.isFinally THEN "try_finally" ELSE "try_except"
        /\ frames'[h.depth][Len(h.place) + 1].left = h.left
    <3>1. Len(h.place) < Len(frames'[h.depth])
      <4>1. ASSUME NEW size \in Nat, NEW len \in Nat, len + 1 \in 1 .. size PROVE len < size
        BY <4>1
      <4>2. QED
        BY <2>2, <2>5, <2>7, <4>1
    <3>2. \A k \in 1 .. Len(h.place) : frames'[h.depth][k] = h.place[k]
      BY <2>2, <2>6 DEF Held
    <3>3. QED
      BY <2>2, <2>5, <3>1, <3>2 DEF Held
  <2>9. handlers'[i] = h
    BY <2>1
  <2> HIDE DEF h
  <2>10. QED
    BY <2>8, <2>9 DEF Held
<1>3. Covered'
  <2>1. ASSUME NEW d \in 1 .. Len(frames'), NEW k \in 1 .. Len(frames'[d]),
               frames'[d][k].kind \in TryBodies
        PROVE  \E i \in 1 .. Len(handlers') :
                 handlers'[i].depth = d /\ Len(handlers'[i].place) + 1 = k
    <3>1. PICK i \in 1 .. n : handlers[i].depth = d /\ Len(handlers[i].place) + 1 = k
      BY <2>1
    <3>2. i \in 1 .. Len(handlers') /\ handlers'[i] = handlers[i]
      OBVIOUS
    <3>3. QED
      BY <3>1, <3>2
  <2>2. QED
    BY <2>1 DEF Covered
<1>4. Ordered'
  BY <1>1 DEF Exact, Ordered, Before, Position
<1>5. QED
  BY <1>2, <1>3, <1>4 DEF Exact, AllHeld

LEMMA SameExact ==
  ASSUME Exact, UNCHANGED <<frames, handlers>>
  PROVE  Exact'
<1>1. Bounded'
  BY DEF Exact, Bounded
<1>2. AllHeld'
  BY DEF Exact, AllHeld, Held
<1>3. Covered'
  BY DEF Exact, Covered
<1>4. Ordered'
  BY DEF Exact, Ordered, Before, Position
<1>5. QED
  BY <1>1, <1>2, <1>3, <1>4 DEF Exact

LEMMA QuietExact ==
  ASSUME IInv, Exact, IInv', QuietStep, "jump" \notin program
  PROVE  Exact'
<1>1. PICK place \in Place, m \in 0 .. Len(Here) : Moved(place, m)
  BY QuietMoves
<1>2. UNCHANGED handlers
  BY QuietMoves
<1>3. Len(place) \in Nat /\ Len(Here) \in Nat /\ m \in Nat
  BY HereProperties DEF Place
<1>4. /\ Len(frames') = Len(frames) /\ frames'[Top] = place
      /\ \A e \in 1 .. Len(frames) : e # Top => frames'[e] = frames[e]
  BY <1>1, MoveShape DEF Moved
<1>5. Len(Here) <= MaxNesting /\ MaxNesting \in Nat
  BY Shapes, ExceptionsAssumption DEF Exact, Bounded
<1>6. Len(place) <= MaxNesting
  BY <1>1, <1>3, <1>5 DEF Moved
<1>7. Bounded'
  BY <1>4, <1>6 DEF Exact, Bounded
<1>8. ASSUME NEW i \in 1 .. Len(handlers), NEW k \in 1 .. Len(handlers[i].place) + 1
      PROVE  Stays(handlers[i].depth, k)
  <2> DEFINE h == handlers[i]
             last == Len(h.place) + 1
  <2>1. h.depth \in 1 .. Len(frames) /\ Len(h.place) \in Nat
    BY HandlerShapes
  <2>2. Len(h.place) < Len(frames[h.depth]) /\ frames[h.depth][last].kind \in TryBodies
    BY DEF Exact, AllHeld, Held, TryBodies
  <2>3. Len(frames[h.depth]) \in Nat
    BY <2>1, Shapes
  <2>4. k \in 1 .. Len(frames[h.depth]) /\ last \in 1 .. Len(frames[h.depth]) /\ k <= last
    BY <2>1, <2>2, <2>3
  <2>5. CASE h.depth # Top
    BY <1>1, <1>3, <2>1, <2>4, <2>5, MovedStays
  <2>6. CASE h.depth = Top
    <3>1. Here = frames[h.depth] /\ last \in 1 .. Len(Here) /\ Here[last].kind \in TryBodies
      BY <2>2, <2>4, <2>6, Shapes
    <3>2. last \notin m + 1 .. Len(Here)
      BY <1>1, <3>1 DEF Moved
    <3>3. k <= m
      BY <1>3, <2>4, <3>1, <3>2
    <3>4. QED
      BY <1>1, <1>3, <2>1, <2>4, <3>3, MovedStays
  <2>7. QED
    BY <2>5, <2>6
<1>9. ASSUME NEW d \in 1 .. Len(frames'), NEW k \in 1 .. Len(frames'[d]),
             frames'[d][k].kind \in TryBodies
      PROVE  \E i \in 1 .. Len(handlers) :
               handlers[i].depth = d /\ Len(handlers[i].place) + 1 = k
  <2>1. CASE d # Top
    BY <1>4, <1>9, <2>1 DEF Exact, Covered
  <2>2. CASE d = Top
    <3>1. k \in 1 .. Len(place) /\ place[k].kind \in TryBodies
      BY <1>4, <1>9, <2>2
    <3>2. k \notin m + 1 .. Len(place)
      BY <1>1, <3>1 DEF Moved
    <3>3. k \in 1 .. m /\ k \in 1 .. Len(Here)
      BY <1>3, <3>1, <3>2
    <3>4. Here = frames[d] /\ d \in 1 .. Len(frames) /\ place[k] = Here[k]
      BY <1>1, <2>2, <3>3, Shapes DEF Moved
    <3>5. frames[d][k].kind \in TryBodies /\ k \in 1 .. Len(frames[d])
      BY <3>1, <3>3, <3>4
    <3>6. QED
      BY <3>4, <3>5 DEF Exact, Covered
  <2>3. QED
    BY <2>1, <2>2
<1>10. Len(handlers) \in 0 .. Len(handlers) /\ Len(handlers') = Len(handlers)
       /\ \A i \in 1 .. Len(handlers) : handlers'[i] = handlers[i]
  BY <1>2, HandlerShapes
<1>11. QED
  BY <1>7, <1>8, <1>9, <1>10, CutKeepsExact

\* The try that begins is the innermost, and so is its handler.
LEMMA EnterTryExact ==
  ASSUME IInv, Exact, IInv', NEW kind \in TryBodies, NEW left \in 0 .. MaxCleanup,
         EnterTry(kind, left)
  PROVE  Exact'
<1> DEFINE s == [kind |-> kind, left |-> left]
           new == [depth |-> Top, place |-> Here,
                   isFinally |-> kind = "try_finally", left |-> left]
           n == Len(handlers)
<1>1. s \in Statement /\ s.kind = kind /\ s.left = left
  BY DEF Statement, Kinds
<1>2. /\ new \in Handler /\ new.depth = Top /\ new.place = Here
      /\ new.isFinally = (kind = "try_finally") /\ new.left = left
  BY HereProperties DEF Handler
<1>3. /\ MoveTo(Append(Here, s)) /\ handlers' = Append(handlers, new)
      /\ Len(Here) < MaxNesting
  BY DEF EnterTry
<1> HIDE DEF s, new
<1>4. /\ Len(handlers') = n + 1 /\ handlers'[n + 1] = new /\ n \in Nat
      /\ \A i \in 1 .. n : handlers'[i] = handlers[i]
  BY <1>2, <1>3, AppendProperties DEF IInv, TypeOK
<1>5. PICK place \in Place :
        /\ MoveTo(place) /\ Len(place) = Len(Here) + 1 /\ place[Len(Here) + 1] = s
        /\ \A k \in 1 .. Len(Here) : place[k] = Here[k]
  <2> DEFINE p == Append(Here, s)
  <2>1. /\ p \in Place /\ Len(p) = Len(Here) + 1 /\ p[Len(Here) + 1] = s
        /\ \A k \in 1 .. Len(Here) : p[k] = Here[k]
    BY <1>1, HereProperties, AppendProperties DEF Place
  <2>2. MoveTo(p)
    BY <1>3
  <2> HIDE DEF p
  <2>3. QED
    BY <2>1, <2>2
<1>6. /\ Len(frames') = Len(frames) /\ frames'[Top] = place
      /\ \A e \in 1 .. Len(frames) : e # Top => frames'[e] = frames[e]
  BY <1>5, MoveShape
<1>7. Len(Here) \in Nat /\ Here = frames[Top] /\ Top \in 1 .. Len(frames)
  BY Shapes
<1>8. \A d \in 1 .. Len(frames) : \A k \in 1 .. Len(frames[d]) : Stays(d, k)
  BY GrowingStays DEF GrowingStep
<1>9. Bounded'
  BY <1>3, <1>5, <1>6, <1>7, ExceptionsAssumption DEF Exact, Bounded
<1>10. ASSUME NEW i \in 1 .. n
       PROVE  Held(frames', handlers[i])
  <2> DEFINE h == handlers[i]
             d == h.depth
             last == Len(h.place) + 1
  <2>1. d \in 1 .. Len(frames) /\ Len(h.place) \in Nat /\ Len(frames[d]) \in Nat
    BY HandlerShapes, Shapes
  <2>2. Held(frames, h)
    BY DEF Exact, AllHeld
  <2>3. /\ Len(h.place) < Len(frames[d])
        /\ \A k \in 1 .. Len(h.place) : frames[d][k] = h.place[k]
        /\ frames[d][last].kind = IF h.isFinally THEN "try_finally" ELSE "try_except"
        /\ frames[d][last].left = h.left
    BY <2>2 DEF Held
  <2>4. Len(frames'[d]) >= Len(frames[d]) /\ Len(frames'[d]) \in Nat
    <3>1. CASE d = Top
      BY <1>5, <1>6, <1>7, <3>1
    <3>2. CASE d # Top
      BY <1>6, <2>1, <3>2
    <3>3. QED
      BY <3>1, <3>2
  <2>5. last \in 1 .. Len(frames[d]) /\ \A k \in 1 .. Len(h.place) : k \in 1 .. Len(frames[d])
    BY <2>1, <2>3
  <2>6. \A k \in 1 .. Len(frames[d]) : frames'[d][k] = frames[d][k]
    BY <1>8, <2>1 DEF Stays
  <2> HIDE DEF h, d, last
  <2>7. /\ Len(h.place) < Len(frames'[d])
        /\ \A k \in 1 .. Len(h.place) : frames'[d][k] = h.place[k]
        /\ frames'[d][last].kind = IF h.isFinally THEN "try_finally" ELSE "try_except"
        /\ frames'[d][last].left = h.left
    <3>1. frames'[d][last] = frames[d][last]
      BY <2>5, <2>6
    <3>2. \A k \in 1 .. Len(h.place) : frames'[d][k] = h.place[k]
      BY <2>3, <2>5, <2>6
    <3>3. Len(h.place) < Len(frames'[d])
      BY <2>1, <2>3, <2>4
    <3>4. QED
      BY <2>3, <3>1, <3>2, <3>3
  <2>8. Held(frames', h)
    BY <2>7 DEF Held, d, last
  <2>9. QED
    BY <2>8 DEF h
<1>11. AllHeld'
  <2>1. ASSUME NEW i \in 1 .. n PROVE Held(frames', handlers'[i])
    BY <1>4, <1>10
  <2>2. Held(frames', handlers'[n + 1])
    <3>1. /\ Len(Here) < Len(frames'[Top])
          /\ \A k \in 1 .. Len(Here) : frames'[Top][k] = Here[k]
          /\ frames'[Top][Len(Here) + 1].kind = IF new.isFinally THEN "try_finally" ELSE "try_except"
          /\ frames'[Top][Len(Here) + 1].left = new.left
      <4>1. kind = IF new.isFinally THEN "try_finally" ELSE "try_except"
        BY <1>2 DEF TryBodies
      <4>2. /\ place[Len(Here) + 1].kind = kind /\ Len(Here) < Len(place)
            /\ place[Len(Here) + 1].left = new.left
        BY <1>1, <1>2, <1>5, <1>7
      <4>3. QED
        BY <1>5, <1>6, <4>1, <4>2
    <3>2. QED
      BY <1>2, <1>4, <3>1 DEF Held
  <2>3. \A i \in 1 .. Len(handlers') : i \in 1 .. n \/ i = n + 1
    BY <1>4
  <2>4. QED
    BY <2>1, <2>2, <2>3 DEF AllHeld
<1>12. ASSUME NEW d \in 1 .. Len(frames'), NEW k \in 1 .. Len(frames'[d]),
              frames'[d][k].kind \in TryBodies
       PROVE  \E i \in 1 .. Len(handlers') :
                handlers'[i].depth = d /\ Len(handlers'[i].place) + 1 = k
  <2>1. n + 1 \in 1 .. Len(handlers') /\ \A i \in 1 .. n : i \in 1 .. Len(handlers')
    BY <1>4
  <2>2. CASE d = Top /\ k = Len(Here) + 1
    BY <1>2, <1>4, <2>1, <2>2
  <2>3. CASE d # Top \/ k # Len(Here) + 1
    <3>1. d \in 1 .. Len(frames) /\ k \in 1 .. Len(frames[d]) /\ frames'[d][k] = frames[d][k]
      BY <1>5, <1>6, <1>7, <2>3
    <3>2. PICK i \in 1 .. n : handlers[i].depth = d /\ Len(handlers[i].place) + 1 = k
      BY <1>12, <3>1 DEF Exact, Covered
    <3>3. QED
      BY <1>4, <2>1, <3>2
  <2>4. QED
    BY <2>2, <2>3
<1>13. Covered'
  BY <1>12 DEF Covered
<1>14. ASSUME NEW i \in 1 .. Len(handlers'), NEW j \in 1 .. Len(handlers'), i < j
       PROVE  Before(Position(handlers'[i]), Position(handlers'[j]))
  <2>1. i \in 1 .. n
    BY <1>4, <1>14
  <2>2. CASE j = n + 1
    <3>1. handlers'[j] = new /\ handlers'[i] = handlers[i]
      BY <1>4, <2>1, <2>2
    <3>2. /\ handlers[i].depth <= Top /\ handlers[i].depth \in Nat /\ Top \in Nat
          /\ Len(handlers[i].place) \in Nat
      BY <2>1, HandlerShapes, Shapes
    <3>3. handlers[i].depth = Top => Len(handlers[i].place) < Len(Here)
      BY <1>7, <2>1 DEF Exact, AllHeld, Held
    <3>4. QED
      BY <1>2, <1>7, <3>1, <3>2, <3>3 DEF Before, Position
  <2>3. CASE j # n + 1
    <3>1. j \in 1 .. n
      BY <1>4, <2>3
    <3>2. QED
      BY <1>4, <1>14, <2>1, <3>1 DEF Exact, Ordered
  <2>4. QED
    BY <2>2, <2>3
<1>15. Ordered'
  BY <1>14 DEF Ordered, Before, Position
<1>16. QED
  BY <1>9, <1>11, <1>13, <1>15 DEF Exact

\* A handler of the frame that runs, or of one below, is inside its frame.
LEMMA HandlerInFrame ==
  ASSUME IInv, Exact, NEW i \in 1 .. Len(handlers)
  PROVE  LET h == handlers[i]
             last == Len(h.place) + 1
         IN  /\ h.depth \in 1 .. Len(frames) /\ last \in 1 .. Len(frames[h.depth])
             /\ frames[h.depth][last].kind = IF h.isFinally THEN "try_finally" ELSE "try_except"
             /\ frames[h.depth][last].left = h.left
             /\ \A k \in 1 .. last : k \in 1 .. Len(frames[h.depth])
             /\ \A k \in 1 .. Len(h.place) : frames[h.depth][k] = h.place[k]
<1> DEFINE h == handlers[i]
           last == Len(h.place) + 1
<1>1. h.depth \in 1 .. Len(frames) /\ Len(h.place) \in Nat
  BY HandlerShapes
<1>2. Len(frames[h.depth]) \in Nat
  BY <1>1, Shapes
<1>3. Held(frames, h)
  BY DEF Exact, AllHeld
<1>4. Len(h.place) < Len(frames[h.depth])
  BY <1>3 DEF Held
<1>5. last \in 1 .. Len(frames[h.depth]) /\ \A k \in 1 .. last : k \in 1 .. Len(frames[h.depth])
  BY <1>1, <1>2, <1>4
<1>6. QED
  BY <1>1, <1>3, <1>5 DEF Held

\* OPPopTry pops the handler of the try body that ends.
LEMMA PopTryPopsOwn ==
  ASSUME IInv, Exact, EndTryBody
  PROVE  LET n == Len(handlers)
         IN  /\ n \in Nat \ {0} /\ handlers' = SubSeq(handlers, 1, n - 1)
             /\ handlers[n].depth = Top /\ Len(handlers[n].place) + 1 = Len(Here)
<1> DEFINE n == Len(handlers)
<1>1. Len(Here) \in Nat \ {0} /\ Here[Len(Here)].kind \in TryBodies
  BY EndTryShape
<1>2. PICK i \in 1 .. n : handlers[i].depth = Top /\ Len(handlers[i].place) + 1 = Len(Here)
  <2>1. Len(Here) \in 1 .. Len(frames[Top]) /\ Top \in 1 .. Len(frames)
    BY <1>1, Shapes
  <2>2. frames[Top][Len(Here)].kind \in TryBodies
    BY <1>1, Shapes
  <2>3. QED
    BY <2>1, <2>2 DEF Exact, Covered
<1>3. n \in Nat \ {0} /\ i \in Nat /\ n \in 1 .. n
  BY <1>2, HandlerShapes
<1>4. handlers' = SubSeq(handlers, 1, n - 1)
  <2>1. Len(<<>>) = 0
    OBVIOUS
  <2>2. handlers # <<>>
    BY <1>3, <2>1
  <2>3. QED
    BY <2>2 DEF EndTryBody, PopTry, Front
<1>5. i = n
  <2> SUFFICES ASSUME i # n PROVE FALSE
    OBVIOUS
  <2>1. i \in 1 .. n - 1
    BY <1>3
  <2>2. /\ handlers[n].depth <= Top /\ handlers[n].depth \in Nat /\ Top \in Nat
        /\ Len(handlers[n].place) \in Nat /\ Len(handlers[i].place) \in Nat
    BY <1>3, Shapes, HandlerShapes
  <2>3. \/ Top < handlers[n].depth
        \/ Top = handlers[n].depth /\ Len(handlers[i].place) < Len(handlers[n].place)
    BY <1>2, <2>1, BelowLast
  <2>4. Top = handlers[n].depth /\ Len(handlers[i].place) < Len(handlers[n].place)
    BY <2>2, <2>3
  <2>5. Len(handlers[n].place) + 1 \in 1 .. Len(frames[Top])
    BY <1>3, <2>4, HandlerInFrame
  <2>6. Len(handlers[n].place) + 1 <= Len(Here)
    BY <1>1, <2>5, Shapes
  <2>7. QED
    BY <1>1, <1>2, <2>2, <2>4, <2>6
<1>6. QED
  BY <1>2, <1>3, <1>4, <1>5

LEMMA EndTryExact ==
  ASSUME IInv, Exact, IInv', EndTryBody
  PROVE  Exact'
<1> DEFINE n == Len(handlers)
<1>1. /\ n \in Nat \ {0} /\ handlers' = SubSeq(handlers, 1, n - 1)
      /\ handlers[n].depth = Top /\ Len(handlers[n].place) + 1 = Len(Here)
  BY PopTryPopsOwn
<1>2. n - 1 \in 0 .. n /\ n \in 1 .. n
  BY <1>1
<1>3. Len(handlers') = n - 1 /\ \A i \in 1 .. n - 1 : handlers'[i] = handlers[i]
  BY <1>1, <1>2, PrefixProperties DEF IInv, TypeOK
<1>4. PICK place \in Place :
        /\ MoveTo(place) /\ Len(Here) \in Nat \ {0}
        /\ Len(place) = Len(Here) \/ Len(place) = Len(Here) - 1
        /\ \A k \in 1 .. Len(Here) - 1 : place[k] = Here[k]
        /\ Len(place) = Len(Here) => place[Len(Here)].kind = "normal"
  BY EndTryShape
<1>5. /\ Len(frames') = Len(frames) /\ frames'[Top] = place
      /\ \A e \in 1 .. Len(frames) : e # Top => frames'[e] = frames[e]
  BY <1>4, MoveShape
<1>6. Len(Here) <= MaxNesting /\ MaxNesting \in Nat
  BY Shapes, ExceptionsAssumption DEF Exact, Bounded
<1>7. Len(place) <= MaxNesting
  BY <1>4, <1>6
<1>8. Bounded'
  BY <1>5, <1>7 DEF Exact, Bounded
<1>9. ASSUME NEW i \in 1 .. n - 1, NEW k \in 1 .. Len(handlers[i].place) + 1
      PROVE  Stays(handlers[i].depth, k)
  <2>1. i \in 1 .. n
    BY <1>1
  <2>2. handlers[i].depth \in 1 .. Len(frames) /\ k \in 1 .. Len(frames[handlers[i].depth])
        /\ Len(handlers[i].place) \in Nat /\ Len(handlers[n].place) \in Nat
    BY <1>2, <2>1, HandlerInFrame, HandlerShapes
  <2>3. handlers[i].depth < Top \/ Len(handlers[i].place) < Len(handlers[n].place)
    BY <1>1, BelowLast
  <2>4. handlers[i].depth # Top \/ k # Len(Here)
    BY <1>1, <2>2, <2>3, Shapes
  <2>5. QED
    BY <2>2, <2>4, EndTryStays
<1>10. ASSUME NEW d \in 1 .. Len(frames'), NEW k \in 1 .. Len(frames'[d]),
              frames'[d][k].kind \in TryBodies
       PROVE  \E i \in 1 .. n - 1 : handlers[i].depth = d /\ Len(handlers[i].place) + 1 = k
  <2>1. /\ d \in 1 .. Len(frames) /\ k \in 1 .. Len(frames[d]) /\ frames[d][k].kind \in TryBodies
        /\ d # Top \/ k # Len(Here)
    <3>1. CASE d # Top
      BY <1>5, <1>10, <3>1
    <3>2. CASE d = Top
      <4>1. k \in 1 .. Len(place) /\ place[k].kind \in TryBodies
        BY <1>5, <1>10, <3>2
      <4>2. k # Len(Here)
        BY <1>4, <4>1 DEF TryBodies
      <4>3. k \in 1 .. Len(Here) - 1 /\ k \in 1 .. Len(Here) /\ place[k] = Here[k]
        BY <1>4, <4>1, <4>2
      <4>4. Here = frames[d] /\ d \in 1 .. Len(frames)
        BY <3>2, Shapes
      <4>5. QED
        BY <4>1, <4>2, <4>3, <4>4
    <3>3. QED
      BY <3>1, <3>2
  <2>2. PICK i \in 1 .. n : handlers[i].depth = d /\ Len(handlers[i].place) + 1 = k
    BY <2>1 DEF Exact, Covered
  <2>3. i # n
    BY <1>1, <2>1, <2>2
  <2>4. i \in 1 .. n - 1
    BY <1>1, <2>3
  <2>5. QED
    BY <2>2, <2>4
<1>11. QED
  BY <1>2, <1>3, <1>8, <1>9, <1>10, CutKeepsExact

\* doUnwind leaves what the innermost try body is inside of, and the try bodies
\* of the handlers below.
LEMMA UnwindStays ==
  ASSUME IInv, Exact, Unwind, handlers # <<>>,
         NEW i \in 1 .. Len(handlers) - 1, NEW k \in 1 .. Len(handlers[i].place) + 1
  PROVE  Stays(handlers[i].depth, k)
<1> DEFINE n == Len(handlers)
           h == handlers[n]
           d == handlers[i].depth
<1>1. /\ n \in Nat \ {0} /\ Len(frames') = h.depth
      /\ \A e \in 1 .. h.depth - 1 : frames'[e] = frames[e]
      /\ Len(frames'[h.depth]) = Len(h.place) + 1
      /\ \A l \in 1 .. Len(h.place) : frames'[h.depth][l] = h.place[l]
  BY UnwindShape DEF Last
<1>2. n \in 1 .. n /\ i \in 1 .. n
  BY <1>1
<1>3. /\ d \in 1 .. Len(frames) /\ k \in 1 .. Len(frames[d]) /\ d \in Nat
      /\ Len(handlers[i].place) \in Nat /\ Len(h.place) \in Nat
      /\ h.depth \in Nat /\ h.depth \in 1 .. Len(frames)
      /\ \A l \in 1 .. Len(h.place) : frames[h.depth][l] = h.place[l]
  BY <1>2, HandlerInFrame, HandlerShapes
<1>4. d < h.depth \/ (d = h.depth /\ Len(handlers[i].place) < Len(h.place))
  BY BelowLast
<1>5. d \in 1 .. Len(frames')
  BY <1>1, <1>3, <1>4
<1>6. CASE d < h.depth
  <2>1. d \in 1 .. h.depth - 1
    BY <1>3, <1>6
  <2>2. frames'[d] = frames[d]
    BY <1>1, <2>1
  <2>3. QED
    BY <1>3, <1>5, <2>2 DEF Stays
<1>7. CASE d = h.depth /\ Len(handlers[i].place) < Len(h.place)
  <2>1. k \in 1 .. Len(h.place) /\ k \in 1 .. Len(frames'[d])
    <3>1. ASSUME NEW a \in Nat, NEW b \in Nat, a < b
          PROVE  1 .. a + 1 \subseteq 1 .. b /\ 1 .. b \subseteq 1 .. b + 1
      BY <3>1
    <3>2. Len(frames'[d]) = Len(h.place) + 1
      BY <1>1, <1>7
    <3>3. QED
      BY <1>3, <1>7, <3>1, <3>2
  <2>2. frames'[d][k] = frames[d][k]
    BY <1>1, <1>3, <1>7, <2>1
  <2>3. QED
    BY <1>5, <2>1, <2>2 DEF Stays
<1>8. QED
  BY <1>4, <1>6, <1>7

LEMMA UnwindExact ==
  ASSUME IInv, Exact, IInv', Unwind
  PROVE  Exact'
<1>1. CASE handlers = <<>>
  <2>1. UNCHANGED <<frames, handlers>>
    BY <1>1 DEF Unwind
  <2>2. QED
    BY <2>1, SameExact
<1>2. CASE handlers # <<>>
  <2> DEFINE n == Len(handlers)
             h == handlers[n]
  <2>1. /\ n \in Nat \ {0} /\ handlers' = SubSeq(handlers, 1, n - 1) /\ Len(frames') = h.depth
        /\ \A e \in 1 .. h.depth - 1 : frames'[e] = frames[e]
        /\ Len(frames'[h.depth]) = Len(h.place) + 1
        /\ \A l \in 1 .. Len(h.place) : frames'[h.depth][l] = h.place[l]
        /\ frames'[h.depth][Len(h.place) + 1].kind = IF h.isFinally THEN "unwinding" ELSE "except"
    BY <1>2, UnwindShape DEF Last
  <2>2. n - 1 \in 0 .. n /\ n \in 1 .. n
    BY <2>1
  <2>3. Len(handlers') = n - 1 /\ \A i \in 1 .. n - 1 : handlers'[i] = handlers[i]
    BY <2>1, <2>2, PrefixProperties DEF IInv, TypeOK
  <2>4. /\ h.depth \in 1 .. Len(frames) /\ h.depth \in Nat /\ Len(h.place) \in Nat
        /\ Len(h.place) + 1 \in 1 .. Len(frames[h.depth])
        /\ \A l \in 1 .. Len(h.place) : frames[h.depth][l] = h.place[l]
    BY <2>2, HandlerInFrame, HandlerShapes
  <2> HIDE DEF h
  <2>5. Bounded'
    <3>1. ASSUME NEW d \in 1 .. Len(frames') PROVE Len(frames'[d]) <= MaxNesting
      <4>1. CASE d = h.depth
        <5>1. /\ Len(frames[d]) <= MaxNesting /\ Len(frames[d]) \in Nat
              /\ MaxNesting \in Nat
          BY <2>4, <4>1, Shapes, ExceptionsAssumption DEF Exact, Bounded
        <5>2. QED
          BY <2>1, <2>4, <4>1, <5>1
      <4>2. CASE d # h.depth
        <5>1. d \in 1 .. h.depth - 1 /\ d \in 1 .. Len(frames)
          BY <2>1, <2>4, <4>2, Shapes
        <5>2. QED
          BY <2>1, <5>1 DEF Exact, Bounded
      <4>3. QED
        BY <4>1, <4>2
    <3>2. QED
      BY <3>1 DEF Bounded
  <2>6. \A i \in 1 .. n - 1 : \A k \in 1 .. Len(handlers[i].place) + 1 : Stays(handlers[i].depth, k)
    BY <1>2, UnwindStays
  <2>7. ASSUME NEW d \in 1 .. Len(frames'), NEW k \in 1 .. Len(frames'[d]),
               frames'[d][k].kind \in TryBodies
        PROVE  \E i \in 1 .. n - 1 : handlers[i].depth = d /\ Len(handlers[i].place) + 1 = k
    <3>1. /\ d \in 1 .. Len(frames) /\ k \in 1 .. Len(frames[d]) /\ frames[d][k].kind \in TryBodies
          /\ d # h.depth \/ k # Len(h.place) + 1
      <4>1. CASE d = h.depth
        <5>1. k # Len(h.place) + 1
          BY <2>1, <2>7, <4>1 DEF TryBodies
        <5>2. k \in 1 .. Len(h.place) /\ k \in 1 .. Len(frames[d])
          BY <2>1, <2>4, <4>1, <5>1, Shapes
        <5>3. frames'[d][k] = frames[d][k]
          BY <2>1, <2>4, <4>1, <5>2
        <5>4. QED
          BY <2>4, <2>7, <4>1, <5>1, <5>2, <5>3
      <4>2. CASE d # h.depth
        <5>1. d \in 1 .. h.depth - 1 /\ d \in 1 .. Len(frames)
          BY <2>1, <2>4, <4>2, Shapes
        <5>2. QED
          BY <2>1, <2>7, <4>2, <5>1
      <4>3. QED
        BY <4>1, <4>2
    <3>2. PICK i \in 1 .. n : handlers[i].depth = d /\ Len(handlers[i].place) + 1 = k
      BY <3>1 DEF Exact, Covered
    <3>3. i # n
      BY <3>1, <3>2 DEF h
    <3>4. i \in 1 .. n - 1
      BY <2>1, <3>3
    <3>5. QED
      BY <3>2, <3>4
  <2>8. QED
    BY <2>2, <2>3, <2>5, <2>6, <2>7, CutKeepsExact
<1>3. QED
  BY <1>1, <1>2

LEMMA ReturnExact ==
  ASSUME IInv, Exact, IInv', Return
  PROVE  Exact'
<1>1. CASE Top = 1
  <2>1. UNCHANGED <<frames, handlers>>
    BY <1>1 DEF Return
  <2>2. QED
    BY <2>1, SameExact
<1>2. CASE Top # 1
  <2>1. PICK n \in 0 .. Len(handlers) :
           /\ \A i \in n + 1 .. Len(handlers) : handlers[i].depth = Top
           /\ handlers' = SubSeq(handlers, 1, n)
    BY <1>2 DEF Return, DropHandlers
  <2>2. /\ Len(handlers') = n /\ \A i \in 1 .. n : handlers'[i] = handlers[i]
        /\ n \in Nat /\ Len(handlers) \in Nat /\ \A i \in 1 .. n : i \in 1 .. Len(handlers)
    BY <2>1, PrefixProperties, HandlerShapes DEF IInv, TypeOK
  <2>3. /\ Len(frames') = Len(frames) - 1 /\ Top = Len(frames) /\ Len(frames) \in Nat \ {0}
        /\ \A d \in 1 .. Len(frames) - 1 : frames'[d] = frames[d]
        /\ \A d \in 1 .. Len(frames) - 1 : \A k \in 1 .. Len(frames[d]) : Stays(d, k)
    BY <1>2, ReturnShape, Shapes
  <2>4. \A d \in 1 .. Len(frames') : d \in 1 .. Len(frames) /\ d # Top /\ frames'[d] = frames[d]
    BY <2>3
  <2>5. Bounded'
    BY <2>4 DEF Exact, Bounded
  <2>6. ASSUME NEW i \in 1 .. n, NEW k \in 1 .. Len(handlers[i].place) + 1
        PROVE  Stays(handlers[i].depth, k)
    <3>1. i \in 1 .. Len(handlers') /\ handlers'[i] = handlers[i] /\ i \in 1 .. Len(handlers)
      BY <2>2
    <3>2. handlers'[i].depth \in 1 .. Len(frames')
      BY <3>1 DEF IInv, HandlersNested
    <3>3. handlers[i].depth \in 1 .. Len(frames) - 1
      BY <2>3, <3>1, <3>2
    <3>4. k \in 1 .. Len(frames[handlers[i].depth])
      BY <3>1, HandlerInFrame
    <3>5. QED
      BY <2>3, <3>3, <3>4
  <2>7. ASSUME NEW d \in 1 .. Len(frames'), NEW k \in 1 .. Len(frames'[d]),
               frames'[d][k].kind \in TryBodies
        PROVE  \E i \in 1 .. n : handlers[i].depth = d /\ Len(handlers[i].place) + 1 = k
    <3>1. d \in 1 .. Len(frames) /\ d # Top /\ frames'[d] = frames[d]
      BY <2>4
    <3>2. PICK i \in 1 .. Len(handlers) : handlers[i].depth = d /\ Len(handlers[i].place) + 1 = k
      BY <2>7, <3>1 DEF Exact, Covered
    <3>3. i \notin n + 1 .. Len(handlers)
      BY <2>1, <3>1, <3>2
    <3>4. i \in 1 .. n
      BY <2>2, <3>3
    <3>5. QED
      BY <3>2, <3>4
  <2>8. QED
    BY <2>2, <2>5, <2>6, <2>7, CutKeepsExact
<1>3. QED
  BY <1>1, <1>2

LEMMA CallExact ==
  ASSUME IInv, Exact, IInv', Call
  PROVE  Exact'
<1>1. UNCHANGED handlers /\ frames' = Append(frames, <<>>) /\ <<>> \in Place
  BY DEF Call, Place
<1>2. /\ Len(frames') = Len(frames) + 1 /\ frames'[Len(frames) + 1] = <<>>
      /\ \A d \in 1 .. Len(frames) : frames'[d] = frames[d]
  BY <1>1, Shapes, AppendProperties
<1>3. \A d \in 1 .. Len(frames') : d \in 1 .. Len(frames) \/ frames'[d] = <<>>
  BY <1>2, Shapes
<1>4. Len(<<>>) = 0 /\ 0 <= MaxNesting
  BY ExceptionsAssumption
<1>5. Bounded'
  <2>1. ASSUME NEW d \in 1 .. Len(frames') PROVE Len(frames'[d]) <= MaxNesting
    BY <1>2, <1>3, <1>4 DEF Exact, Bounded
  <2>2. QED
    BY <2>1 DEF Bounded
<1>6. ASSUME NEW i \in 1 .. Len(handlers), NEW k \in 1 .. Len(handlers[i].place) + 1
      PROVE  Stays(handlers[i].depth, k)
  <2>1. handlers[i].depth \in 1 .. Len(frames) /\ k \in 1 .. Len(frames[handlers[i].depth])
    BY HandlerInFrame
  <2>2. QED
    BY <2>1, GrowingStays DEF GrowingStep
<1>7. ASSUME NEW d \in 1 .. Len(frames'), NEW k \in 1 .. Len(frames'[d]),
             frames'[d][k].kind \in TryBodies
      PROVE  \E i \in 1 .. Len(handlers) :
               handlers[i].depth = d /\ Len(handlers[i].place) + 1 = k
  <2>1. frames'[d] # <<>>
    BY <1>4
  <2>2. d \in 1 .. Len(frames) /\ frames'[d] = frames[d]
    BY <1>2, <1>3, <2>1
  <2>3. QED
    BY <1>7, <2>2 DEF Exact, Covered
<1>8. Len(handlers) \in 0 .. Len(handlers) /\ Len(handlers') = Len(handlers)
      /\ \A i \in 1 .. Len(handlers) : handlers'[i] = handlers[i]
  BY <1>1, HandlerShapes
<1>9. QED
  BY <1>5, <1>6, <1>7, <1>8, CutKeepsExact

LEMMA NextExact ==
  ASSUME IInv, Exact, [Next]_vars, "jump" \notin program
  PROVE  Exact'
<1>1. IInv'
  BY NextIInv
<1>2. CASE QuietStep
  BY <1>1, <1>2, QuietExact
<1>3. CASE GrowingStep
  <2>1. CASE \E kind \in TryBodies, left \in 0 .. MaxCleanup : EnterTry(kind, left)
    BY <1>1, <2>1, EnterTryExact
  <2>2. CASE Call
    BY <1>1, <2>2, CallExact
  <2>3. CASE Recover \/ Ended \/ UNCHANGED vars
    <3>1. UNCHANGED <<frames, handlers>>
      BY <2>3 DEF Recover, Ended, vars
    <3>2. QED
      BY <3>1, SameExact
  <2>4. QED
    BY <1>3, <2>1, <2>2, <2>3 DEF GrowingStep
<1>4. CASE EndTryBody
  BY <1>1, <1>4, EndTryExact
<1>5. CASE UnwindingStep
  BY <1>1, <1>5, UnwindingUnwinds, UnwindExact
<1>6. CASE EndRoutine \/ Exit
  BY <1>1, <1>6, ReturnExact DEF EndRoutine, Exit
<1>7. QED
  BY <1>2, <1>3, <1>4, <1>5, <1>6, StepsSorted

JInv == IInv /\ ("jump" \notin program => Exact)

LEMMA InitJInv == Init => JInv
<1> SUFFICES ASSUME Init PROVE JInv
  OBVIOUS
<1>1. frames = <<<<>>>> /\ handlers = <<>> /\ Len(frames) = 1 /\ Len(handlers) = 0
  BY DEF Init
<1>2. \A d \in 1 .. Len(frames) : Len(frames[d]) = 0
  BY <1>1
<1>3. Bounded
  BY <1>2, ExceptionsAssumption DEF Bounded
<1>4. AllHeld /\ Covered /\ Ordered
  BY <1>1, <1>2 DEF AllHeld, Covered, Ordered
<1>5. QED
  BY <1>3, <1>4, InitIInv DEF JInv, Exact

LEMMA NextJInv == JInv /\ [Next]_vars => JInv'
  BY NextIInv, NextExact, ProgramIsConstant DEF JInv

\* In a program that jumps out of no try statement, the handler stack is exactly
\* the try bodies the program is inside of, from the outermost to the innermost:
\* whatever unwinds, after calls, returns, exits and exceptions in any order,
\* goes to the innermost try that is open.
THEOREM HandlersAreTheOpenTries == Spec => []HandlersExact
<1>1. JInv => HandlersExact
  BY ExactHandlers DEF JInv, HandlersExact
<1>2. QED
  BY <1>1, InitJInv, NextJInv, PTL DEF Spec

-----------------------------------------------------------------------------
(* Cleanups that have to start.                                              *)

LEMMA StepStartsCleanups ==
  ASSUME IInv, Exact, [Next]_vars, Tame,
         NEW d \in 1 .. Len(frames), NEW k \in 1 .. Len(frames[d]),
         frames[d][k].kind = "try_finally"
  PROVE  InCleanup({"try_finally"} \cup Cleanups, d, k)'
<1>1. frames[d][k].kind \in TryBodies /\ "jump" \notin program
  BY DEF TryBodies, Tame
<1>2. /\ d \in Nat /\ k \in Nat /\ Len(Here) \in Nat /\ Top \in Nat /\ d <= Top
      /\ Top = Len(frames)
  BY Shapes
<1>3. ASSUME Stays(d, k) PROVE InCleanup({"try_finally"} \cup Cleanups, d, k)'
  <2>1. d \in 1 .. Len(frames') /\ k \in 1 .. Len(frames'[d])
        /\ frames'[d][k].kind = "try_finally"
    BY <1>3 DEF Stays
  <2>2. d <= Len(frames') /\ k <= Len(frames'[d])
    <3>1. Len(frames') \in Nat /\ Len(frames'[d]) \in Nat
      <4>1. frames' \in Seq(Place)
        BY NextIInv DEF IInv, TypeOK
      <4>2. frames'[d] \in Place
        BY <2>1, <4>1
      <4>3. QED
        BY <4>1, <4>2 DEF Place
    <3>2. QED
      BY <2>1, <3>1
  <2>3. QED
    BY <2>1, <2>2 DEF InCleanup
<1>4. CASE QuietStep
  <2>1. PICK place \in Place, m \in 0 .. Len(Here) : Moved(place, m)
    BY <1>1, <1>4, QuietMoves
  <2>2. Len(place) \in Nat
    BY DEF Place
  <2>3. d # Top \/ k <= m
    <3>1. ASSUME d = Top, ~ (k <= m) PROVE FALSE
      <4>1. Here = frames[d] /\ k \in m + 1 .. Len(Here)
        BY <1>2, <3>1, Shapes
      <4>2. QED
        BY <1>1, <2>1, <4>1 DEF Moved
    <3>2. QED
      BY <3>1
  <2>4. Stays(d, k)
    BY <2>1, <2>2, <2>3, MovedStays
  <2>5. QED
    BY <1>3, <2>4
<1>5. CASE GrowingStep
  BY <1>3, <1>5, GrowingStays
<1>6. CASE EndTryBody
  <2>1. CASE d # Top \/ k # Len(Here)
    BY <1>3, <1>6, <2>1, EndTryStays
  <2>2. CASE d = Top /\ k = Len(Here)
    <3>1. PICK place \in Place :
            /\ MoveTo(place) /\ Len(Here) \in Nat \ {0}
            /\ Here[Len(Here)].kind = "try_finally" => Len(place) = Len(Here)
            /\ Len(place) = Len(Here) => place[Len(Here)].kind = "normal"
      BY <1>6, EndTryShape
    <3>2. Here = frames[d]
      BY <2>2, Shapes
    <3>3. Len(place) = Len(Here) /\ place[k].kind = "normal"
      BY <2>2, <3>1, <3>2
    <3>4. Len(frames') = Len(frames) /\ frames'[Top] = place
      BY <3>1, MoveShape
    <3>5. d <= Len(frames') /\ k <= Len(frames'[d]) /\ frames'[d][k].kind = "normal"
      BY <1>2, <2>2, <3>3, <3>4
    <3>6. QED
      BY <3>5 DEF InCleanup, Cleanups
  <2>3. QED
    BY <2>1, <2>2
<1>7. CASE UnwindingStep
  <2> DEFINE n == Len(handlers)
             h == handlers[n]
  <2>1. PICK i \in 1 .. n : handlers[i].depth = d /\ Len(handlers[i].place) + 1 = k
    BY <1>1 DEF Exact, Covered
  <2>2. n \in Nat \ {0} /\ n \in 1 .. n
    BY HandlerShapes
  <2>3. Unwind /\ handlers # <<>>
    <3>1. Len(<<>>) = 0
      OBVIOUS
    <3>2. QED
      BY <1>7, <2>2, <3>1, UnwindingUnwinds
  <2>4. CASE i # n
    <3>1. i \in 1 .. n - 1
      BY <2>2, <2>4
    <3>2. Len(handlers[i].place) + 1 \in 1 .. Len(handlers[i].place) + 1
      BY <2>1, HandlerShapes
    <3>3. Stays(d, k)
      BY <2>1, <2>3, <3>1, <3>2, UnwindStays
    <3>4. QED
      BY <1>3, <3>3
  <2>5. CASE i = n
    <3>1. h.depth = d /\ Len(h.place) + 1 = k
      BY <2>1, <2>5
    <3>2. frames[d][k].kind = IF h.isFinally THEN "try_finally" ELSE "try_except"
      BY <2>2, <3>1, HandlerInFrame
    <3>3. h.isFinally
      BY <3>2
    <3>4. /\ Len(frames') = h.depth /\ Len(frames'[h.depth]) = Len(h.place) + 1
          /\ frames'[h.depth][Len(h.place) + 1].kind
               = IF h.isFinally THEN "unwinding" ELSE "except"
      BY <2>3, UnwindShape DEF Last
    <3>5. d <= Len(frames') /\ k <= Len(frames'[d]) /\ frames'[d][k].kind = "unwinding"
      BY <1>2, <3>1, <3>3, <3>4
    <3>6. QED
      BY <3>5 DEF InCleanup, Cleanups
  <2>6. QED
    BY <2>4, <2>5
<1>8. CASE EndRoutine \/ Exit
  <2>1. Return /\ Running /\ \A i \in 1 .. Len(Here) : Here[i].kind \notin TryBodies \cup Cleanups
    BY <1>8, TameReturns
  <2>2. d # Top
    BY <1>1, <2>1, Shapes
  <2>3. d \in 1 .. Len(frames) - 1 /\ Top # 1
    BY <1>2, <2>2
  <2>4. Stays(d, k)
    BY <2>1, <2>3, ReturnShape
  <2>5. QED
    BY <1>3, <2>4
<1>9. QED
  BY <1>4, <1>5, <1>6, <1>7, <1>8, StepsSorted

\* The body of a try/finally, and so a routine with deferred statements, is left
\* by its end or by an exception, raised in it or in a callee, only into its
\* cleanup.
THEOREM CleanupsStart == Spec => CleanupStarts
<1>1. ASSUME JInv, [Next]_vars
      PROVE  [program \cap {"exit", "jump"} = {} =>
                \A d \in 1 .. Len(frames) : \A i \in 1 .. Len(frames[d]) :
                  frames[d][i].kind = "try_finally" =>
                    InCleanup({"try_finally"} \cup Cleanups, d, i)']_vars
  <2> SUFFICES ASSUME Tame, NEW d \in 1 .. Len(frames), NEW i \in 1 .. Len(frames[d]),
                      frames[d][i].kind = "try_finally"
               PROVE  InCleanup({"try_finally"} \cup Cleanups, d, i)'
    BY DEF Tame
  <2>1. "jump" \notin program
    BY DEF Tame
  <2>2. QED
    BY <1>1, <2>1, StepStartsCleanups DEF JInv
<1>2. QED
  BY <1>1, InitJInv, NextJInv, PTL DEF Spec, CleanupStarts
-----------------------------------------------------------------------------
(* Cleanups that begin.                                                      *)

Kept(d, k) ==
  d \in 1 .. Len(frames) /\ k \in 1 .. Len(frames[d]) /\ frames'[d][k] = frames[d][k]

LEMMA KeptGoesOn ==
  ASSUME IInv, NEW d, NEW k, Kept(d, k)
  PROVE  frames'[d][k].kind \in Cleanups => GoesOn(d, k)
<1>1. d <= Len(frames) /\ k <= Len(frames[d]) /\ frames[d][k].left \in Nat
  BY Shapes, ExceptionsAssumption DEF Kept, Statement
<1>2. QED
  BY <1>1 DEF Kept, GoesOn, InCleanup

\* A step within the running routine enters no cleanup and sets none back.
LEMMA QuietGoesOn ==
  ASSUME IInv, QuietStep, "jump" \notin program,
         NEW d \in 1 .. Len(frames'), NEW k \in 1 .. Len(frames'[d]),
         frames'[d][k].kind \in Cleanups
  PROVE  GoesOn(d, k)
<1>1. PICK place \in Place, m \in 0 .. Len(Here) : Moved(place, m)
  BY QuietMoves
<1>2. /\ Len(frames') = Len(frames) /\ frames'[Top] = place
      /\ \A e \in 1 .. Len(frames) : e # Top => frames'[e] = frames[e]
  BY <1>1, MoveShape DEF Moved
<1>3. Len(place) \in Nat /\ Len(Here) \in Nat /\ Here = frames[Top] /\ Top \in 1 .. Len(frames)
  BY Shapes DEF Place
<1>4. CASE d # Top
  BY <1>2, <1>4, KeptGoesOn DEF Kept
<1>5. CASE d = Top /\ k <= m
  <2>1. k \in 1 .. m /\ k \in 1 .. Len(Here) /\ place[k] = Here[k]
    BY <1>1, <1>2, <1>3, <1>5 DEF Moved
  <2>2. QED
    BY <1>2, <1>3, <1>5, <2>1, KeptGoesOn DEF Kept
<1>6. CASE d = Top /\ ~ (k <= m)
  <2>1. k \in m + 1 .. Len(place) /\ frames'[d][k] = place[k]
    BY <1>2, <1>3, <1>6
  <2>2. k <= Len(Here) /\ place[k].kind = Here[k].kind /\ place[k].left <= Here[k].left
    BY <1>1, <2>1 DEF Moved
  <2>3. d <= Len(frames)
    BY <1>3, <1>6, Shapes
  <2>4. QED
    BY <1>3, <1>6, <2>1, <2>2, <2>3 DEF GoesOn, InCleanup
<1>7. QED
  BY <1>4, <1>5, <1>6

\* What a call, a try, or recover adds is no cleanup.
LEMMA GrowingKeeps ==
  ASSUME IInv, GrowingStep,
         NEW d \in 1 .. Len(frames'), NEW k \in 1 .. Len(frames'[d]),
         frames'[d][k].kind \in Cleanups
  PROVE  Kept(d, k)
<1>1. CASE \E kind \in TryBodies, left \in 0 .. MaxCleanup : EnterTry(kind, left)
  <2>1. PICK kind \in TryBodies, left \in 0 .. MaxCleanup : EnterTry(kind, left)
    BY <1>1
  <2> DEFINE new == [kind |-> kind, left |-> left]
             place == Append(Here, new)
  <2>2. MoveTo(place)
    BY <2>1 DEF EnterTry
  <2>3. new \in Statement /\ new.kind \notin Cleanups
    BY DEF Statement, Kinds, TryBodies, Cleanups
  <2> HIDE DEF new
  <2>4. /\ Len(place) = Len(Here) + 1 /\ place[Len(Here) + 1] = new
        /\ \A i \in 1 .. Len(Here) : place[i] = Here[i]
    BY <2>3, HereProperties, AppendProperties DEF Place
  <2> HIDE DEF place
  <2>5. /\ Len(frames') = Len(frames) /\ frames'[Top] = place
        /\ \A e \in 1 .. Len(frames) : e # Top => frames'[e] = frames[e]
    BY <2>2, MoveShape
  <2>6. CASE d = Top
    <3>1. Here = frames[d] /\ Len(Here) \in Nat /\ d \in 1 .. Len(frames)
      BY <2>6, Shapes
    <3>2. k \in 1 .. Len(Here)
      BY <2>3, <2>4, <2>5, <2>6, <3>1
    <3>3. QED
      BY <2>4, <2>5, <2>6, <3>1, <3>2 DEF Kept
  <2>7. CASE d # Top
    BY <2>5, <2>7 DEF Kept
  <2>8. QED
    BY <2>6, <2>7
<1>2. CASE Call
  <2>1. frames' = Append(frames, <<>>) /\ <<>> \in Place
    BY <1>2 DEF Call, Place
  <2>2. /\ Len(frames') = Len(frames) + 1 /\ frames'[Len(frames) + 1] = <<>>
        /\ \A i \in 1 .. Len(frames) : frames'[i] = frames[i]
    BY <2>1, Shapes, AppendProperties
  <2>3. Len(<<>>) = 0
    OBVIOUS
  <2>4. d # Len(frames) + 1
    BY <2>2, <2>3
  <2>5. d \in 1 .. Len(frames)
    BY <2>2, <2>4, Shapes
  <2>6. QED
    BY <2>2, <2>5 DEF Kept
<1>3. CASE Recover \/ Ended \/ UNCHANGED vars
  BY <1>3 DEF Recover, Ended, vars, Kept
<1>4. QED
  BY <1>1, <1>2, <1>3 DEF GrowingStep

LEMMA EndTryStarts ==
  ASSUME IInv, EndTryBody,
         NEW d \in 1 .. Len(frames'), NEW k \in 1 .. Len(frames'[d]),
         frames'[d][k].kind \in Cleanups
  PROVE  Kept(d, k) \/ Starts(d, k)
<1>1. PICK place \in Place :
        /\ MoveTo(place) /\ Len(Here) \in Nat \ {0}
        /\ Len(place) = Len(Here) \/ Len(place) = Len(Here) - 1
        /\ \A i \in 1 .. Len(Here) - 1 : place[i] = Here[i]
        /\ Len(place) = Len(Here) =>
             /\ Here[Len(Here)].kind = "try_finally"
             /\ place[Len(Here)].left = Here[Len(Here)].left
  BY EndTryShape
<1>2. /\ Len(frames') = Len(frames) /\ frames'[Top] = place
      /\ \A e \in 1 .. Len(frames) : e # Top => frames'[e] = frames[e]
  BY <1>1, MoveShape
<1>3. CASE d # Top
  BY <1>2, <1>3 DEF Kept
<1>4. CASE d = Top
  <2>1. Here = frames[d] /\ frames'[d] = place /\ d <= Len(frames) /\ d \in 1 .. Len(frames)
    BY <1>2, <1>4, Shapes
  <2>2. CASE k \in 1 .. Len(Here) - 1
    <3>1. k \in 1 .. Len(Here) /\ place[k] = Here[k]
      BY <1>1, <2>2
    <3>2. QED
      BY <2>1, <3>1 DEF Kept
  <2>3. CASE k \notin 1 .. Len(Here) - 1
    <3>1. k = Len(Here) /\ Len(place) = Len(Here)
      BY <1>1, <2>1, <2>3
    <3>2. QED
      BY <1>1, <2>1, <3>1 DEF Starts, InCleanup
  <2>4. QED
    BY <2>2, <2>3
<1>5. QED
  BY <1>3, <1>4

\* An exception brings the program to the cleanup of the innermost try/finally
\* that is open, and to no other.
LEMMA UnwindStarts ==
  ASSUME IInv, Exact, Unwind,
         NEW d \in 1 .. Len(frames'), NEW k \in 1 .. Len(frames'[d]),
         frames'[d][k].kind \in Cleanups
  PROVE  Kept(d, k) \/ Starts(d, k)
<1>1. CASE handlers = <<>>
  BY <1>1 DEF Unwind, Kept
<1>2. CASE handlers # <<>>
  <2> DEFINE n == Len(handlers)
             h == handlers[n]
             last == Len(h.place) + 1
  <2>1. /\ n \in Nat \ {0} /\ h.depth \in 1 .. Len(frames)
        /\ Len(frames') = h.depth
        /\ \A e \in 1 .. h.depth - 1 : frames'[e] = frames[e]
        /\ Len(frames'[h.depth]) = last
        /\ \A l \in 1 .. Len(h.place) : frames'[h.depth][l] = h.place[l]
        /\ frames'[h.depth][last].kind = IF h.isFinally THEN "unwinding" ELSE "except"
        /\ frames'[h.depth][last].left = h.left
    BY <1>2, UnwindShape DEF Last
  <2>2. n \in 1 .. Len(handlers)
    BY <2>1
  <2>3. /\ last \in 1 .. Len(frames[h.depth])
        /\ frames[h.depth][last].kind = IF h.isFinally THEN "try_finally" ELSE "try_except"
        /\ frames[h.depth][last].left = h.left
        /\ \A l \in 1 .. last : l \in 1 .. Len(frames[h.depth])
        /\ \A l \in 1 .. Len(h.place) : frames[h.depth][l] = h.place[l]
    BY <2>2, HandlerInFrame
  <2>4. Len(h.place) \in Nat /\ h.depth \in Nat /\ Len(frames) \in Nat
        /\ Len(frames[h.depth]) \in Nat
    BY <2>1, <2>2, HandlerShapes, Shapes
  <2>5. CASE d # h.depth
    <3>1. d \in 1 .. h.depth - 1 /\ d \in 1 .. Len(frames)
      BY <2>1, <2>4, <2>5
    <3>2. QED
      BY <2>1, <3>1 DEF Kept
  <2>6. CASE d = h.depth /\ k # last
    <3>1. k \in 1 .. Len(h.place) /\ k \in 1 .. last
      BY <2>1, <2>4, <2>6
    <3>2. frames'[d][k] = frames[d][k] /\ k \in 1 .. Len(frames[d])
      BY <2>1, <2>3, <2>6, <3>1
    <3>3. QED
      BY <2>1, <2>6, <3>2 DEF Kept
  <2>7. CASE d = h.depth /\ k = last
    <3>1. h.isFinally
      BY <2>1, <2>7 DEF Cleanups
    <3>2. frames[d][k].kind = "try_finally" /\ frames'[d][k].left = frames[d][k].left
      BY <2>1, <2>3, <2>7, <3>1
    <3>3. d <= Len(frames) /\ k <= Len(frames[d])
      BY <2>1, <2>3, <2>4, <2>7
    <3>4. QED
      BY <3>2, <3>3 DEF Starts, InCleanup
  <2>8. QED
    BY <2>5, <2>6, <2>7
<1>3. QED
  BY <1>1, <1>2

LEMMA StepStartsOnce ==
  ASSUME IInv, Exact, [Next]_vars, "jump" \notin program,
         NEW d \in 1 .. Len(frames'), NEW k \in 1 .. Len(frames'[d]),
         frames'[d][k].kind \in Cleanups
  PROVE  GoesOn(d, k) \/ Starts(d, k)
<1>1. CASE QuietStep
  BY <1>1, QuietGoesOn
<1>2. CASE GrowingStep
  BY <1>2, GrowingKeeps, KeptGoesOn
<1>3. CASE EndTryBody
  BY <1>3, EndTryStarts, KeptGoesOn
<1>4. CASE UnwindingStep
  BY <1>4, UnwindingUnwinds, UnwindStarts, KeptGoesOn
<1>5. CASE EndRoutine \/ Exit
  <2>1. Return
    BY <1>5 DEF EndRoutine, Exit
  <2>2. CASE Top = 1
    <3>1. frames' = frames
      BY <2>1, <2>2 DEF Return
    <3>2. QED
      BY <3>1, KeptGoesOn DEF Kept
  <2>3. CASE Top # 1
    <3>1. Len(frames') = Len(frames) - 1
          /\ \A e \in 1 .. Len(frames) - 1 : frames'[e] = frames[e]
      BY <2>1, <2>3, ReturnShape
    <3>2. d \in 1 .. Len(frames) /\ d \in 1 .. Len(frames) - 1
      BY <3>1, Shapes
    <3>3. QED
      BY <3>1, <3>2, KeptGoesOn DEF Kept
  <2>4. QED
    BY <2>2, <2>3
<1>6. QED
  BY <1>1, <1>2, <1>3, <1>4, <1>5, StepsSorted

\* In a program that jumps out of no try statement, a cleanup runs at most once
\* for each time its try is entered, and never without it, whatever calls,
\* returns, exits, exceptions and unwinding builtins come in between.
THEOREM CleanupsRunOnce == Spec => CleanupOnce
<1>1. ASSUME JInv, [Next]_vars
      PROVE  ["jump" \notin program =>
               \A d \in 1 .. Len(frames') : \A i \in 1 .. Len(frames'[d]) :
                 frames'[d][i].kind \in Cleanups => GoesOn(d, i) \/ Starts(d, i)]_vars
  BY <1>1, StepStartsOnce DEF JInv
<1>2. QED
  BY <1>1, InitJInv, NextJInv, PTL DEF Spec, CleanupOnce
=============================================================================
