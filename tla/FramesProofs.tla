---------------------------- MODULE FramesProofs ----------------------------
(***************************************************************************)
(* Proofs about Frames: for any number of fibers, frames, routines and     *)
(* handlers, and whatever closures escape, a frame is never in two places. *)
(***************************************************************************)
EXTENDS Frames, SequenceTheorems, FiniteSetTheorems, TLAPS

\* A frame that is on a call stack or in the pool has served an activation, so
\* that it is not taken for a new one.
UsedFrames ==
  /\ \A f \in Fiber : \A i \in 1 .. Depth(f) : act[calls[f][i]] # 0
  /\ \A i \in 1 .. Len(pool) : act[pool[i]] # 0

FrameInv == TypeOK /\ FrameOnce /\ UsedFrames

USE FramesAssumption

-----------------------------------------------------------------------------
(* getFrame and the stack it pushes onto.                                   *)

\* getFrame hands out a frame that is neither on a call stack nor left in the
\* pool.
LEMMA GetFrameFresh ==
  ASSUME FrameInv, NEW frame \in Available
  PROVE  /\ frame \in Frame
         /\ \A f \in Fiber : \A i \in 1 .. Depth(f) : calls[f][i] # frame
         /\ \A i \in 1 .. Len(PoolLeft) : PoolLeft[i] # frame
<1>1. CASE pool = <<>>
  BY <1>1 DEF Available, PoolLeft, FrameInv, UsedFrames
<1>2. CASE pool # <<>>
  <2>0. pool \in Seq(Frame)
    BY DEF FrameInv, TypeOK
  <2>1. frame = pool[Len(pool)] /\ Len(pool) \in Nat /\ Len(pool) >= 1
    BY <1>2, <2>0 DEF Available
  <2>2. \A f \in Fiber : \A i \in 1 .. Depth(f) : calls[f][i] # frame
    BY <2>1 DEF FrameInv, FrameOnce
  <2>3. PoolLeft = SubSeq(pool, 1, Len(pool) - 1)
    BY <1>2 DEF PoolLeft
  <2>4. \A i \in 1 .. Len(PoolLeft) : i < Len(pool) /\ PoolLeft[i] = pool[i]
    <3>1. pool \in Seq(Frame)
      BY DEF FrameInv, TypeOK
    <3>2. QED
      BY <2>1, <2>3, <3>1
  <2>5. \A i \in 1 .. Len(PoolLeft) : PoolLeft[i] # frame
    BY <2>1, <2>4 DEF FrameInv, FrameOnce
  <2>6. QED
    BY <2>1, <2>2, <2>5 DEF FrameInv, TypeOK
<1>3. QED
  BY <1>1, <1>2

\* What is left of the pool is a beginning of it.
LEMMA PoolLeftPart ==
  ASSUME TypeOK
  PROVE  /\ PoolLeft \in Seq(Frame)
         /\ \A i \in 1 .. Len(PoolLeft) : i \in 1 .. Len(pool) /\ PoolLeft[i] = pool[i]
<1>1. pool \in Seq(Frame)
  BY DEF TypeOK
<1>2. CASE pool = <<>>
  BY <1>1, <1>2 DEF PoolLeft
<1>3. CASE pool # <<>>
  <2>1. PoolLeft = SubSeq(pool, 1, Len(pool) - 1) /\ Len(pool) \in Nat /\ Len(pool) >= 1
    BY <1>1, <1>3 DEF PoolLeft
  <2>2. QED
    BY <1>1, <2>1
<1>4. QED
  BY <1>2, <1>3

\* A call or a spawn: a frame of the pool, or a new one, goes on one stack.
LEMMA PushKeeps ==
  ASSUME FrameInv,
         NEW fiber \in Fiber, NEW frame \in Frame,
         NEW given \in SUBSET Reference, NEW hasOwn \in BOOLEAN,
         Activate(frame, given, hasOwn), Push(fiber, frame)
  PROVE  FrameOnce' /\ UsedFrames'
<1>1. frame \in Available /\ pool' = PoolLeft
      /\ act' = [act EXCEPT ![frame] = started + 1]
      /\ calls' = [calls EXCEPT ![fiber] = Append(@, frame)]
  BY DEF Activate, Push
<1>2. /\ \A f \in Fiber : \A i \in 1 .. Depth(f) : calls[f][i] # frame
      /\ \A i \in 1 .. Len(PoolLeft) : PoolLeft[i] # frame
  BY <1>1, GetFrameFresh
<1>3. \A f \in Fiber : \A i \in 1 .. Depth(f)' :
        \/ i \in 1 .. Depth(f) /\ calls'[f][i] = calls[f][i]
        \/ f = fiber /\ i = Depth(f) + 1 /\ calls'[f][i] = frame
  <2>1. ASSUME NEW f \in Fiber, NEW i \in 1 .. Len(calls'[f])
        PROVE  \/ i \in 1 .. Len(calls[f]) /\ calls'[f][i] = calls[f][i]
               \/ f = fiber /\ i = Len(calls[f]) + 1 /\ calls'[f][i] = frame
    <3>1. calls \in [Fiber -> Seq(Frame)]
      BY DEF FrameInv, TypeOK
    <3>2. CASE f # fiber
      BY <1>1, <2>1, <3>1, <3>2
    <3>3. CASE f = fiber
      <4>1. calls'[f] = Append(calls[f], frame) /\ calls[f] \in Seq(Frame)
        BY <1>1, <3>1, <3>3
      <4>2. QED
        BY <2>1, <3>3, <4>1
    <3>4. QED
      BY <3>2, <3>3
  <2>2. QED
    BY <2>1 DEF Depth
<1>4. \A i \in 1 .. Len(PoolLeft) : i \in 1 .. Len(pool) /\ PoolLeft[i] = pool[i]
  BY PoolLeftPart DEF FrameInv
<1>5. FrameOnce'
  <2>1. \A f \in Fiber : \A i, j \in 1 .. Depth(f)' : calls'[f][i] = calls'[f][j] => i = j
    BY <1>2, <1>3 DEF FrameInv, FrameOnce
  <2>2. \A f, g \in Fiber : \A i \in 1 .. Depth(f)', j \in 1 .. Depth(g)' :
          calls'[f][i] = calls'[g][j] => f = g
    BY <1>2, <1>3 DEF FrameInv, FrameOnce
  <2>3. \A i, j \in 1 .. Len(pool') : pool'[i] = pool'[j] => i = j
    BY <1>1, <1>4 DEF FrameInv, FrameOnce
  <2>4. \A f \in Fiber : \A i \in 1 .. Depth(f)', j \in 1 .. Len(pool') :
          calls'[f][i] # pool'[j]
    <3>1. ASSUME NEW f \in Fiber, NEW i \in 1 .. Depth(f)', NEW j \in 1 .. Len(pool')
          PROVE  calls'[f][i] # pool'[j]
      <4>1. j \in 1 .. Len(pool) /\ pool'[j] = pool[j] /\ pool'[j] # frame
        BY <1>1, <1>2, <1>4
      <4>2. QED
        BY <1>3, <4>1 DEF FrameInv, FrameOnce
    <3>2. QED
      BY <3>1
  <2>5. QED
    BY <2>1, <2>2, <2>3, <2>4 DEF FrameOnce
<1>6. UsedFrames'
  <2>1. \A f \in Frame : act[f] # 0 => act'[f] # 0
    BY <1>1 DEF FrameInv, TypeOK
  <2>2. act'[frame] # 0
    BY <1>1 DEF FrameInv, TypeOK
  <2>3. \A f \in Fiber : \A i \in 1 .. Depth(f)' : act'[calls'[f][i]] # 0
    <3>1. \A f \in Fiber : \A i \in 1 .. Depth(f) : calls[f][i] \in Frame /\ act[calls[f][i]] # 0
      <4>1. \A f \in Fiber : calls[f] \in Seq(Frame)
        BY DEF FrameInv, TypeOK
      <4>2. QED
        BY <4>1 DEF FrameInv, UsedFrames, Depth
    <3>2. QED
      BY <1>3, <2>1, <2>2, <3>1
  <2>4. \A i \in 1 .. Len(pool') : act'[pool'[i]] # 0
    <3>1. \A i \in 1 .. Len(pool) : pool[i] \in Frame /\ act[pool[i]] # 0
      <4>1. pool \in Seq(Frame)
        BY DEF FrameInv, TypeOK
      <4>2. QED
        BY <4>1 DEF FrameInv, UsedFrames
    <3>2. QED
      BY <1>1, <1>4, <2>1, <3>1
  <2>5. QED
    BY <2>3, <2>4 DEF UsedFrames
<1>7. QED
  BY <1>5, <1>6

\* And the types of what a call or a spawn writes.
LEMMA PushTypes ==
  ASSUME TypeOK,
         NEW fiber \in Fiber, NEW frame \in Frame,
         NEW given \in SUBSET Reference, NEW hasOwn \in BOOLEAN,
         Activate(frame, given, hasOwn), Push(fiber, frame),
         Cardinality(given) \in Nat
  PROVE  /\ calls' \in [Fiber -> Seq(Frame)] /\ calls'[Main] # <<>>
         /\ pool' \in Seq(Frame)
         /\ act' \in [Frame -> Nat]
         /\ array' \in [Frame -> Nat]
         /\ room' \in [Frame -> Nat]
         /\ own' \in [Frame -> BOOLEAN]
         /\ refs' \in [Frame -> SUBSET Reference]
         /\ started' \in Nat
<1>1. pool' \in Seq(Frame)
  BY PoolLeftPart DEF Activate
<1>2. calls' \in [Fiber -> Seq(Frame)] /\ calls'[Main] # <<>>
  <2>1. calls' = [calls EXCEPT ![fiber] = Append(@, frame)]
    BY DEF Push
  <2>2. calls[fiber] \in Seq(Frame) /\ Append(calls[fiber], frame) \in Seq(Frame)
    BY DEF TypeOK
  <2>3. Append(calls[fiber], frame) # <<>>
    BY <2>2
  <2>4. QED
    BY <2>1, <2>2, <2>3 DEF TypeOK
<1>3. act' \in [Frame -> Nat] /\ own' \in [Frame -> BOOLEAN] /\ started' \in Nat
  <2>1. /\ act' = [act EXCEPT ![frame] = started + 1] /\ started' = started + 1
        /\ own' = [own EXCEPT ![frame] = hasOwn]
    BY DEF Activate
  <2>2. act \in [Frame -> Nat] /\ own \in [Frame -> BOOLEAN] /\ started \in Nat
    BY DEF TypeOK
  <2>3. QED
    BY <2>1, <2>2
<1>4. array' \in [Frame -> Nat] /\ room' \in [Frame -> Nat]
  <2> DEFINE size == Cardinality(given) + (IF hasOwn THEN 1 ELSE 0)
             fits == pool # <<>> /\ room[frame] >= size
  <2>1. /\ array' = [array EXCEPT ![frame] = IF fits THEN @ ELSE started + 1]
        /\ room' = [room EXCEPT ![frame] = IF fits THEN @ ELSE size]
    BY DEF Activate
  <2>2. size \in Nat
    OBVIOUS
  <2>3. array \in [Frame -> Nat] /\ room \in [Frame -> Nat] /\ started \in Nat
    BY DEF TypeOK
  <2> HIDE DEF fits, size
  <2>4. QED
    BY <2>1, <2>2, <2>3
<1>5. refs' \in [Frame -> SUBSET Reference]
  BY DEF Activate, Locals, TypeOK
<1>6. QED
  BY <1>1, <1>2, <1>3, <1>4, <1>5

-----------------------------------------------------------------------------
(* putFrame: the frames above a depth move from a stack to the pool.        *)

LEMMA PopToShape ==
  ASSUME TypeOK, NEW fiber \in Fiber, NEW depth \in 0 .. Depth(fiber), PopTo(fiber, depth)
  PROVE  /\ calls' \in [Fiber -> Seq(Frame)]
         /\ \A f \in Fiber : f # fiber => calls'[f] = calls[f]
         /\ Len(calls'[fiber]) = depth
         /\ \A i \in 1 .. depth : calls'[fiber][i] = calls[fiber][i]
         /\ pool' \in Seq(Frame)
         /\ \A i \in 1 .. Len(pool') :
              \/ i \in 1 .. Len(pool) /\ pool'[i] = pool[i]
              \/ \E j \in depth + 1 .. Depth(fiber) :
                   i = Len(pool) + Depth(fiber) + 1 - j /\ pool'[i] = calls[fiber][j]
<1>1. calls[fiber] \in Seq(Frame) /\ pool \in Seq(Frame) /\ Depth(fiber) \in Nat
  BY DEF TypeOK, Depth
<1>2. /\ SubSeq(calls[fiber], 1, depth) \in Seq(Frame)
      /\ Len(SubSeq(calls[fiber], 1, depth)) = depth
      /\ \A i \in 1 .. depth : SubSeq(calls[fiber], 1, depth)[i] = calls[fiber][i]
  BY <1>1 DEF Depth
<1>3. calls' = [calls EXCEPT ![fiber] = SubSeq(@, 1, depth)]
  BY DEF PopTo
<1>4. /\ calls' \in [Fiber -> Seq(Frame)]
      /\ \A f \in Fiber : f # fiber => calls'[f] = calls[f]
      /\ Len(calls'[fiber]) = depth
      /\ \A i \in 1 .. depth : calls'[fiber][i] = calls[fiber][i]
  BY <1>2, <1>3 DEF TypeOK
<1>5. /\ Released(fiber, depth) \in Seq(Frame)
      /\ Len(Released(fiber, depth)) = Depth(fiber) - depth
      /\ \A i \in 1 .. Depth(fiber) - depth :
           Released(fiber, depth)[i] = calls[fiber][Depth(fiber) + 1 - i]
  <2>1. \A i \in 1 .. Depth(fiber) - depth : calls[fiber][Depth(fiber) + 1 - i] \in Frame
    BY <1>1 DEF Depth
  <2>2. Depth(fiber) - depth \in Nat
    BY <1>1
  <2>3. QED
    BY <2>1, <2>2 DEF Released
<1>6. pool' = pool \o Released(fiber, depth)
  BY DEF PopTo
<1>7. /\ pool' \in Seq(Frame)
      /\ Len(pool') = Len(pool) + Len(Released(fiber, depth))
      /\ \A i \in 1 .. Len(pool') :
           pool'[i] = IF i <= Len(pool) THEN pool[i] ELSE Released(fiber, depth)[i - Len(pool)]
  <2>1. pool \in Seq(Frame) /\ Released(fiber, depth) \in Seq(Frame)
    BY <1>1, <1>5
  <2>2. QED
    BY <1>6, <2>1, ConcatProperties
<1>8. ASSUME NEW i \in 1 .. Len(pool')
      PROVE  \/ i \in 1 .. Len(pool) /\ pool'[i] = pool[i]
             \/ \E j \in depth + 1 .. Depth(fiber) :
                  i = Len(pool) + Depth(fiber) + 1 - j /\ pool'[i] = calls[fiber][j]
  <2>1. CASE i <= Len(pool)
    BY <1>1, <1>7, <2>1
  <2>2. CASE i > Len(pool)
    <3> DEFINE n == i - Len(pool)
               k == Depth(fiber) + 1 - n
    <3>0. Depth(fiber) \in Nat /\ Len(pool) \in Nat /\ depth \in 0 .. Depth(fiber)
      BY <1>1
    <3>1. n \in 1 .. Depth(fiber) - depth
      BY <1>5, <1>7, <2>2, <3>0
    <3>2. pool'[i] = calls[fiber][k]
      <4>1. pool'[i] = Released(fiber, depth)[n]
        BY <1>7, <2>2, <3>0
      <4>2. QED
        BY <1>5, <3>1, <4>1
    <3>3. k \in depth + 1 .. Depth(fiber) /\ i = Len(pool) + Depth(fiber) + 1 - k
      <4>1. i \in Int
        BY <3>0, <1>7
      <4>2. QED
        BY <3>0, <3>1, <4>1
    <3>4. pool'[i] = calls[fiber][k]
      BY <3>2
    <3>5. QED
      BY <3>3, <3>4
  <2>3. QED
    BY <1>1, <2>1, <2>2
<1>9. QED
  BY <1>4, <1>7, <1>8

LEMMA PopToKeeps ==
  ASSUME FrameInv, NEW fiber \in Fiber, NEW depth \in 0 .. Depth(fiber),
         PopTo(fiber, depth), act' = act
  PROVE  FrameOnce' /\ UsedFrames'
<1>1. \A f \in Fiber : \A i \in 1 .. Depth(f)' :
        /\ i \in 1 .. Depth(f) /\ calls'[f][i] = calls[f][i]
        /\ f = fiber => i <= depth
  <2>1. ASSUME NEW f \in Fiber, NEW i \in 1 .. Len(calls'[f])
        PROVE  /\ i \in 1 .. Len(calls[f]) /\ calls'[f][i] = calls[f][i]
               /\ f = fiber => i <= depth
    <3>1. CASE f = fiber
      BY <2>1, <3>1, PopToShape DEF FrameInv, Depth
    <3>2. CASE f # fiber
      BY <2>1, <3>2, PopToShape DEF FrameInv
    <3>3. QED
      BY <3>1, <3>2
  <2>2. QED
    BY <2>1 DEF Depth
<1>2. \A i \in 1 .. Len(pool') :
        \/ i \in 1 .. Len(pool) /\ pool'[i] = pool[i]
        \/ \E j \in depth + 1 .. Depth(fiber) :
             i = Len(pool) + Depth(fiber) + 1 - j /\ pool'[i] = calls[fiber][j]
  BY PopToShape DEF FrameInv
<1>3. depth \in Nat /\ Depth(fiber) \in Nat /\ Len(pool) \in Nat
  <2>1. calls[fiber] \in Seq(Frame) /\ pool \in Seq(Frame)
    BY DEF FrameInv, TypeOK
  <2>2. QED
    BY <2>1 DEF Depth
<1>4. FrameOnce'
  <2>1. \A f \in Fiber : \A i, j \in 1 .. Depth(f)' : calls'[f][i] = calls'[f][j] => i = j
    BY <1>1 DEF FrameInv, FrameOnce
  <2>2. \A f, g \in Fiber : \A i \in 1 .. Depth(f)', j \in 1 .. Depth(g)' :
          calls'[f][i] = calls'[g][j] => f = g
    BY <1>1 DEF FrameInv, FrameOnce
  <2>3. ASSUME NEW i \in 1 .. Len(pool'), NEW j \in 1 .. Len(pool'), pool'[i] = pool'[j]
        PROVE  i = j
    <3>1. CASE i \in 1 .. Len(pool) /\ pool'[i] = pool[i]
               /\ j \in 1 .. Len(pool) /\ pool'[j] = pool[j]
      BY <2>3, <3>1 DEF FrameInv, FrameOnce
    <3>2. ASSUME NEW k \in depth + 1 .. Depth(fiber), NEW l \in depth + 1 .. Depth(fiber),
                 i = Len(pool) + Depth(fiber) + 1 - k, pool'[i] = calls[fiber][k],
                 j = Len(pool) + Depth(fiber) + 1 - l, pool'[j] = calls[fiber][l]
          PROVE  i = j
      <4>1. k \in 1 .. Depth(fiber) /\ l \in 1 .. Depth(fiber)
        BY <1>3
      <4>2. k = l
        BY <2>3, <3>2, <4>1 DEF FrameInv, FrameOnce
      <4>3. QED
        BY <3>2, <4>2
    <3>3. ASSUME NEW k \in depth + 1 .. Depth(fiber)
          PROVE  \A n \in 1 .. Len(pool) : calls[fiber][k] # pool[n]
      <4>1. k \in 1 .. Depth(fiber)
        BY <1>3
      <4>2. QED
        BY <4>1 DEF FrameInv, FrameOnce
    <3>4. QED
      BY <1>2, <2>3, <3>1, <3>2, <3>3
  <2>4. ASSUME NEW f \in Fiber, NEW i \in 1 .. Depth(f)', NEW j \in 1 .. Len(pool')
        PROVE  calls'[f][i] # pool'[j]
    <3>1. i \in 1 .. Depth(f) /\ calls'[f][i] = calls[f][i] /\ (f = fiber => i <= depth)
      BY <1>1
    <3>2. CASE j \in 1 .. Len(pool) /\ pool'[j] = pool[j]
      BY <3>1, <3>2 DEF FrameInv, FrameOnce
    <3>3. ASSUME NEW k \in depth + 1 .. Depth(fiber), pool'[j] = calls[fiber][k]
          PROVE  calls'[f][i] # pool'[j]
      <4>1. k \in 1 .. Depth(fiber) /\ k > depth
        BY <1>3
      <4>2. CASE f = fiber
        <5>1. i # k
          BY <1>3, <3>1, <4>1, <4>2
        <5>2. QED
          BY <3>1, <3>3, <4>1, <4>2, <5>1 DEF FrameInv, FrameOnce
      <4>3. CASE f # fiber
        BY <3>1, <3>3, <4>1, <4>3 DEF FrameInv, FrameOnce
      <4>4. QED
        BY <4>2, <4>3
    <3>4. QED
      BY <1>2, <3>2, <3>3
  <2>5. QED
    BY <2>1, <2>2, <2>3, <2>4 DEF FrameOnce
<1>5. UsedFrames'
  <2>1. \A f \in Fiber : \A i \in 1 .. Depth(f)' : act'[calls'[f][i]] # 0
    BY <1>1 DEF FrameInv, UsedFrames
  <2>2. ASSUME NEW i \in 1 .. Len(pool') PROVE act'[pool'[i]] # 0
    <3>1. \A k \in depth + 1 .. Depth(fiber) : k \in 1 .. Depth(fiber)
      BY <1>3
    <3>2. QED
      BY <1>2, <3>1 DEF FrameInv, UsedFrames
  <2>3. QED
    BY <2>1, <2>2 DEF UsedFrames
<1>6. QED
  BY <1>4, <1>5

-----------------------------------------------------------------------------
(* The inductive invariant.                                                 *)

\* room counts references, so that their sets have to be finite.
FiniteRefs ==
  /\ \A f \in Frame : IsFiniteSet(refs[f])
  /\ IsFiniteSet(stored)

\* The try statements of a callee are above those of its callers.
HandlersSorted ==
  \A f \in Fiber : \A i, j \in 1 .. Len(handlers[f]) :
    i <= j => handlers[f][i].depth <= handlers[f][j].depth

IInv == FrameInv /\ FiniteRefs /\ HandlerFrameLive /\ HandlersSorted

LEMMA InitIInv == Init => IInv
<1>1. SUFFICES ASSUME Init PROVE IInv
  OBVIOUS
<1>2. PICK root \in Frame :
        /\ calls = [f \in Fiber |-> IF f = Main THEN <<root>> ELSE <<>>]
        /\ act = [f \in Frame |-> IF f = root THEN 1 ELSE 0]
        /\ array = [f \in Frame |-> IF f = root THEN 1 ELSE 0]
  BY <1>1 DEF Init
<1>3. TypeOK
  <2>1. <<root>> \in Seq(Frame) /\ <<root>> # <<>>
    OBVIOUS
  <2>2. calls \in [Fiber -> Seq(Frame)] /\ calls[Main] # <<>>
    BY <1>2, <2>1
  <2>3. act \in [Frame -> Nat] /\ array \in [Frame -> Nat]
    BY <1>2
  <2>4. handlers \in [Fiber -> Seq(Handler)] /\ pool \in Seq(Frame)
    BY <1>1 DEF Init
  <2>5. /\ room \in [Frame -> Nat] /\ own \in [Frame -> BOOLEAN]
        /\ refs \in [Frame -> SUBSET Reference] /\ stored \in SUBSET Reference
        /\ started \in Nat /\ halted \in BOOLEAN
    BY <1>1 DEF Init
  <2>6. QED
    BY <2>2, <2>3, <2>4, <2>5 DEF TypeOK
<1>4. \A f \in Fiber : \A i \in 1 .. Depth(f) : f = Main /\ i = 1 /\ calls[f][i] = root
  BY <1>2 DEF Depth
<1>5. FrameOnce /\ UsedFrames
  BY <1>1, <1>2, <1>4 DEF Init, FrameOnce, UsedFrames
<1>6. FiniteRefs
  BY <1>1, FS_EmptySet DEF Init, FiniteRefs
<1>7. HandlerFrameLive /\ HandlersSorted
  BY <1>1 DEF Init, HandlerFrameLive, HandlersSorted
<1>8. QED
  BY <1>3, <1>5, <1>6, <1>7 DEF IInv, FrameInv

\* What a routine sees is a finite set of references.
LEMMA VisibleFinite ==
  ASSUME TypeOK, FiniteRefs, NEW frame \in Frame
  PROVE  Visible(frame) \in SUBSET Reference /\ IsFiniteSet(Visible(frame))
<1> DEFINE mine == IF own[frame] THEN {[array |-> array[frame], act |-> act[frame], escaped |-> FALSE]} ELSE {}
<1>1. IsFiniteSet(mine) /\ mine \in SUBSET Reference
  <2>1. [array |-> array[frame], act |-> act[frame], escaped |-> FALSE] \in Reference
    BY DEF TypeOK, Reference
  <2>2. QED
    BY <2>1, FS_EmptySet, FS_Singleton
<1>2. IsFiniteSet(refs[frame]) /\ refs[frame] \in SUBSET Reference
  BY DEF FiniteRefs, TypeOK
<1> HIDE DEF mine
<1>3. refs[frame] \cup mine \in SUBSET Reference /\ IsFiniteSet(refs[frame] \cup mine)
  BY <1>1, <1>2, FS_Union
<1>4. Visible(frame) = refs[frame] \cup mine
  BY DEF Visible, mine
<1>5. QED
  BY <1>3, <1>4

\* Capturing changes neither.
LEMMA CapturedFinite ==
  ASSUME TypeOK, FiniteRefs, NEW frame \in Frame
  PROVE  Captured(frame) \in SUBSET Reference /\ IsFiniteSet(Captured(frame))
<1> DEFINE mark[r \in Visible(frame)] == [r EXCEPT !.escaped = TRUE]
           image == {mark[r] : r \in Visible(frame)}
<1>1. Visible(frame) \in SUBSET Reference /\ IsFiniteSet(Visible(frame))
  BY VisibleFinite
<1>2. \A r \in Visible(frame) : mark[r] = [r EXCEPT !.escaped = TRUE]
  OBVIOUS
<1>3. \A r \in Visible(frame) : [r EXCEPT !.escaped = TRUE] \in Reference
  BY <1>1 DEF Reference
<1>4. mark \in [Visible(frame) -> image]
  <2> HIDE DEF image
  <2>1. \A r \in Visible(frame) : mark[r] \in image
    BY DEF image
  <2>2. QED
    BY <2>1
<1> HIDE DEF mark
<1>5. mark \in Surjection(Visible(frame), image)
  BY <1>4 DEF Surjection
<1>6. IsFiniteSet(image)
  BY <1>1, <1>5, FS_Surjection
<1>7. Captured(frame) = image
  BY <1>2 DEF Captured
<1>8. QED
  BY <1>3, <1>6, <1>7 DEF Captured

LEMMA TopFrame ==
  ASSUME TypeOK, NEW fiber \in Fiber, Runs(fiber)
  PROVE  Depth(fiber) \in Nat \ {0} /\ Top(fiber) \in Frame
<1>1. calls[fiber] \in Seq(Frame) /\ calls[fiber] # <<>>
  BY DEF TypeOK, Runs
<1>2. QED
  BY <1>1 DEF Depth, Top

\* A push disturbs no handler of another fiber, and none below the new frame.
LEMMA PushHandlers ==
  ASSUME TypeOK, HandlerFrameLive, NEW fiber \in Fiber, NEW frame \in Frame,
         Push(fiber, frame),
         \A f \in Fiber : handlers'[f] = handlers[f] \/ (f = fiber /\ handlers'[f] = <<>>),
         calls[fiber] # <<>> \/ handlers'[fiber] = <<>>
  PROVE  HandlerFrameLive'
<1>1. calls' = [calls EXCEPT ![fiber] = Append(@, frame)] /\ calls \in [Fiber -> Seq(Frame)]
  BY DEF Push, TypeOK
<1>2. ASSUME NEW f \in Fiber, calls'[f] # <<>>, NEW i \in 1 .. Len(handlers'[f])
      PROVE  /\ handlers'[f][i].depth \in 1 .. Len(calls'[f])
             /\ calls'[f][handlers'[f][i].depth] = handlers'[f][i].frame
  <2>0. handlers'[f] = handlers[f]
    BY <1>2
  <2>1. calls[f] # <<>>
    BY <1>1, <1>2, <2>0
  <2>2. /\ handlers[f][i].depth \in 1 .. Len(calls[f])
        /\ calls[f][handlers[f][i].depth] = handlers[f][i].frame
    BY <1>2, <2>0, <2>1 DEF HandlerFrameLive, Depth
  <2>3. CASE f # fiber
    BY <1>1, <2>0, <2>2, <2>3
  <2>4. CASE f = fiber
    <3>1. calls'[f] = Append(calls[f], frame) /\ calls[f] \in Seq(Frame)
      BY <1>1, <2>4
    <3>2. QED
      BY <2>0, <2>2, <3>1
  <2>5. QED
    BY <2>3, <2>4
<1>3. QED
  BY <1>2 DEF HandlerFrameLive, Depth

\* Handlers that are a beginning of what they were stay valid when the frames
\* that are popped lie above the highest of them.
LEMMA PopHandlers ==
  ASSUME IInv, NEW fiber \in Fiber, Runs(fiber), NEW depth \in 0 .. Depth(fiber),
         PopTo(fiber, depth), NEW n \in 0 .. Len(handlers[fiber]),
         handlers' = [handlers EXCEPT ![fiber] = SubSeq(@, 1, n)],
         \A i \in 1 .. n : handlers[fiber][i].depth <= depth
  PROVE  HandlerFrameLive' /\ HandlersSorted' /\ handlers' \in [Fiber -> Seq(Handler)]
<1>1. handlers \in [Fiber -> Seq(Handler)] /\ calls[fiber] # <<>>
  BY DEF IInv, FrameInv, TypeOK, Runs
<1>2. /\ SubSeq(handlers[fiber], 1, n) \in Seq(Handler)
      /\ Len(SubSeq(handlers[fiber], 1, n)) = n
      /\ \A i \in 1 .. n : SubSeq(handlers[fiber], 1, n)[i] = handlers[fiber][i]
  BY <1>1
<1>3. /\ handlers' \in [Fiber -> Seq(Handler)]
      /\ \A f \in Fiber : f # fiber => handlers'[f] = handlers[f]
      /\ Len(handlers'[fiber]) = n
      /\ \A i \in 1 .. n : handlers'[fiber][i] = handlers[fiber][i]
  BY <1>1, <1>2
<1>4. n \in Nat /\ \A i \in 1 .. n : i \in 1 .. Len(handlers[fiber])
  BY <1>1
<1>5. HandlersSorted'
  <2>1. ASSUME NEW f \in Fiber, NEW i \in 1 .. Len(handlers'[f]), NEW j \in 1 .. Len(handlers'[f]),
               i <= j
        PROVE  handlers'[f][i].depth <= handlers'[f][j].depth
    <3>1. CASE f = fiber
      BY <1>3, <1>4, <2>1, <3>1 DEF IInv, HandlersSorted
    <3>2. CASE f # fiber
      BY <1>3, <2>1, <3>2 DEF IInv, HandlersSorted
    <3>3. QED
      BY <3>1, <3>2
  <2>2. QED
    BY <2>1 DEF HandlersSorted
<1>6. HandlerFrameLive'
  <2>1. ASSUME NEW f \in Fiber, calls'[f] # <<>>, NEW i \in 1 .. Len(handlers'[f])
        PROVE  /\ handlers'[f][i].depth \in 1 .. Len(calls'[f])
               /\ calls'[f][handlers'[f][i].depth] = handlers'[f][i].frame
    <3>1. CASE f # fiber
      <4>1. handlers'[f] = handlers[f]
        BY <1>3, <3>1
      <4>2. calls'[f] = calls[f]
        BY <3>1, PopToShape DEF IInv, FrameInv
      <4>3. QED
        BY <2>1, <4>1, <4>2 DEF IInv, HandlerFrameLive, Depth
    <3>2. CASE f = fiber
      <4>1. i \in 1 .. n /\ handlers'[f][i] = handlers[fiber][i] /\ i \in 1 .. Len(handlers[fiber])
        BY <1>3, <1>4, <2>1, <3>2
      <4>2. /\ handlers[fiber][i].depth \in 1 .. Depth(fiber)
            /\ calls[fiber][handlers[fiber][i].depth] = handlers[fiber][i].frame
        BY <1>1, <4>1 DEF IInv, HandlerFrameLive
      <4>3. handlers[fiber][i].depth \in 1 .. depth
        BY <4>1, <4>2
      <4>4. QED
        BY <3>2, <4>1, <4>2, <4>3, PopToShape DEF IInv, FrameInv
    <3>3. QED
      BY <3>1, <3>2
  <2>2. QED
    BY <2>1 DEF HandlerFrameLive, Depth
<1>7. QED
  BY <1>3, <1>5, <1>6

-----------------------------------------------------------------------------
(* The actions.                                                             *)

\* What Call, CallStored and Spawn have in common.
LEMMA ActivateStep ==
  ASSUME IInv, NEW fiber \in Fiber, NEW frame \in Frame,
         NEW given \in SUBSET Reference, NEW hasOwn \in BOOLEAN, IsFiniteSet(given),
         Activate(frame, given, hasOwn), Push(fiber, frame),
         handlers' \in [Fiber -> Seq(Handler)], UNCHANGED <<stored, halted>>,
         \A f \in Fiber : handlers'[f] = handlers[f] \/ (f = fiber /\ handlers'[f] = <<>>),
         calls[fiber] # <<>> \/ handlers'[fiber] = <<>>
  PROVE  IInv'
<1>1. Cardinality(given) \in Nat
  BY FS_CardinalityType
<1>2. TypeOK'
  BY <1>1, PushTypes DEF IInv, FrameInv, TypeOK
<1>3. FrameOnce' /\ UsedFrames'
  BY PushKeeps DEF IInv
<1>4. FiniteRefs'
  <2>1. refs' = [refs EXCEPT ![frame] = given]
    BY DEF Activate, Locals
  <2>2. QED
    BY <2>1 DEF IInv, FrameInv, TypeOK, FiniteRefs
<1>5. HandlerFrameLive'
  BY PushHandlers DEF IInv, FrameInv
<1>6. HandlersSorted'
  BY DEF IInv, HandlersSorted
<1>7. QED
  BY <1>2, <1>3, <1>4, <1>5, <1>6 DEF IInv, FrameInv

LEMMA CallStep ==
  ASSUME IInv, NEW fiber \in Fiber, Call(fiber)
  PROVE  IInv'
<1>1. PICK frame \in Frame, given \in SUBSET Visible(Top(fiber)), hasOwn \in BOOLEAN :
        Activate(frame, given, hasOwn) /\ Push(fiber, frame)
  BY DEF Call
<1>2. Visible(Top(fiber)) \in SUBSET Reference /\ IsFiniteSet(Visible(Top(fiber)))
  BY VisibleFinite, TopFrame DEF IInv, FrameInv, Call
<1>3. given \in SUBSET Reference /\ IsFiniteSet(given)
  BY <1>2, FS_Subset
<1>4. QED
  BY <1>1, <1>3, ActivateStep DEF Call, Runs, IInv, FrameInv, TypeOK

LEMMA CallStoredStep ==
  ASSUME IInv, NEW fiber \in Fiber, CallStored(fiber)
  PROVE  IInv'
<1>1. PICK frame \in Frame, hasOwn \in BOOLEAN :
        Activate(frame, stored, hasOwn) /\ Push(fiber, frame)
  BY DEF CallStored
<1>2. stored \in SUBSET Reference /\ IsFiniteSet(stored)
  BY DEF IInv, FrameInv, TypeOK, FiniteRefs
<1>3. QED
  BY <1>1, <1>2, ActivateStep DEF CallStored, Runs, IInv, FrameInv, TypeOK

LEMMA SpawnStep ==
  ASSUME IInv, NEW fiber \in Fiber, NEW child \in Fiber, Spawn(fiber, child)
  PROVE  IInv'
<1>1. PICK frame \in Frame :
        Activate(frame, Captured(Top(fiber)), FALSE) /\ Push(child, frame)
  BY DEF Spawn
<1>2. Captured(Top(fiber)) \in SUBSET Reference /\ IsFiniteSet(Captured(Top(fiber)))
  BY CapturedFinite, TopFrame DEF IInv, FrameInv, Spawn
<1>3. /\ handlers' \in [Fiber -> Seq(Handler)]
      /\ \A f \in Fiber : handlers'[f] = handlers[f] \/ (f = child /\ handlers'[f] = <<>>)
      /\ handlers'[child] = <<>>
  BY DEF Spawn, IInv, FrameInv, TypeOK
<1>4. UNCHANGED <<stored, halted>>
  BY DEF Spawn
<1>5. QED
  BY <1>1, <1>2, <1>3, <1>4, ActivateStep

\* A step that moves no frame.
LEMMA SameFrames ==
  ASSUME FrameInv, UNCHANGED <<calls, frameVars>>
  PROVE  FrameOnce' /\ UsedFrames'
  BY DEF FrameInv, FrameOnce, UsedFrames, Depth, frameVars

LEMMA StoreStep ==
  ASSUME IInv, NEW fiber \in Fiber, Store(fiber)
  PROVE  IInv'
<1>1. Captured(Top(fiber)) \in SUBSET Reference /\ IsFiniteSet(Captured(Top(fiber)))
  BY CapturedFinite, TopFrame DEF IInv, FrameInv, Store
<1>2. TypeOK' /\ FiniteRefs'
  BY <1>1 DEF Store, IInv, FrameInv, TypeOK, FiniteRefs, frameVars
<1>3. HandlerFrameLive' /\ HandlersSorted'
  BY DEF Store, IInv, HandlerFrameLive, HandlersSorted, Depth
<1>4. QED
  BY <1>2, <1>3, SameFrames DEF Store, IInv, FrameInv

LEMMA EnterTryStep ==
  ASSUME IInv, NEW fiber \in Fiber, EnterTry(fiber)
  PROVE  IInv'
<1> DEFINE h == [frame |-> Top(fiber), depth |-> Depth(fiber)]
<1>1. h \in Handler /\ h.depth = Depth(fiber) /\ h.frame = Top(fiber)
  BY TopFrame DEF EnterTry, IInv, FrameInv, Handler
<1>2. handlers' = [handlers EXCEPT ![fiber] = Append(@, h)]
      /\ handlers \in [Fiber -> Seq(Handler)] /\ calls' = calls /\ calls[fiber] # <<>>
  BY DEF EnterTry, Runs, IInv, FrameInv, TypeOK
<1> HIDE DEF h
<1>3. handlers' \in [Fiber -> Seq(Handler)]
  BY <1>1, <1>2
<1>4. \A f \in Fiber : \A i \in 1 .. Len(handlers'[f]) :
        \/ i \in 1 .. Len(handlers[f]) /\ handlers'[f][i] = handlers[f][i]
        \/ f = fiber /\ i = Len(handlers[f]) + 1 /\ handlers'[f][i] = h
  <2>1. ASSUME NEW f \in Fiber, NEW i \in 1 .. Len(handlers'[f])
        PROVE  \/ i \in 1 .. Len(handlers[f]) /\ handlers'[f][i] = handlers[f][i]
               \/ f = fiber /\ i = Len(handlers[f]) + 1 /\ handlers'[f][i] = h
    <3>1. CASE f # fiber
      BY <1>2, <2>1, <3>1
    <3>2. CASE f = fiber
      <4>1. handlers'[f] = Append(handlers[f], h) /\ handlers[f] \in Seq(Handler)
        BY <1>2, <3>2
      <4>2. QED
        BY <1>1, <2>1, <3>2, <4>1
    <3>3. QED
      BY <3>1, <3>2
  <2>2. QED
    BY <2>1
<1>5. Depth(fiber) \in Nat \ {0} /\ calls[fiber][Depth(fiber)] = Top(fiber)
  BY TopFrame DEF EnterTry, IInv, FrameInv, Top
<1>6. HandlerFrameLive'
  <2>1. \A f \in Fiber : Depth(f)' = Depth(f)
    BY <1>2 DEF Depth
  <2>2. QED
    BY <1>1, <1>2, <1>4, <1>5, <2>1 DEF IInv, HandlerFrameLive
<1>7. HandlersSorted'
  <2>1. \A i \in 1 .. Len(handlers[fiber]) :
          handlers[fiber][i].depth \in Nat /\ handlers[fiber][i].depth <= Depth(fiber)
    BY <1>2, <1>5 DEF IInv, HandlerFrameLive
  <2>2. ASSUME NEW f \in Fiber, NEW i \in 1 .. Len(handlers'[f]), NEW j \in 1 .. Len(handlers'[f]),
               i <= j
        PROVE  handlers'[f][i].depth <= handlers'[f][j].depth
    <3>1. Len(handlers[f]) \in Nat
      BY <1>2
    <3>2. CASE j \in 1 .. Len(handlers[f])
      <4>1. i \in 1 .. Len(handlers[f])
        BY <2>2, <3>1, <3>2
      <4>2. handlers'[f][i] = handlers[f][i] /\ handlers'[f][j] = handlers[f][j]
        BY <1>4, <2>2, <3>1, <3>2, <4>1
      <4>3. handlers[f][i].depth <= handlers[f][j].depth
        BY <2>2, <3>2, <4>1 DEF IInv, HandlersSorted
      <4>4. QED
        BY <4>2, <4>3
    <3>3. CASE f = fiber /\ j = Len(handlers[f]) + 1 /\ handlers'[f][j] = h
      <4>1. handlers'[f][j].depth = Depth(fiber)
        BY <1>1, <3>3
      <4>2. CASE i \in 1 .. Len(handlers[f])
        <5>1. handlers'[f][i] = handlers[f][i]
          BY <1>4, <2>2, <3>1, <4>2
        <5>2. QED
          BY <2>1, <3>3, <4>1, <4>2, <5>1
      <4>3. CASE i = j
        BY <1>5, <4>1, <4>3
      <4>4. QED
        BY <2>2, <3>1, <3>3, <4>2, <4>3
    <3>4. QED
      BY <1>4, <3>2, <3>3
  <2>3. QED
    BY <2>2 DEF HandlersSorted
<1>8. TypeOK' /\ FiniteRefs'
  BY <1>3 DEF EnterTry, IInv, FrameInv, TypeOK, FiniteRefs, frameVars
<1>9. QED
  BY <1>6, <1>7, <1>8, SameFrames DEF EnterTry, IInv, FrameInv

LEMMA PopTryStep ==
  ASSUME IInv, NEW fiber \in Fiber, PopTry(fiber)
  PROVE  IInv'
<1> DEFINE n == Len(handlers[fiber]) - 1
<1>1. handlers \in [Fiber -> Seq(Handler)] /\ handlers[fiber] # <<>>
  BY DEF PopTry, IInv, FrameInv, TypeOK
<1>2. handlers' = [handlers EXCEPT ![fiber] = SubSeq(@, 1, n)] /\ calls' = calls
  BY DEF PopTry
<1>3. n \in Nat /\ n <= Len(handlers[fiber])
  BY <1>1
<1> HIDE DEF n
<1>4. /\ SubSeq(handlers[fiber], 1, n) \in Seq(Handler)
      /\ Len(SubSeq(handlers[fiber], 1, n)) = n
      /\ \A i \in 1 .. n : SubSeq(handlers[fiber], 1, n)[i] = handlers[fiber][i]
  BY <1>1, <1>3
<1>5. handlers' \in [Fiber -> Seq(Handler)]
  BY <1>1, <1>2, <1>4
<1>6. \A f \in Fiber : \A i \in 1 .. Len(handlers'[f]) :
        i \in 1 .. Len(handlers[f]) /\ handlers'[f][i] = handlers[f][i]
  <2>1. ASSUME NEW f \in Fiber, NEW i \in 1 .. Len(handlers'[f])
        PROVE  i \in 1 .. Len(handlers[f]) /\ handlers'[f][i] = handlers[f][i]
    <3>1. CASE f # fiber
      BY <1>1, <1>2, <2>1, <3>1
    <3>2. CASE f = fiber
      <4>1. handlers'[f] = SubSeq(handlers[fiber], 1, n)
        BY <1>1, <1>2, <3>2
      <4>2. i \in 1 .. n
        BY <1>4, <2>1, <4>1
      <4>3. i \in 1 .. Len(handlers[f])
        BY <1>1, <1>3, <3>2, <4>2
      <4>4. QED
        BY <1>4, <3>2, <4>1, <4>2, <4>3
    <3>3. QED
      BY <3>1, <3>2
  <2>2. QED
    BY <2>1
<1>7. HandlerFrameLive'
  <2>1. \A f \in Fiber : calls[f] # <<>> => \A i \in 1 .. Len(handlers[f]) :
          /\ handlers[f][i].depth \in 1 .. Len(calls[f])
          /\ calls[f][handlers[f][i].depth] = handlers[f][i].frame
    BY DEF IInv, HandlerFrameLive, Depth
  <2>2. \A f \in Fiber : calls'[f] # <<>> => \A i \in 1 .. Len(handlers'[f]) :
          /\ handlers'[f][i].depth \in 1 .. Len(calls'[f])
          /\ calls'[f][handlers'[f][i].depth] = handlers'[f][i].frame
    <3>1. ASSUME NEW f \in Fiber, calls[f] # <<>>, NEW i \in 1 .. Len(handlers'[f])
          PROVE  /\ handlers'[f][i].depth \in 1 .. Len(calls[f])
                 /\ calls[f][handlers'[f][i].depth] = handlers'[f][i].frame
      <4>1. i \in 1 .. Len(handlers[f]) /\ handlers'[f][i] = handlers[f][i]
        BY <1>6, <3>1
      <4>2. /\ handlers[f][i].depth \in 1 .. Len(calls[f])
            /\ calls[f][handlers[f][i].depth] = handlers[f][i].frame
        BY <2>1, <3>1, <4>1
      <4>3. QED
        BY <4>1, <4>2
    <3>2. calls' = calls
      BY <1>2
    <3>3. QED
      BY <3>1, <3>2
  <2>3. QED
    BY <2>2 DEF HandlerFrameLive, Depth
<1>8. HandlersSorted'
  BY <1>6 DEF IInv, HandlersSorted
<1>9. TypeOK' /\ FiniteRefs'
  BY <1>5 DEF PopTry, IInv, FrameInv, TypeOK, FiniteRefs, frameVars
<1>10. QED
  BY <1>7, <1>8, <1>9, SameFrames DEF PopTry, IInv, FrameInv

\* What the steps that pop frames have in common.
LEMMA PopStep ==
  ASSUME IInv, NEW fiber \in Fiber, Runs(fiber), NEW depth \in 0 .. Depth(fiber),
         PopTo(fiber, depth), fiber = Main => depth # 0,
         handlers' \in [Fiber -> Seq(Handler)], HandlerFrameLive', HandlersSorted',
         UNCHANGED <<act, array, room, own, refs, stored, started, halted>>
  PROVE  IInv'
<1>1. calls' \in [Fiber -> Seq(Frame)] /\ pool' \in Seq(Frame)
  BY PopToShape DEF IInv, FrameInv
<1>2. calls'[Main] # <<>>
  <2>1. CASE fiber = Main
    <3>1. Len(calls'[Main]) = depth /\ depth # 0
      BY <2>1, PopToShape DEF IInv, FrameInv
    <3>2. QED
      BY <3>1
  <2>2. CASE fiber # Main
    BY <2>2, PopToShape DEF IInv, FrameInv, TypeOK
  <2>3. QED
    BY <2>1, <2>2
<1>3. TypeOK' /\ FiniteRefs'
  BY <1>1, <1>2 DEF IInv, FrameInv, TypeOK, FiniteRefs
<1>4. QED
  BY <1>3, PopToKeeps DEF IInv, FrameInv

LEMMA RaiseStep ==
  ASSUME IInv, NEW fiber \in Fiber, Raise(fiber)
  PROVE  IInv'
<1>1. CASE handlers[fiber] = <<>>
  <2>1. UNCHANGED <<calls, handlers, frameVars, stored>> /\ halted' = TRUE
    BY <1>1 DEF Raise, frameVars
  <2>2. TypeOK' /\ FiniteRefs' /\ HandlerFrameLive' /\ HandlersSorted'
    BY <2>1 DEF IInv, FrameInv, TypeOK, FiniteRefs, HandlerFrameLive, HandlersSorted, Depth, frameVars
  <2>3. QED
    BY <2>1, <2>2, SameFrames DEF IInv, FrameInv
<1>2. CASE handlers[fiber] # <<>>
  <2> DEFINE n == Len(handlers[fiber])
             depth == handlers[fiber][n].depth
  <2>1. handlers \in [Fiber -> Seq(Handler)] /\ calls[fiber] # <<>> /\ Runs(fiber)
    BY DEF Raise, Runs, IInv, FrameInv, TypeOK
  <2>2. n \in Nat /\ n >= 1
    BY <1>2, <2>1
  <2>3. depth \in 1 .. Depth(fiber)
    BY <2>1, <2>2 DEF IInv, HandlerFrameLive
  <2>4. PopTo(fiber, depth) /\ handlers' = [handlers EXCEPT ![fiber] = SubSeq(@, 1, n - 1)]
    BY <1>2, <2>1 DEF Raise
  <2>5. UNCHANGED <<act, array, room, own, refs, stored, started, halted>>
    BY <1>2 DEF Raise
  <2>6. \A i \in 1 .. n - 1 : handlers[fiber][i].depth <= depth
    BY <2>2 DEF IInv, HandlersSorted
  <2>7. n - 1 \in 0 .. Len(handlers[fiber])
    BY <2>2
  <2>8. depth \in 0 .. Depth(fiber) /\ depth # 0
    BY <2>3
  <2> HIDE DEF n, depth
  <2>9. HandlerFrameLive' /\ HandlersSorted' /\ handlers' \in [Fiber -> Seq(Handler)]
    BY <2>1, <2>4, <2>6, <2>7, <2>8, PopHandlers
  <2>10. QED
    BY <2>1, <2>4, <2>5, <2>8, <2>9, PopStep
<1>3. QED
  BY <1>1, <1>2

LEMMA ReturnStep ==
  ASSUME IInv, NEW fiber \in Fiber, Return(fiber)
  PROVE  IInv'
<1>1. Runs(fiber) /\ Depth(fiber) \in Nat \ {0} /\ calls[fiber] # <<>>
  BY TopFrame DEF Return, Runs, IInv, FrameInv
<1>2. handlers \in [Fiber -> Seq(Handler)]
  BY DEF IInv, FrameInv, TypeOK
<1>3. CASE Depth(fiber) = 1 /\ fiber = Main
  <2>1. UNCHANGED <<calls, handlers, frameVars, stored>> /\ halted' = TRUE
    BY <1>3 DEF Return, frameVars
  <2>2. TypeOK' /\ FiniteRefs' /\ HandlerFrameLive' /\ HandlersSorted'
    BY <2>1 DEF IInv, FrameInv, TypeOK, FiniteRefs, HandlerFrameLive, HandlersSorted, Depth, frameVars
  <2>3. QED
    BY <2>1, <2>2, SameFrames DEF IInv, FrameInv
<1>4. CASE Depth(fiber) = 1 /\ fiber # Main
  <2>1. PopTo(fiber, 0) /\ handlers' = handlers
        /\ UNCHANGED <<act, array, room, own, refs, stored, started, halted>>
    BY <1>4 DEF Return
  <2>2. 0 \in 0 .. Depth(fiber)
    BY <1>1
  <2>3. calls'[fiber] = <<>> /\ (\A f \in Fiber : f # fiber => calls'[f] = calls[f])
    <3>1. Len(calls'[fiber]) = 0 /\ calls' \in [Fiber -> Seq(Frame)]
      BY <2>1, <2>2, PopToShape DEF IInv, FrameInv
    <3>2. calls'[fiber] = <<>>
      BY <3>1
    <3>3. QED
      BY <2>1, <2>2, <3>2, PopToShape DEF IInv, FrameInv
  <2>4. HandlerFrameLive'
    BY <2>1, <2>3 DEF IInv, HandlerFrameLive, Depth
  <2>5. HandlersSorted'
    BY <2>1 DEF IInv, HandlersSorted
  <2>6. QED
    BY <1>1, <1>2, <1>4, <2>1, <2>2, <2>4, <2>5, PopStep
<1>5. CASE Depth(fiber) # 1
  <2> DEFINE depth == Depth(fiber) - 1
  <2>1. PopTo(fiber, depth) /\ DropHandlers(fiber)
        /\ UNCHANGED <<act, array, room, own, refs, stored, started, halted>>
    BY <1>5 DEF Return
  <2>2. depth \in 0 .. Depth(fiber) /\ depth # 0
    BY <1>1, <1>5
  <2>3. PICK n \in 0 .. Len(handlers[fiber]) :
          /\ n > 0 => handlers[fiber][n].frame # Top(fiber)
          /\ handlers' = [handlers EXCEPT ![fiber] = SubSeq(@, 1, n)]
    BY <2>1 DEF DropHandlers
  <2>4. ASSUME NEW i \in 1 .. n PROVE handlers[fiber][i].depth <= depth
    <3>1. n \in 1 .. Len(handlers[fiber]) /\ i \in 1 .. Len(handlers[fiber]) /\ i <= n
      BY <1>2, <2>3, <2>4
    <3>2. handlers[fiber][n].depth \in 1 .. Depth(fiber)
          /\ calls[fiber][handlers[fiber][n].depth] = handlers[fiber][n].frame
      BY <1>1, <3>1 DEF IInv, HandlerFrameLive
    <3>3. handlers[fiber][n].depth # Depth(fiber)
      BY <2>3, <3>1, <3>2 DEF Top
    <3>4. handlers[fiber][i].depth <= handlers[fiber][n].depth
          /\ handlers[fiber][i].depth \in Nat
      BY <1>1, <3>1 DEF IInv, HandlersSorted, HandlerFrameLive
    <3>5. QED
      BY <1>1, <3>2, <3>3, <3>4
  <2> HIDE DEF depth
  <2>5. HandlerFrameLive' /\ HandlersSorted' /\ handlers' \in [Fiber -> Seq(Handler)]
    BY <1>1, <2>1, <2>2, <2>3, <2>4, PopHandlers
  <2>6. QED
    BY <1>1, <2>1, <2>2, <2>5, PopStep
<1>6. QED
  BY <1>3, <1>4, <1>5

LEMMA NextIInv == IInv /\ [Next]_vars => IInv'
<1>1. SUFFICES ASSUME IInv, [Next]_vars PROVE IInv'
  OBVIOUS
<1>2. CASE UNCHANGED vars
  <2> USE <1>1, <1>2 DEF vars, IInv, FrameInv
  <2>1. TypeOK'
    BY DEF TypeOK
  <2>2. FrameOnce'
    BY DEF FrameOnce, Depth
  <2>3. UsedFrames' /\ FiniteRefs'
    BY DEF UsedFrames, FiniteRefs, Depth
  <2>4. HandlerFrameLive' /\ HandlersSorted'
    BY DEF HandlerFrameLive, HandlersSorted, Depth
  <2>5. QED
    BY <2>1, <2>2, <2>3, <2>4
<1>3. ASSUME NEW fiber \in Fiber,
             \/ Call(fiber) \/ Store(fiber) \/ CallStored(fiber)
             \/ \E child \in Fiber : Spawn(fiber, child)
             \/ EnterTry(fiber) \/ PopTry(fiber) \/ Raise(fiber) \/ Return(fiber)
      PROVE  IInv'
  BY <1>1, <1>3, CallStep, StoreStep, CallStoredStep, SpawnStep, EnterTryStep,
     PopTryStep, RaiseStep, ReturnStep
<1>4. QED
  BY <1>1, <1>2, <1>3 DEF Next, Ended

-----------------------------------------------------------------------------
(* Theorems.                                                                *)

\* Every reachable state has its types, and the program body's frame is never
\* popped.
THEOREM TypeCorrect == Spec => []TypeOK
<1>1. IInv => TypeOK
  BY DEF IInv, FrameInv
<1>2. QED
  BY <1>1, InitIInv, NextIInv, PTL DEF Spec

\* No frame is ever on two call stacks, twice on one, or on one and in the
\* pool: getFrame never hands out a frame that an active routine is using.
THEOREM FramesServeOne == Spec => []FrameOnce
<1>1. IInv => FrameOnce
  BY DEF IInv, FrameInv
<1>2. QED
  BY <1>1, InitIInv, NextIInv, PTL DEF Spec

\* The frame an exception would be handled in is always an active one, at the
\* depth the handler names.
THEOREM HandlersPointAtLiveFrames == Spec => []HandlerFrameLive
<1>1. IInv => HandlerFrameLive
  BY DEF IInv
<1>2. QED
  BY <1>1, InitIInv, NextIInv, PTL DEF Spec

-----------------------------------------------------------------------------
(* Var parameters.  A reference that no closure has captured points down the *)
(* same call stack; what a stored closure holds is captured.                 *)

PointsAt(r, frame) == act[frame] = r.act /\ array[frame] = r.array

RefersDown ==
  \A f \in Fiber : \A i \in 1 .. Depth(f) : \A r \in refs[calls[f][i]] :
    r.escaped \/ \E j \in 1 .. i - 1 : PointsAt(r, calls[f][j])

StoredEscaped == \A r \in stored : r.escaped

RefInv == IInv /\ RefersDown /\ StoredEscaped

\* What a routine sees is captured, or is in a frame at or below its own.
LEMMA VisibleRefersDown ==
  ASSUME RefInv, NEW fiber \in Fiber, Runs(fiber), NEW r \in Visible(Top(fiber))
  PROVE  r.escaped \/ \E j \in 1 .. Depth(fiber) : PointsAt(r, calls[fiber][j])
<1>1. Depth(fiber) \in Nat \ {0} /\ Top(fiber) = calls[fiber][Depth(fiber)]
  BY TopFrame DEF RefInv, IInv, FrameInv, Top
<1>2. CASE r \in refs[Top(fiber)]
  <2>1. r.escaped \/ \E j \in 1 .. Depth(fiber) - 1 : PointsAt(r, calls[fiber][j])
    BY <1>1, <1>2 DEF RefInv, RefersDown
  <2>2. QED
    BY <1>1, <2>1
<1>3. CASE r = [array |-> array[Top(fiber)], act |-> act[Top(fiber)], escaped |-> FALSE]
  <2>1. PointsAt(r, calls[fiber][Depth(fiber)])
    BY <1>1, <1>3 DEF PointsAt
  <2>2. QED
    BY <1>1, <2>1
<1>4. QED
  BY <1>2, <1>3 DEF Visible

LEMMA CapturedEscape ==
  ASSUME RefInv, NEW fiber \in Fiber, Runs(fiber), NEW r \in Captured(Top(fiber))
  PROVE  r.escaped
<1>1. Visible(Top(fiber)) \in SUBSET Reference
  BY VisibleFinite, TopFrame DEF RefInv, IInv, FrameInv
<1>2. PICK v \in Visible(Top(fiber)) : r = [v EXCEPT !.escaped = TRUE]
  BY DEF Captured
<1>3. QED
  BY <1>1, <1>2 DEF Reference

\* A new frame whose references are captured or point into the stack it is
\* pushed on.
LEMMA PushRefers ==
  ASSUME RefInv, NEW fiber \in Fiber, NEW frame \in Frame,
         NEW given \in SUBSET Reference, NEW hasOwn \in BOOLEAN,
         Activate(frame, given, hasOwn), Push(fiber, frame),
         \A r \in given : r.escaped \/ \E j \in 1 .. Depth(fiber) : PointsAt(r, calls[fiber][j])
  PROVE  RefersDown'
<1>1. /\ frame \in Available
      /\ calls' = [calls EXCEPT ![fiber] = Append(@, frame)]
      /\ refs' = [refs EXCEPT ![frame] = given]
  BY DEF Activate, Push, Locals
<1>2. /\ calls \in [Fiber -> Seq(Frame)] /\ refs \in [Frame -> SUBSET Reference]
      /\ act \in [Frame -> Nat] /\ array \in [Frame -> Nat]
  BY DEF RefInv, IInv, FrameInv, TypeOK
<1>3. \A f \in Fiber : \A i \in 1 .. Depth(f) : calls[f][i] # frame
  BY <1>1, GetFrameFresh DEF RefInv, IInv
<1>4. \A g \in Frame : g # frame => act'[g] = act[g] /\ array'[g] = array[g] /\ refs'[g] = refs[g]
  <2>1. /\ act' = [act EXCEPT ![frame] = started + 1]
        /\ \E x : array' = [array EXCEPT ![frame] = x]
    BY DEF Activate
  <2>2. QED
    BY <1>1, <1>2, <2>1
<1>5. ASSUME NEW f \in Fiber, NEW i \in 1 .. Depth(f)
      PROVE  LET g == calls[f][i]
             IN  /\ calls'[f][i] = g
                 /\ refs'[g] = refs[g] /\ act'[g] = act[g] /\ array'[g] = array[g]
  <2>1. calls[f][i] \in Frame /\ calls[f][i] # frame
    BY <1>2, <1>3 DEF Depth
  <2>2. calls'[f][i] = calls[f][i]
    <3>1. i \in 1 .. Len(calls[f])
      BY DEF Depth
    <3>2. QED
      BY <1>1, <1>2, <3>1
  <2>3. QED
    BY <1>4, <2>1, <2>2
<1>6. /\ \A f \in Fiber : f # fiber => Depth(f)' = Depth(f)
      /\ Depth(fiber)' = Depth(fiber) + 1
      /\ calls'[fiber][Depth(fiber) + 1] = frame
      /\ \A f \in Fiber : Depth(f) \in Nat
  BY <1>1, <1>2 DEF Depth
<1>7. ASSUME NEW f \in Fiber, NEW i \in 1 .. Depth(f), NEW r, PointsAt(r, calls[f][i])
      PROVE  PointsAt(r, calls[f][i])'
  BY <1>5, <1>7 DEF PointsAt
<1>8. ASSUME NEW f \in Fiber, NEW i \in 1 .. Depth(f)', NEW r \in refs'[calls'[f][i]]
      PROVE  r.escaped \/ \E j \in 1 .. i - 1 : PointsAt(r, calls[f][j])'
  <2>1. CASE i \in 1 .. Depth(f)
    <3>1. r \in refs[calls[f][i]]
      BY <1>5, <1>8, <2>1
    <3>2. r.escaped \/ \E j \in 1 .. i - 1 : PointsAt(r, calls[f][j])
      BY <2>1, <3>1 DEF RefInv, RefersDown
    <3>3. \A j \in 1 .. i - 1 : j \in 1 .. Depth(f)
      BY <1>6, <2>1
    <3>4. QED
      BY <1>7, <3>2, <3>3
  <2>2. CASE f = fiber /\ i = Depth(fiber) + 1
    <3>1. r \in given
      BY <1>1, <1>2, <1>6, <1>8, <2>2
    <3>2. r.escaped \/ \E j \in 1 .. Depth(fiber) : PointsAt(r, calls[fiber][j])
      BY <3>1
    <3>3. \A j \in 1 .. Depth(fiber) : j \in 1 .. i - 1
      BY <1>6, <2>2
    <3>4. QED
      BY <1>7, <2>2, <3>2, <3>3
  <2>3. QED
    BY <1>6, <2>1, <2>2
<1>9. QED
  BY <1>8 DEF RefersDown

\* Frames that are popped take nothing away that a frame below refers to.
LEMMA FewerRefer ==
  ASSUME RefInv, UNCHANGED <<act, array, refs>>, calls' \in [Fiber -> Seq(Frame)],
         \A f \in Fiber : \A i \in 1 .. Depth(f)' :
           i \in 1 .. Depth(f) /\ calls'[f][i] = calls[f][i]
  PROVE  RefersDown'
<1>1. ASSUME NEW f \in Fiber, NEW i \in 1 .. Depth(f)', NEW r \in refs'[calls'[f][i]]
      PROVE  r.escaped \/ \E j \in 1 .. i - 1 : PointsAt(r, calls[f][j])'
  <2>1. r \in refs[calls[f][i]] /\ i \in 1 .. Depth(f)
    BY <1>1
  <2>2. r.escaped \/ \E j \in 1 .. i - 1 : PointsAt(r, calls[f][j])
    BY <2>1 DEF RefInv, RefersDown
  <2>3. \A j \in 1 .. i - 1 : j \in 1 .. Depth(f)' /\ calls'[f][j] = calls[f][j]
    <3>1. \A j \in 1 .. i - 1 : j \in 1 .. Depth(f)'
      <4>1. Depth(f)' \in Nat
        BY DEF Depth
      <4>2. QED
        BY <4>1
    <3>2. QED
      BY <3>1
  <2>4. QED
    BY <2>2, <2>3 DEF PointsAt
<1>2. QED
  BY <1>1 DEF RefersDown

LEMMA PopRefers ==
  ASSUME RefInv, NEW fiber \in Fiber, NEW depth \in 0 .. Depth(fiber), PopTo(fiber, depth),
         UNCHANGED <<act, array, refs>>
  PROVE  RefersDown'
<1>1. /\ calls' \in [Fiber -> Seq(Frame)]
      /\ \A f \in Fiber : f # fiber => calls'[f] = calls[f]
      /\ Len(calls'[fiber]) = depth
      /\ \A i \in 1 .. depth : calls'[fiber][i] = calls[fiber][i]
  BY PopToShape DEF RefInv, IInv, FrameInv
<1>2. Depth(fiber) \in Nat
  BY DEF RefInv, IInv, FrameInv, TypeOK, Depth
<1>3. ASSUME NEW f \in Fiber, NEW i \in 1 .. Depth(f)'
      PROVE  i \in 1 .. Depth(f) /\ calls'[f][i] = calls[f][i]
  <2>1. CASE f = fiber
    <3>1. i \in 1 .. depth
      BY <1>1, <2>1 DEF Depth
    <3>2. QED
      BY <1>1, <1>2, <2>1, <3>1
  <2>2. CASE f # fiber
    BY <1>1, <2>2 DEF Depth
  <2>3. QED
    BY <2>1, <2>2
<1>4. QED
  BY <1>1, <1>3, FewerRefer

LEMMA NextRefInv == RefInv /\ [Next]_vars => RefInv'
<1> SUFFICES ASSUME RefInv, [Next]_vars PROVE RefersDown' /\ StoredEscaped'
  BY NextIInv DEF RefInv
<1>1. TypeOK /\ IInv /\ calls \in [Fiber -> Seq(Frame)] /\ stored \in SUBSET Reference
      /\ \A r \in stored : r.escaped
  BY DEF RefInv, IInv, FrameInv, TypeOK, StoredEscaped
<1>2. ASSUME NEW fiber \in Fiber, Call(fiber) PROVE RefersDown' /\ StoredEscaped'
  <2>1. PICK frame \in Frame, given \in SUBSET Visible(Top(fiber)), hasOwn \in BOOLEAN :
          Activate(frame, given, hasOwn) /\ Push(fiber, frame)
    BY <1>2 DEF Call
  <2>2. Runs(fiber) /\ stored' = stored
    BY <1>2 DEF Call
  <2>3. Visible(Top(fiber)) \in SUBSET Reference
    BY <2>2, VisibleFinite, TopFrame DEF RefInv, IInv, FrameInv
  <2>4. \A r \in given : r.escaped \/ \E j \in 1 .. Depth(fiber) : PointsAt(r, calls[fiber][j])
    BY <2>2, VisibleRefersDown
  <2>5. RefersDown'
    BY <2>1, <2>3, <2>4, PushRefers
  <2>6. QED
    BY <1>1, <2>2, <2>5 DEF StoredEscaped
<1>3. ASSUME NEW fiber \in Fiber, CallStored(fiber) PROVE RefersDown' /\ StoredEscaped'
  <2>1. PICK frame \in Frame, hasOwn \in BOOLEAN :
          Activate(frame, stored, hasOwn) /\ Push(fiber, frame)
    BY <1>3 DEF CallStored
  <2>2. RefersDown'
    BY <1>1, <2>1, PushRefers
  <2>3. stored' = stored
    BY <1>3 DEF CallStored
  <2>4. QED
    BY <1>1, <2>2, <2>3 DEF StoredEscaped
<1>4. ASSUME NEW fiber \in Fiber, NEW child \in Fiber, Spawn(fiber, child)
      PROVE  RefersDown' /\ StoredEscaped'
  <2>1. PICK frame \in Frame :
          Activate(frame, Captured(Top(fiber)), FALSE) /\ Push(child, frame)
    BY <1>4 DEF Spawn
  <2>2. Runs(fiber) /\ stored' = stored
    BY <1>4 DEF Spawn
  <2>3. Captured(Top(fiber)) \in SUBSET Reference
    BY <2>2, CapturedFinite, TopFrame DEF RefInv, IInv, FrameInv
  <2>4. \A r \in Captured(Top(fiber)) : r.escaped
    BY <2>2, CapturedEscape
  <2>5. RefersDown'
    BY <2>1, <2>3, <2>4, PushRefers
  <2>6. QED
    BY <1>1, <2>2, <2>5 DEF StoredEscaped
<1>5. ASSUME NEW fiber \in Fiber, Store(fiber) PROVE RefersDown' /\ StoredEscaped'
  <2>1. Runs(fiber) /\ stored' = Captured(Top(fiber)) /\ UNCHANGED <<calls, act, array, refs>>
    BY <1>5 DEF Store, frameVars
  <2>2. StoredEscaped'
    BY <2>1, CapturedEscape DEF StoredEscaped
  <2>3. RefersDown'
    BY <1>1, <2>1, FewerRefer DEF Depth
  <2>4. QED
    BY <2>2, <2>3
<1>6. ASSUME NEW fiber \in Fiber, Raise(fiber) PROVE RefersDown' /\ StoredEscaped'
  <2>1. UNCHANGED <<act, array, refs, stored>> /\ Runs(fiber)
    BY <1>6 DEF Raise
  <2>2. CASE handlers[fiber] = <<>>
    <3>1. calls' = calls
      BY <1>6, <2>2 DEF Raise
    <3>2. RefersDown'
      BY <1>1, <2>1, <3>1, FewerRefer DEF Depth
    <3>3. QED
      BY <1>1, <2>1, <3>2 DEF StoredEscaped
  <2>3. CASE handlers[fiber] # <<>>
    <3> DEFINE n == Len(handlers[fiber])
               depth == handlers[fiber][n].depth
    <3>1. n \in 1 .. Len(handlers[fiber]) /\ calls[fiber] # <<>>
      BY <2>1, <2>3 DEF RefInv, IInv, FrameInv, TypeOK, Runs
    <3>2. depth \in 1 .. Depth(fiber)
      BY <3>1 DEF RefInv, IInv, HandlerFrameLive
    <3>3. PopTo(fiber, depth)
      BY <1>6, <2>3 DEF Raise
    <3> HIDE DEF n, depth
    <3>4. depth \in 0 .. Depth(fiber)
      BY <3>2
    <3>5. RefersDown'
      BY <2>1, <3>3, <3>4, PopRefers
    <3>6. QED
      BY <1>1, <2>1, <3>5 DEF StoredEscaped
  <2>4. QED
    BY <2>2, <2>3
<1>7. ASSUME NEW fiber \in Fiber, Return(fiber) PROVE RefersDown' /\ StoredEscaped'
  <2>1. UNCHANGED <<act, array, refs, stored>> /\ Runs(fiber)
    BY <1>7 DEF Return
  <2>2. CASE Depth(fiber) = 1 /\ fiber = Main
    <3>1. calls' = calls
      BY <1>7, <2>2 DEF Return
    <3>2. RefersDown'
      BY <1>1, <2>1, <3>1, FewerRefer DEF Depth
    <3>3. QED
      BY <1>1, <2>1, <3>2 DEF StoredEscaped
  <2>3. CASE ~(Depth(fiber) = 1 /\ fiber = Main)
    <3>1. PopTo(fiber, Depth(fiber) - 1)
      BY <1>7, <2>3 DEF Return
    <3>2. Depth(fiber) - 1 \in 0 .. Depth(fiber)
      BY <1>1, <2>1, TopFrame
    <3>3. RefersDown'
      BY <2>1, <3>1, <3>2, PopRefers
    <3>4. QED
      BY <1>1, <2>1, <3>3 DEF StoredEscaped
  <2>4. QED
    BY <2>2, <2>3
<1>8. ASSUME UNCHANGED vars \/ \E fiber \in Fiber : EnterTry(fiber) \/ PopTry(fiber)
      PROVE  RefersDown' /\ StoredEscaped'
  <2>1. UNCHANGED <<calls, act, array, refs, stored>>
    BY <1>8 DEF EnterTry, PopTry, vars, frameVars
  <2>2. RefersDown'
    BY <1>1, <2>1, FewerRefer DEF Depth
  <2>3. QED
    BY <1>1, <2>1, <2>2 DEF StoredEscaped
<1>9. QED
  BY <1>2, <1>3, <1>4, <1>5, <1>6, <1>7, <1>8 DEF Next, Ended

LEMMA InitRefInv == Init => RefInv
<1> SUFFICES ASSUME Init PROVE RefersDown /\ StoredEscaped
  BY InitIInv DEF RefInv
<1>1. calls \in [Fiber -> Seq(Frame)] /\ refs = [f \in Frame |-> {}] /\ stored = {}
  BY InitIInv DEF Init, IInv, FrameInv, TypeOK
<1>2. \A f \in Fiber : \A i \in 1 .. Depth(f) : calls[f][i] \in Frame
  BY <1>1 DEF Depth
<1>3. QED
  BY <1>1, <1>2 DEF RefersDown, StoredEscaped

\* A var parameter never dangles: whatever is called, raised, spawned and
\* returned, and however the frames between are recycled, a reference that no
\* closure has captured is to a variable of an active routine of the same fiber.
THEOREM VarParametersNeverDangle == Spec => []RefsLive
<1>1. RefInv => RefsLive
  <2> SUFFICES ASSUME RefInv, NEW f \in Fiber, NEW i \in 1 .. Depth(f), NEW r \in refs[calls[f][i]]
               PROVE  r.escaped \/ Live(r)
    BY DEF RefsLive
  <2>1. r.escaped \/ \E j \in 1 .. i - 1 : PointsAt(r, calls[f][j])
    BY DEF RefInv, RefersDown
  <2>2. \A j \in 1 .. i - 1 : j \in 1 .. Depth(f)
    BY DEF RefInv, IInv, FrameInv, TypeOK, Depth
  <2>3. QED
    BY <2>1, <2>2 DEF Live, PointsAt
<1>2. QED
  BY <1>1, InitRefInv, NextRefInv, PTL DEF Spec

-----------------------------------------------------------------------------
(* What the captured locals would need.  CapturesKept fails in a run where   *)
(* closures outlive their routine; without such closures it holds.           *)

\* A frame that was in use has an array of cells of its own.
ArraysApart ==
  /\ \A f \in Frame : array[f] <= started /\ (act[f] # 0 => array[f] # 0)
  /\ \A f, g \in Frame : array[f] = array[g] /\ array[f] # 0 => f = g

NoneEscaped ==
  /\ stored = {}
  /\ \A f \in Frame : \A r \in refs[f] : ~r.escaped

LEMMA ActivateKeepsApart ==
  ASSUME RefInv, ArraysApart, NEW frame \in Frame, NEW given, NEW hasOwn,
         Activate(frame, given, hasOwn)
  PROVE  ArraysApart'
<1>1. /\ act \in [Frame -> Nat] /\ array \in [Frame -> Nat] /\ started \in Nat
      /\ pool \in Seq(Frame)
  BY DEF RefInv, IInv, FrameInv, TypeOK
<1>2. /\ act' = [act EXCEPT ![frame] = started + 1] /\ started' = started + 1
      /\ frame \in Available
  BY DEF Activate
<1>3. \/ array' = [array EXCEPT ![frame] = started + 1]
      \/ pool # <<>> /\ array' = array
  <2> DEFINE fits == pool # <<>> /\ room[frame] >= Cardinality(given) + (IF hasOwn THEN 1 ELSE 0)
  <2>1. array' = [array EXCEPT ![frame] = IF fits THEN @ ELSE started + 1]
    BY DEF Activate
  <2>2. CASE fits
    <3>1. array' = array
      BY <1>1, <2>1, <2>2
    <3>2. QED
      BY <2>2, <3>1
  <2>3. CASE ~fits
    BY <2>1, <2>3
  <2>4. QED
    BY <2>2, <2>3
<1>4. CASE array' = [array EXCEPT ![frame] = started + 1]
  <2>1. \A f \in Frame : array'[f] = IF f = frame THEN started + 1 ELSE array[f]
    BY <1>1, <1>4
  <2>2. \A f \in Frame : array[f] <= started /\ array[f] # started + 1
    BY <1>1 DEF ArraysApart
  <2>3. \A f \in Frame : array'[f] <= started' /\ (act'[f] # 0 => array'[f] # 0)
    BY <1>1, <1>2, <2>1, <2>2 DEF ArraysApart
  <2>4. \A f, g \in Frame : array'[f] = array'[g] /\ array'[f] # 0 => f = g
    BY <2>1, <2>2 DEF ArraysApart
  <2>5. QED
    BY <2>3, <2>4 DEF ArraysApart
<1>5. CASE pool # <<>> /\ array' = array
  <2>1. frame = pool[Len(pool)] /\ Len(pool) \in 1 .. Len(pool)
    BY <1>1, <1>2, <1>5 DEF Available
  <2>2. act[frame] # 0
    BY <2>1 DEF RefInv, IInv, FrameInv, UsedFrames
  <2>3. \A f \in Frame : array'[f] <= started' /\ (act'[f] # 0 => array'[f] # 0)
    BY <1>1, <1>2, <1>5, <2>2 DEF ArraysApart
  <2>4. QED
    BY <1>5, <2>3 DEF ArraysApart
<1>6. QED
  BY <1>3, <1>4, <1>5

LEMMA NextNoneEscaped ==
  ASSUME Escapes = {}, RefInv, ArraysApart, NoneEscaped, [Next]_vars
  PROVE  ArraysApart' /\ NoneEscaped'
<1>1. refs \in [Frame -> SUBSET Reference] /\ stored = {} /\ TypeOK
  BY DEF RefInv, IInv, FrameInv, TypeOK, NoneEscaped
<1>2. ASSUME NEW frame \in Frame, NEW given \in SUBSET Reference, NEW hasOwn \in BOOLEAN,
             Activate(frame, given, hasOwn), \A r \in given : ~r.escaped, stored' = stored
      PROVE  ArraysApart' /\ NoneEscaped'
  <2>1. refs' = [refs EXCEPT ![frame] = given]
    BY <1>2 DEF Activate, Locals
  <2>2. NoneEscaped'
    BY <1>1, <1>2, <2>1 DEF NoneEscaped
  <2>3. QED
    BY <1>2, <2>2, ActivateKeepsApart
<1>3. ASSUME NEW fiber \in Fiber, Call(fiber) PROVE ArraysApart' /\ NoneEscaped'
  <2>1. PICK frame \in Frame, given \in SUBSET Visible(Top(fiber)), hasOwn \in BOOLEAN :
          Activate(frame, given, hasOwn) /\ stored' = stored
    BY <1>3 DEF Call
  <2>2. Top(fiber) \in Frame
    BY <1>1, <1>3, TopFrame DEF Call
  <2>3. Visible(Top(fiber)) \in SUBSET Reference /\ \A r \in Visible(Top(fiber)) : ~r.escaped
    <3>1. Visible(Top(fiber)) \in SUBSET Reference
      BY <2>2, VisibleFinite DEF RefInv, IInv, FrameInv
    <3>2. \A r \in refs[Top(fiber)] : ~r.escaped
      BY <2>2 DEF NoneEscaped
    <3>3. QED
      BY <3>1, <3>2 DEF Visible
  <2>4. given \in SUBSET Reference /\ \A r \in given : ~r.escaped
    BY <2>3
  <2>5. QED
    BY <1>2, <2>1, <2>4
<1>4. ASSUME NEW fiber \in Fiber, NEW child \in Fiber, Spawn(fiber, child)
      PROVE  ArraysApart' /\ NoneEscaped'
  <2>1. PICK frame \in Frame :
          Activate(frame, Captured(Top(fiber)), FALSE) /\ stored' = stored
    BY <1>4 DEF Spawn
  <2>2. Captured(Top(fiber)) = {}
    BY <1>4 DEF Spawn, Captured
  <2>3. QED
    BY <1>2, <2>1, <2>2
<1>5. ASSUME \/ UNCHANGED vars
             \/ \E fiber \in Fiber : \/ Store(fiber) \/ CallStored(fiber)
                                     \/ EnterTry(fiber) \/ PopTry(fiber)
                                     \/ Raise(fiber) \/ Return(fiber)
      PROVE  UNCHANGED <<act, array, refs, stored, started>>
  BY <1>1, <1>5 DEF Store, CallStored, EnterTry, PopTry, Raise, Return, vars, frameVars
<1>6. ASSUME UNCHANGED <<act, array, refs, stored, started>>
      PROVE  ArraysApart' /\ NoneEscaped'
  BY <1>6 DEF ArraysApart, NoneEscaped
<1>7. QED
  BY <1>3, <1>4, <1>5, <1>6 DEF Next, Ended

LEMMA ReferencesReach ==
  ASSUME RefInv, ArraysApart, NoneEscaped
  PROVE  CapturesKept
<1> SUFFICES ASSUME NEW f \in Fiber, NEW i \in 1 .. Depth(f), NEW r \in refs[calls[f][i]],
                    NEW frame \in Frame, array[frame] = r.array
             PROVE  act[frame] = r.act
  BY DEF CapturesKept, Reaches
<1>1. \A j \in 1 .. Depth(f) : calls[f][j] \in Frame /\ act[calls[f][j]] # 0
  <2>1. calls[f] \in Seq(Frame)
    BY DEF RefInv, IInv, FrameInv, TypeOK
  <2>2. QED
    BY <2>1 DEF RefInv, IInv, FrameInv, UsedFrames, Depth
<1>2. ~r.escaped
  BY <1>1 DEF NoneEscaped
<1>3. PICK j \in 1 .. i - 1 : PointsAt(r, calls[f][j])
  BY <1>2 DEF RefInv, RefersDown
<1>4. j \in 1 .. Depth(f)
  BY DEF RefInv, IInv, FrameInv, TypeOK, Depth
<1>5. frame = calls[f][j]
  BY <1>1, <1>3, <1>4 DEF PointsAt, ArraysApart
<1>6. QED
  BY <1>3, <1>5 DEF PointsAt

\* Var parameters alone are safe: as long as no closure outlives the routine it
\* was made in, the cells a reference points to hold the variables it was made
\* for.  What the run frames_captured finds is due to such closures only.
THEOREM LocalsKeptWithoutEscapes ==
  ASSUME Escapes = {}
  PROVE  Spec => []CapturesKept
<1>1. Init => RefInv /\ ArraysApart /\ NoneEscaped
  <2> SUFFICES ASSUME Init PROVE ArraysApart /\ NoneEscaped
    BY InitRefInv
  <2>1. PICK root \in Frame :
          /\ act = [f \in Frame |-> IF f = root THEN 1 ELSE 0]
          /\ array = [f \in Frame |-> IF f = root THEN 1 ELSE 0]
    BY DEF Init
  <2>2. started = 1 /\ refs = [f \in Frame |-> {}] /\ stored = {}
    BY DEF Init
  <2>3. QED
    BY <2>1, <2>2 DEF ArraysApart, NoneEscaped
<1>2. RefInv /\ ArraysApart /\ NoneEscaped /\ [Next]_vars
        => RefInv' /\ ArraysApart' /\ NoneEscaped'
  BY NextRefInv, NextNoneEscaped
<1>3. RefInv /\ ArraysApart /\ NoneEscaped => CapturesKept
  BY ReferencesReach
<1>4. QED
  BY <1>1, <1>2, <1>3, PTL DEF Spec
=============================================================================
