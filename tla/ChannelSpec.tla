---------------------------- MODULE ChannelSpec ----------------------------
(***************************************************************************)
(* What Channel<T> promises a program, without run queues, parked fibers   *)
(* or buffers: each channel is one first-in first-out line of values.  A   *)
(* value enters the line once and leaves it once, into the hands of one    *)
(* fiber; nil comes out only of a closed channel whose line is empty, and  *)
(* nothing enters a closed channel.                                        *)
(***************************************************************************)
EXTENDS Sequences

CONSTANTS Fiber, Chan, Val, Nil

VARIABLES
  line,    (* values sent and not yet received, oldest first, per channel *)
  shut,    (* channels that have been closed                              *)
  got      (* the value each fiber received last                          *)

lineVars == <<line, shut, got>>

Init ==
  /\ line = [c \in Chan |-> <<>>]
  /\ shut = [c \in Chan |-> FALSE]
  /\ got = [f \in Fiber |-> Nil]

\* A value joins the end of the line.
Put(c, v) ==
  /\ ~shut[c]
  /\ line' = [line EXCEPT ![c] = Append(@, v)]
  /\ UNCHANGED <<shut, got>>

\* A fiber takes the oldest value.
Take(f, c) ==
  /\ line[c] # <<>>
  /\ got' = [got EXCEPT ![f] = Head(line[c])]
  /\ line' = [line EXCEPT ![c] = Tail(@)]
  /\ UNCHANGED shut

\* With nobody before it, a value goes straight to a fiber that waits.
HandOver(f, c, v) ==
  /\ ~shut[c]
  /\ line[c] = <<>>
  /\ got' = [got EXCEPT ![f] = v]
  /\ UNCHANGED <<line, shut>>

TakeNil(f, c) ==
  /\ shut[c]
  /\ line[c] = <<>>
  /\ got' = [got EXCEPT ![f] = Nil]
  /\ UNCHANGED <<line, shut>>

\* Closing gives nil to the fibers that wait, and nobody waits on a channel
\* that still holds values.
Shut(c, waiting) ==
  /\ waiting # {} => line[c] = <<>>
  /\ shut' = [shut EXCEPT ![c] = TRUE]
  /\ got' = [f \in Fiber |-> IF f \in waiting THEN Nil ELSE got[f]]
  /\ UNCHANGED line

Next ==
  \E c \in Chan :
    \/ \E v \in Val : Put(c, v)
    \/ \E f \in Fiber : Take(f, c) \/ TakeNil(f, c)
    \/ \E f \in Fiber, v \in Val : HandOver(f, c, v)
    \/ \E waiting \in SUBSET Fiber : Shut(c, waiting)

Spec == Init /\ [][Next]_lineVars
=============================================================================
