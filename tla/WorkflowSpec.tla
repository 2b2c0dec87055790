---------------------------- MODULE WorkflowSpec ----------------------------
(***************************************************************************)
(* What durable execution promises (pkg/vmpas/durable.go), whatever the    *)
(* engines, processes and snapshots behind it: a script makes progress,    *)
(* may pause where it is, and goes on later from any place it has paused   *)
(* at, with the same steps, output and random numbers behind it.           *)
(***************************************************************************)
EXTENDS Naturals

CONSTANTS
  Script,
  Idle      (* no script runs                                              *)

VARIABLES
  current,  (* how far the script that runs has come, or Idle              *)
  paused    (* the places scripts have paused at                           *)

\* Bare progress: what a script has done since it was started.
Progress == [script : Script, steps : Nat, output : Nat, draws : Nat]

Begin(s) == [script |-> s, steps |-> 0, output |-> 0, draws |-> 0]

Init == current = Idle /\ paused = {}

Start ==
  /\ current = Idle
  /\ \E s \in Script : current' = Begin(s)
  /\ UNCHANGED paused

GoOn ==
  /\ current = Idle
  /\ current' \in paused
  /\ UNCHANGED paused

\* A script only ever adds to what it has done.
Advance ==
  /\ current # Idle
  /\ \E d, o, r \in {0, 1} :
       current' = [current EXCEPT !.steps = @ + d, !.output = @ + o, !.draws = @ + r]
  /\ UNCHANGED paused

Pause ==
  /\ current # Idle
  /\ current' = Idle
  /\ paused' = paused \cup {current}

\* It ends, fails, or the process that runs it dies.
End ==
  /\ current # Idle
  /\ current' = Idle
  /\ UNCHANGED paused

Next == Start \/ GoOn \/ Advance \/ Pause \/ End

Spec == Init /\ [][Next]_<<current, paused>>
=============================================================================
