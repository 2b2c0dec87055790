------------------------------ MODULE MCEngine ------------------------------
(* Engine for TLC: a source that needs the database, a bound function and    *)
(* Assign, the last without being asked for.                                 *)
EXTENDS Engine, TLC

CONSTANTS db, fs, f, s

OneSource == s :> {db, fs, f}
AllButFiles == s :> {db, f}
=============================================================================
