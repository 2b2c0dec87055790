------------------------------ MODULE MCFibers ------------------------------
(* Instances of Fibers for TLC.                                             *)
EXTENDS Fibers, TLC

CONSTANTS c1, c2

\* One buffered channel, and one made unbuffered by a negative size.
BufferedAndNot == (c1 :> 1) @@ (c2 :> -1)

=============================================================================
