------------------------------ MODULE MCFrames ------------------------------
(* Frames for TLC: frames and the fibers other than Main are interchangeable. *)
EXTENDS Frames, TLC
Symmetry == Permutations(Frame) \cup Permutations(Fiber \ {Main})
=============================================================================
