----------------------------- MODULE MCDurable -----------------------------
(* Durable for TLC; the scripts of each run are in its cfg.                  *)
EXTENDS Durable, TLC

\* No action and no property tells the values of the bound variable apart.
InputSymmetry == Permutations(Input)
=============================================================================
