---------------------------- MODULE MCExceptions ----------------------------
(* Exceptions for TLC; the cfg files choose what the programs do.           *)
EXTENDS Exceptions, TLC

EveryProgram == {{}, {"exit", "builtin"}, Uses}

Symmetric == Permutations(Values)
=============================================================================
