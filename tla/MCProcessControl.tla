-------------------------- MODULE MCProcessControl --------------------------
(* Model-checking instance of ProcessControl: 1 is what is left of 11 or   *)
(* 12 when its last digit is cut off.                                      *)
EXTENDS ProcessControl, TLC

Symmetric == Permutations(Threads)
=============================================================================
