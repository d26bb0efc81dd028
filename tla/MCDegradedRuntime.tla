--------------------------- MODULE MCDegradedRuntime ---------------------------
(* TLC instances of DegradedRuntime.                                        *)
EXTENDS DegradedRuntime, TLC

Symmetry == Permutations(Cand) \cup Permutations(Run)
===============================================================================
