----------------------------- MODULE MCCommandBus -----------------------------
(* TLC instances of CommandBus.  Workers are alike; a symmetry may be used    *)
(* where no liveness is checked.                                            *)
EXTENDS CommandBus, TLC

WorkersAlike == Permutations(Worker)
===============================================================================
