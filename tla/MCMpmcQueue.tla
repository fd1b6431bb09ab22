---------------------------- MODULE MCMpmcQueue ----------------------------
(* Instances of MpmcQueue for model checking. *)
EXTENDS MpmcQueue, TLC

CONSTANTS p1, p2, c1, c2

ThreadSymmetry == Permutations(Producers) \cup Permutations(Consumers)
=============================================================================
