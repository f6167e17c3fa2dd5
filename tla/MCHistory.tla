----------------------------- MODULE MCHistory ------------------------------
(* Symmetry of the networks, and a round-trip time of its own per target.   *)
EXTENDS History, TLC
CONSTANTS NA, NB
NetworkSymmetry == Permutations(Networks)
MCRTT == [target \in 1 .. NTargets |-> 2 * target - 1]
=============================================================================
