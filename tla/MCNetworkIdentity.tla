-------------------------- MODULE MCNetworkIdentity -------------------------
(* A small instance of NetworkIdentity for TLC: one ISP behind every network. *)
EXTENDS NetworkIdentity, TLC

IspOfNets == [n \in Nets |-> CHOOSE isp \in ISPs : TRUE]

\* IspOfNets treats the networks alike.
NetSymmetry == Permutations(Nets)
=============================================================================
