---------------------------- MODULE MCOutageLog -----------------------------
(* Model values and symmetry for OutageLog; the bounds are in the cfgs. *)
EXTENDS OutageLog, TLC
CONSTANTS NA, NB

\* The two networks are interchangeable; NoLink is not one of them.
NetworkSymmetry == Permutations(Networks)
=============================================================================
