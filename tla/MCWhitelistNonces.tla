------------------------- MODULE MCWhitelistNonces -------------------------
(* Small instances of WhitelistNonces for TLC.                             *)
EXTENDS WhitelistNonces, TLC

CONSTANTS p1, p2

ReplicaSymmetry == Permutations(Replicas)
=============================================================================
