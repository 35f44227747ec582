----------------------------- MODULE MCRoleScan ------------------------------
(* A small instance of RoleScan for TLC.                                   *)
EXTENDS RoleScan, TLC

CONSTANTS u1, u2, f1, none, puller
=============================================================================
