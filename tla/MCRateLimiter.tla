--------------------------- MODULE MCRateLimiter ----------------------------
(* Small instances of RateLimiter for TLC.                                 *)
EXTENDS RateLimiter

CONSTANTS c1, c2, c3
=============================================================================
