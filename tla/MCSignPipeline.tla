-------------------------- MODULE MCSignPipeline ---------------------------
(* A small instance of SignPipeline for TLC.                               *)
EXTENDS SignPipeline, TLC

CONSTANTS r1, r2, plain, hmac, narrow

Good == [post |-> TRUE, json |-> TRUE, route |-> "sign", size |-> 1, declared |-> 1,
         malformed |-> FALSE, token |-> plain, hmac |-> "none", stamp |-> 0,
         fits |-> TRUE, upstreamDown |-> FALSE, chainKnown |-> TRUE]

Stamped == [Good EXCEPT !.token = hmac, !.hmac = "right"]

AnyProfile ==
  {Good, Stamped,
   [Stamped EXCEPT !.hmac = "wrong"],
   [Stamped EXCEPT !.token = narrow],
   [Stamped EXCEPT !.token = narrow, !.hmac = "wrong"],
   [Stamped EXCEPT !.stamp = 2],
   [Good EXCEPT !.token = None],
   [Good EXCEPT !.declared = None, !.size = 2],
   [Good EXCEPT !.malformed = TRUE],
   [Good EXCEPT !.json = FALSE],
   [Good EXCEPT !.fits = FALSE],
   [Good EXCEPT !.upstreamDown = TRUE],
   [Good EXCEPT !.chainKnown = FALSE],
   [Good EXCEPT !.route = "unknown"],
   [Good EXCEPT !.post = FALSE, !.route = "health"]}

\* Any request, beside one that is in order and takes from the same budget.
TheProfiles == r1 :> AnyProfile @@ r2 :> {Good}

Info(scoped, requiresHmac) == [scoped |-> scoped, requiresHmac |-> requiresHmac, hasSecret |-> TRUE]
TheIssued == plain :> Info(TRUE, FALSE) @@ hmac :> Info(TRUE, TRUE) @@ narrow :> Info(FALSE, TRUE)
TheOverrides == [a \in Awaits |-> 1]
=============================================================================
