---------------------------- MODULE MCRateLimiter ----------------------------
(* RateLimiter for TLC: three heavy downloads of one address against a     *)
(* burst of two.                                                           *)
EXTENDS RateLimiter, TLC

CONSTANTS a1, a2, a3, ipA

MCIpOf == a1 :> ipA @@ a2 :> ipA @@ a3 :> ipA
=============================================================================
