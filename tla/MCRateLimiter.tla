----------------------------- MODULE MCRateLimiter -----------------------------
(***************************************************************************)
(* Instances of RateLimiter for TLC.                                       *)
(***************************************************************************)
EXTENDS RateLimiter

CONSTANTS a1, a2, r1, r2, b1, b2, b3
=============================================================================
