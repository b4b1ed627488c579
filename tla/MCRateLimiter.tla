---------------------------- MODULE MCRateLimiter ----------------------------
(***************************************************************************)
(* Instances of RateLimiter for TLC.                                       *)
(***************************************************************************)
EXTENDS RateLimiter, TLC

LimiterSymmetry == Permutations(Slots) \cup Permutations(Ips)
=============================================================================
