---------------------------- MODULE MCRateLimiter ----------------------------
(* RateLimiter on small instances, for TLC.                                *)
EXTENDS RateLimiter, TLC

Symmetry == Permutations(Threads)
=============================================================================
