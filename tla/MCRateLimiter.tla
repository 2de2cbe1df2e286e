--------------------------- MODULE MCRateLimiter ----------------------------
(* RateLimiter on a few attempts, all of them interchangeable.              *)
EXTENDS RateLimiter, TLC

Symmetry == Permutations(Attempts)
=============================================================================
