-------------------------- MODULE MCRefreshTokens --------------------------
(* RefreshTokens on a few tokens and requests, both interchangeable.        *)
EXTENDS RefreshTokens, TLC

Symmetry == Permutations(Tokens) \cup Permutations(Requests)
=============================================================================
