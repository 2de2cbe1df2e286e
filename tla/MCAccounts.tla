---------------------------- MODULE MCAccounts ------------------------------
(* Accounts on a few addresses, tokens and requests, all interchangeable.   *)
EXTENDS Accounts, TLC

Symmetry == Permutations(Emails) \cup Permutations(Passwords) \cup Permutations(Tokens)
            \cup Permutations(Requests)
=============================================================================
