----------------------------- MODULE MCMessages -----------------------------
(* Messages on a few rooms, users and requests.  One user is an admin, so    *)
(* the users are not interchangeable; everything else is.                    *)
EXTENDS Messages, TLC

Symmetry == Permutations(Rooms) \cup Permutations(Bodies) \cup Permutations(Requests)
=============================================================================
