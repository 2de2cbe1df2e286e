---------------------------- MODULE MCWsTickets -----------------------------
(* WsTickets on a few tickets and upgrades, all of them interchangeable.    *)
EXTENDS WsTickets, TLC

Symmetry == Permutations(Tickets) \cup Permutations(Upgrades)
=============================================================================
