--------------------------- MODULE MCRoomListeners ---------------------------
(* RoomListeners on a few rooms, users and requests, all interchangeable.   *)
EXTENDS RoomListeners, TLC

Symmetry == Permutations(RoomIds) \cup Permutations(Users) \cup Permutations(Requests)
=============================================================================
