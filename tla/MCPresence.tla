----------------------------- MODULE MCPresence -----------------------------
(* Presence on a few sockets and instances.  They are interchangeable, but   *)
(* a symmetry set is not sound for the liveness property of the run.         *)
EXTENDS Presence
=============================================================================
