---------------------- MODULE MCConnectionRegistry -------------------------
(* ConnectionRegistry on small sets of sockets, channels and handlers.  Only *)
(* the sockets are interchangeable: handlers are named in order, and with    *)
(* one room or two a symmetry of rooms would gain nothing.                   *)
EXTENDS ConnectionRegistry, TLC

Symmetry == Permutations(Conns)
=============================================================================
