------------------------------ MODULE RoomFeed -------------------------------
(***************************************************************************)
(* What an instance promises its sockets about rooms: an ideal feed.  A    *)
(* socket asks for a room, some time later is reached by its events, and   *)
(* from then on every event reaches it until it leaves.                    *)
(* ConnectionRegistry implements it; RoomListeners builds on it.           *)
(***************************************************************************)
CONSTANTS Conns, Rooms

VARIABLES
  asked,    \* <<socket, room>>: the socket has asked for the room, and not left
  hearing,  \* those an event of the room, published now, reaches
  intact    \* FALSE once the feed has failed

vars == <<asked, hearing, intact>>

Init == asked = {} /\ hearing = {} /\ intact = TRUE

Ask(c, r) ==
  /\ asked' = asked \cup {<<c, r>>}
  /\ UNCHANGED <<hearing, intact>>

\* Sockets begin to hear, maybe several at once, and only who has asked.
Reach ==
  /\ \E more \in SUBSET asked : hearing' = hearing \cup more
  /\ UNCHANGED <<asked, intact>>

\* c leaves the rooms rs.  A question of c that is still being answered outlives it.
Leave(c, rs) ==
  /\ hearing' = hearing \ ({c} \X rs)
  /\ \E late \in SUBSET ({c} \X rs) : asked' = (asked \ ({c} \X rs)) \cup (asked \cap late)
  /\ UNCHANGED intact

\* A feed that has failed promises nothing but that it writes to nobody who has
\* not asked.
Fail ==
  /\ intact' = FALSE
  /\ asked' \in SUBSET (Conns \X Rooms)
  /\ hearing' \in SUBSET asked'

Next ==
  \/ \E c \in Conns, r \in Rooms : Ask(c, r)
  \/ Reach
  \/ \E c \in Conns : \E rs \in SUBSET Rooms : Leave(c, rs)
  \/ Fail

Spec == Init /\ [][Next]_vars
=============================================================================
