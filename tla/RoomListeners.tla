---------------------------- MODULE RoomListeners ----------------------------
(***************************************************************************)
(* Who hears a room: the rooms and members of Rooms together with the feed *)
(* of an instance (RoomFeed, which ConnectionRegistry implements).         *)
(*                                                                         *)
(* They meet in one place: chat.subscribe asks Postgres whether the user   *)
(* is a member (src/infrastructure/ws/handlers/chat-subscribe.ts).  From   *)
(* then on the feed does not look at the members, nor they at the feed.    *)
(* Every user has one socket, named after the user.                        *)
(***************************************************************************)
EXTENDS Rooms, FiniteSets

CONSTANT MaxListeners   \* bound on the sockets in the feed at once

ASSUME ListenersAssumption == MaxListeners \in Nat

VARIABLES
  asked, hearing, intact, \* the feed; here it does not fail
  departed                \* noted: who asked for a room before being removed from
                          \* it, or before it was deleted

Feed == INSTANCE RoomFeed WITH Conns <- Users, Rooms <- RoomIds

feedVars == <<asked, hearing, intact>>
allVars == <<vars, feedVars, departed>>

ListenersInit == Init /\ Feed!Init /\ departed = {}

\* getMember; the variant does not ask.
MaySubscribeUnasked(r, u) == Live(r)
MaySubscribe(r, u) == IsMember(r, u)

ChatSubscribe(u, r) ==
  /\ MaySubscribe(r, u)
  /\ Cardinality(asked \cup {<<u, r>>}) <= MaxListeners
  /\ Feed!Ask(u, r)
  /\ UNCHANGED <<vars, departed>>

Reach == Feed!Reach /\ UNCHANGED <<vars, departed>>

\* chat.unsubscribe, or the socket closes.
LeaveFeed(u, rs) ==
  /\ Feed!Leave(u, rs)
  /\ departed' = departed \cap asked'
  /\ UNCHANGED vars

RoomStep(p) ==
  /\ \/ /\ Remove(p)
        /\ departed' = departed \cup (asked \cap {<<request[p].target, request[p].room>>})
     \/ /\ DeleteRoom(p)
        /\ departed' = departed \cup (asked \cap (Users \X {request[p].room}))
     \/ /\ \/ CreateDirectRoom(p) \/ CreateGroupRoom(p) \/ AddMember(p)
           \/ RemoveTarget(p) \/ RemoveAuthorize(p) \/ DeleteAuthorize(p) \/ Crash(p)
        /\ UNCHANGED departed
  /\ UNCHANGED feedVars

ListenersNext ==
  \/ \E p \in Requests : RoomStep(p)
  \/ \E u \in Users, r \in RoomIds : ChatSubscribe(u, r)
  \/ Reach
  \/ \E u \in Users : \E rs \in SUBSET RoomIds : LeaveFeed(u, rs)

ListenersSpec == ListenersInit /\ [][ListenersNext]_allVars

-----------------------------------------------------------------------------
\* Who hears a room is a member of it, or asked for it before remove-member or
\* delete-room ended the membership (chat-subscribe.ts, 19, is the only check); and
\* a direct room is heard by nobody but its two users even then.
HeardByItsMembers ==
  \A x \in hearing : LET u == x[1]
                         r == x[2] IN
    /\ IsMember(r, u) \/ x \in departed
    /\ Live(r) /\ rooms[r].kind = "dm" => u \in rooms[r].pair
=============================================================================
