------------------------------- MODULE Rooms --------------------------------
(***************************************************************************)
(* Rooms and their members: direct rooms, groups, adding and removing      *)
(* members, deleting rooms (src/application/use-cases/rooms and            *)
(* room-authorizer.ts) over the rooms and room_members tables.             *)
(*                                                                         *)
(* A step is one statement together with the code that runs on its result. *)
(* One reduction: where the code reads the room and then a member of it,   *)
(* the two reads are one step, at the time of the second.  It is exact: a  *)
(* room is never recreated, its kind never changes, and its members go     *)
(* with it.  Users are never deleted, so looking them up decides nothing.  *)
(***************************************************************************)
EXTENDS Naturals

CONSTANTS
  RoomIds, Users,
  Requests,    \* requests in flight at once
  None,        \* SQL NULL, and the absence of a row
  Gone         \* a room that has been deleted

Roles == {"owner", "admin", "member"}
Room == [kind : {"dm", "group"}, pair : SUBSET Users]

ASSUME RoomsAssumption ==
  /\ None \notin Users \cup RoomIds \cup Roles \cup Room
  /\ Gone \notin Room \cup {None}

VARIABLES
  rooms,    \* room id -> row, None before its insert, Gone after its deletion
  members,  \* room_members: the role of each user in each room
  request,  \* what each request waits for, and the locals it carries
  short     \* noted: rooms a user has left, or whose creation has crashed

vars == <<rooms, members, request, short>>

Stages == {"idle", "dmInsert", "dmSelect", "dmMembers", "dmAnswer", "owner",
           "groupMembers", "addCheck", "addInsert", "removeAuthorize", "remove",
           "delete"}

Locals == [at : Stages, user : Users \cup {None}, room : RoomIds \cup {None},
           target : Users \cup {None}, role : Roles \cup {None}, todo : SUBSET Users]
Idle == [at |-> "idle", user |-> None, room |-> None, target |-> None,
         role |-> None, todo |-> {}]

TypeOK ==
  /\ rooms \in [RoomIds -> Room \cup {None, Gone}]
  /\ members \in [RoomIds -> [Users -> Roles \cup {None}]]
  /\ request \in [Requests -> Locals]
  /\ short \in SUBSET RoomIds

Nobody == [u \in Users |-> None]

Init ==
  /\ rooms = [r \in RoomIds |-> None]
  /\ members = [r \in RoomIds |-> Nobody]
  /\ request = [p \in Requests |-> Idle]
  /\ short = {}

-----------------------------------------------------------------------------
Live(r) == rooms[r] \notin {None, Gone}
IsMember(r, u) == members[r][u] # None
DmBetween(u, v) == {r \in RoomIds : Live(r) /\ rooms[r].kind = "dm" /\ rooms[r].pair = {u, v}}

Start(p, r) == request[p] = Idle /\ request' = [request EXCEPT ![p] = r]
Goto(p, stage) == request' = [request EXCEPT ![p].at = stage]
Finish(p) == request' = [request EXCEPT ![p] = Idle]
Enter(r, u, role) == members' = [members EXCEPT ![r][u] = role]

\* addMember: an INSERT that fails on the key if the user is a member, and on
\* the foreign key if the room is gone.
MayEnter(r, u) == Live(r) /\ ~ IsMember(r, u)

-----------------------------------------------------------------------------
(* create-direct-room.ts, PgRoomRepository.createDm                        *)

DmAnswer(p, r) == request' = [request EXCEPT ![p].at = "dmAnswer", ![p].room = r]

\* findDmBetween: an existing room is the answer.
DmFind(p) ==
  /\ \E u, v \in Users :
       LET asked == [Idle EXCEPT !.user = u, !.target = v] IN
       \/ \E r \in DmBetween(u, v) :
            Start(p, [asked EXCEPT !.at = "dmAnswer", !.room = r])
       \/ DmBetween(u, v) = {} /\ Start(p, [asked EXCEPT !.at = "dmInsert"])
  /\ UNCHANGED <<rooms, members, short>>

\* INSERT ... ON CONFLICT (dm_key) DO NOTHING.
DmInsert(p) ==
  LET u == request[p].user
      v == request[p].target
  IN /\ request[p].at = "dmInsert"
     /\ \/ /\ DmBetween(u, v) # {}
           /\ Goto(p, "dmSelect")
           /\ UNCHANGED rooms
        \/ /\ DmBetween(u, v) = {}
           /\ \E r \in RoomIds :
                /\ rooms[r] = None
                /\ rooms' = [rooms EXCEPT ![r] = [kind |-> "dm", pair |-> {u, v}]]
                /\ request' = [request EXCEPT ![p].at = "dmMembers", ![p].room = r]
     /\ UNCHANGED <<members, short>>

\* The room in the way, unless it has been deleted meanwhile.
DmSelect(p) ==
  LET found == DmBetween(request[p].user, request[p].target)
  IN /\ request[p].at = "dmSelect"
     /\ IF found = {} THEN Finish(p) ELSE \E r \in found : DmAnswer(p, r)
     /\ UNCHANGED <<rooms, members, short>>

\* The members of a new direct room.  The variant forgets the second one.
DmRolesOfOne(u, v) == [x \in Users |-> IF x = u THEN "member" ELSE None]
DmRoles(u, v) == [x \in Users |-> IF x \in {u, v} THEN "member" ELSE None]

\* Nobody is a member of the room before, so nobody can have deleted it.
DmMembers(p) ==
  LET r == request[p].room
  IN /\ request[p].at = "dmMembers"
     /\ members' = [members EXCEPT ![r] = DmRoles(request[p].user, request[p].target)]
     /\ DmAnswer(p, r)
     /\ UNCHANGED <<rooms, short>>

DmDone(p) ==
  /\ request[p].at = "dmAnswer"
  /\ Finish(p)
  /\ UNCHANGED <<rooms, members, short>>

-----------------------------------------------------------------------------
(* create-group-room.ts, PgRoomRepository.createGroup                      *)

GroupInsert(p) ==
  /\ \E r \in RoomIds, u \in Users : \E others \in SUBSET (Users \ {u}) :
       /\ rooms[r] = None
       /\ rooms' = [rooms EXCEPT ![r] = [kind |-> "group", pair |-> {}]]
       /\ Start(p, [Idle EXCEPT !.at = "owner", !.user = u, !.room = r, !.todo = others])
  /\ UNCHANGED <<members, short>>

\* The role of the creator.  The variant makes an admin of him.
CreatorAsAdmin == "admin"
CreatorRole == "owner"

GroupOwner(p) ==
  /\ request[p].at = "owner"
  /\ Enter(request[p].room, request[p].user, CreatorRole)
  /\ IF request[p].todo = {} THEN Finish(p) ELSE Goto(p, "groupMembers")
  /\ UNCHANGED <<rooms, short>>

\* One of the members named.  The first insert that fails ends the request.
GroupMember(p) ==
  LET r == request[p].room
      todo == request[p].todo
  IN /\ request[p].at = "groupMembers"
     /\ \E u \in todo :
          \/ /\ MayEnter(r, u)
             /\ Enter(r, u, "member")
             /\ IF todo = {u} THEN Finish(p)
                ELSE request' = [request EXCEPT ![p].todo = todo \ {u}]
          \/ /\ ~ MayEnter(r, u)
             /\ Finish(p)
             /\ UNCHANGED members
     /\ UNCHANGED <<rooms, short>>

-----------------------------------------------------------------------------
(* add-member.ts                                                           *)

\* assertRoomExists and assertAdmin.  The variant asks for a member.
MayAddAsMember(role) == role # None
MayAdd(role) == role \in {"owner", "admin"}

AddAuthorize(p) ==
  /\ \E r \in RoomIds, u, v \in Users, role \in {"admin", "member"} :
       /\ MayAdd(members[r][u])
       /\ Start(p, [Idle EXCEPT !.at = "addCheck", !.user = u, !.room = r,
                                !.target = v, !.role = role])
  /\ UNCHANGED <<rooms, members, short>>

\* getMember: not a member yet.
AddCheck(p) ==
  /\ request[p].at = "addCheck"
  /\ IF IsMember(request[p].room, request[p].target) THEN Finish(p) ELSE Goto(p, "addInsert")
  /\ UNCHANGED <<rooms, members, short>>

AddInsert(p) ==
  LET r == request[p].room
      u == request[p].target
  IN /\ request[p].at = "addInsert"
     /\ IF MayEnter(r, u) THEN Enter(r, u, request[p].role) ELSE UNCHANGED members
     /\ Finish(p)
     /\ UNCHANGED <<rooms, short>>

-----------------------------------------------------------------------------
(* remove-member.ts                                                        *)

\* getMember of the target, whose role is kept.  Users remove themselves without
\* more.
RemoveTarget(p) ==
  /\ \E r \in RoomIds, u, v \in Users :
       /\ IsMember(r, v)
       /\ Start(p, [Idle EXCEPT !.user = u, !.room = r, !.target = v,
                      !.role = members[r][v],
                      !.at = IF u = v THEN "remove" ELSE "removeAuthorize"])
  /\ UNCHANGED <<rooms, members, short>>

\* The rule on the role of the requester and the role of the target.  The
\* variant lets owners be removed.
MayRemoveOwner(role, seen) ==
  role # None /\ role # "member" /\ ~ (role = "admin" /\ seen = "admin")
MayRemove(role, seen) ==
  /\ role # None /\ role # "member"
  /\ seen # "owner"
  /\ ~ (role = "admin" /\ seen = "admin")

RemoveAuthorize(p) ==
  LET r == request[p]
  IN /\ r.at = "removeAuthorize"
     /\ IF MayRemove(members[r.room][r.user], r.role) THEN Goto(p, "remove") ELSE Finish(p)
     /\ UNCHANGED <<rooms, members, short>>

Remove(p) ==
  /\ request[p].at = "remove"
  /\ Enter(request[p].room, request[p].target, None)
  /\ short' = short \cup {r \in {request[p].room} : request[p].user = request[p].target}
  /\ Finish(p)
  /\ UNCHANGED rooms

-----------------------------------------------------------------------------
(* delete-room.ts                                                          *)

\* The owner deletes a group, a member deletes a direct room.
DeleteAuthorize(p) ==
  /\ \E r \in RoomIds, u \in Users :
       /\ Live(r) /\ IsMember(r, u)
       /\ rooms[r].kind = "group" => members[r][u] = "owner"
       /\ Start(p, [Idle EXCEPT !.at = "delete", !.user = u, !.room = r])
  /\ UNCHANGED <<rooms, members, short>>

\* DELETE FROM rooms; the members go with the room.
DeleteRoom(p) ==
  LET r == request[p].room
  IN /\ request[p].at = "delete"
     /\ rooms' = [rooms EXCEPT ![r] = Gone]
     /\ members' = [members EXCEPT ![r] = Nobody]
     /\ Finish(p)
     /\ UNCHANGED short

Crash(p) ==
  /\ request[p] # Idle
  /\ Finish(p)
  /\ short' = short \cup {r \in {request[p].room} : request[p].at \in {"dmMembers", "owner"}}
  /\ UNCHANGED <<rooms, members>>

CreateDirectRoom(p) == DmFind(p) \/ DmInsert(p) \/ DmSelect(p) \/ DmMembers(p) \/ DmDone(p)
CreateGroupRoom(p) == GroupInsert(p) \/ GroupOwner(p) \/ GroupMember(p)
AddMember(p) == AddAuthorize(p) \/ AddCheck(p) \/ AddInsert(p)
RemoveMember(p) == RemoveTarget(p) \/ RemoveAuthorize(p) \/ Remove(p)

Next == \E p \in Requests :
  \/ CreateDirectRoom(p) \/ CreateGroupRoom(p) \/ AddMember(p) \/ RemoveMember(p)
  \/ DeleteAuthorize(p) \/ DeleteRoom(p) \/ Crash(p)

Spec == Init /\ [][Next]_vars

-----------------------------------------------------------------------------
(* However the requests interleave or fail                                 *)

\* Nobody but its two users ever is in a direct room: createDm makes both plain
\* members, and assertAdmin keeps members from adding anybody.
DmIsPrivate ==
  \A r \in RoomIds, u \in Users :
    Live(r) /\ rooms[r].kind = "dm" /\ IsMember(r, u)
      => u \in rooms[r].pair /\ members[r][u] = "member"

\* The owner of a group only goes by leaving, or with the room, although the role
\* remove-member.ts checks was read two statements before the removal.
OwnersOnlyLeave ==
  [][\A r \in RoomIds, u \in Users :
       members[r][u] = "owner" /\ members'[r][u] # "owner" =>
         \/ rooms'[r] = Gone
         \/ \E p \in Requests : request[p].at = "remove" /\ request[p].room = r
                                /\ request[p].user = u /\ request[p].target = u]_vars

(* As long as nobody leaves the room and its creation does not crash       *)

\* A direct room has both its users and a group its owner, once the request that
\* creates it has run its second statement.
CreatedRoomsAreWhole ==
  \A r \in RoomIds :
    /\ Live(r) /\ r \notin short
    /\ \A p \in Requests : request[p].at \in {"dmMembers", "owner"} => request[p].room # r
    => IF rooms[r].kind = "dm" THEN \A u \in rooms[r].pair : IsMember(r, u)
       ELSE \E u \in Users : members[r][u] = "owner"

\* "Crear DM" (README.md): whoever asked for a direct room is a member of the one in
\* the answer, unless the room has been deleted meanwhile or the request that creates
\* it, another one, is still between its two statements.
CreatedDmIsUsable ==
  \A p \in Requests : request[p].at = "dmAnswer" =>
    LET r == request[p].room IN
      \/ IsMember(r, request[p].user)
      \/ rooms[r] = Gone \/ r \in short
      \/ \E q \in Requests : request[q].at = "dmMembers" /\ request[q].room = r
=============================================================================
