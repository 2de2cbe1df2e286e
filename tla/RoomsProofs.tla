----------------------------- MODULE RoomsProofs -----------------------------
(***************************************************************************)
(* What Rooms and RoomListeners guarantee, for any number of rooms, users  *)
(* and requests: who can be in a direct room and who hears it, how a group *)
(* loses its owner, and that created rooms are whole.                      *)
(***************************************************************************)
EXTENDS RoomListeners, TLAPS

\* A request with a room between the statement that inserts the room and the one
\* that inserts its first members.
Creating(p) == request[p].at \in {"dmMembers", "owner"}
Creators(r) == {p \in Requests : Creating(p) /\ request[p].room = r}

IsDm(r) == Live(r) /\ rooms[r].kind = "dm"
IsGroup(r) == Live(r) /\ rooms[r].kind = "group"

\* The two sides of the invariant: a room and its members ...
RoomOK(r) ==
  /\ ~ Live(r) => members[r] = Nobody
  /\ IsDm(r) => \A u \in Users :
                  IsMember(r, u) => u \in rooms[r].pair /\ members[r][u] = "member"
  /\ Live(r) /\ r \notin short /\ Creators(r) = {} =>
       /\ IsDm(r) => \A u \in rooms[r].pair : IsMember(r, u)
       /\ IsGroup(r) => \E u \in Users : members[r][u] = "owner"

\* ... and what a request relies on.  Its checks may be old, but a room never
\* changes its kind, and nobody becomes the owner of a room but in its creation.
HasRoom(p) ==
  LET q == request[p] IN
  /\ q.room # None => rooms[q.room] # None
  /\ q.at \notin {"idle", "dmInsert", "dmSelect"} => q.room # None
  /\ q.at \in {"dmInsert", "dmSelect"} => q.room = None

HasUsers(p) ==
  LET q == request[p] IN
  /\ q.at # "idle" => q.user # None
  /\ q.at \in {"dmInsert", "dmSelect", "dmMembers", "addCheck", "addInsert",
               "removeAuthorize", "remove"} => q.target # None

MayAct(p) ==
  LET q == request[p] IN
  /\ q.at = "dmMembers" => IsDm(q.room) /\ rooms[q.room].pair = {q.user, q.target}
  /\ q.at = "dmAnswer" => rooms[q.room] = Gone \/ (IsDm(q.room) /\ q.user \in rooms[q.room].pair)
  /\ q.at = "owner" => IsGroup(q.room)
  /\ q.at \in {"groupMembers", "addCheck", "addInsert"} => rooms[q.room] = Gone \/ IsGroup(q.room)
  /\ q.at \in {"addCheck", "addInsert"} => q.role \in {"admin", "member"}

MayRemoveIt(p) ==
  LET q == request[p] IN
  q.at \in {"removeAuthorize", "remove"} =>
    /\ q.role # None
    /\ members[q.room][q.target] = "owner" => q.role = "owner"
    /\ q.at = "remove" /\ q.user # q.target =>
         q.role # "owner" /\ (rooms[q.room] = Gone \/ IsGroup(q.room))

RequestOK(p) == HasRoom(p) /\ HasUsers(p) /\ MayAct(p) /\ MayRemoveIt(p)

\* Until it has members, a room is known to its creator only, and to those who are
\* to find nobody in it.
Alone(p) ==
  Creating(p) =>
    /\ members[request[p].room] = Nobody
    /\ \A q \in Requests \ {p} :
         request[q].room = request[p].room => request[q].at = "dmAnswer"

RoomsInv ==
  /\ TypeOK
  /\ \A r \in RoomIds : RoomOK(r)
  /\ \A p \in Requests : RequestOK(p) /\ Alone(p)

-----------------------------------------------------------------------------
(* Helpers                                                                 *)

LEMMA NoneIsNobody ==
  /\ None \notin Users /\ None \notin RoomIds /\ None \notin Roles
  /\ None \notin Room /\ Gone \notin Room /\ Gone # None
BY RoomsAssumption

LEMMA IdleIsLocals == Idle \in Locals
BY DEF Idle, Locals, Stages

LEMMA LiveIsRoom ==
  ASSUME TypeOK, NEW r \in RoomIds
  PROVE  Live(r) <=> rooms[r] \in Room
BY NoneIsNobody DEF TypeOK, Live

LEMMA KindIsEither ==
  ASSUME TypeOK, NEW r \in RoomIds, Live(r)
  PROVE  (IsDm(r) \/ IsGroup(r)) /\ ~ (IsDm(r) /\ IsGroup(r)) /\ rooms[r].pair \in SUBSET Users
BY LiveIsRoom DEF IsDm, IsGroup, Room

\* What a request holds has its type.
LEMMA RequestTypes ==
  ASSUME TypeOK, NEW p \in Requests
  PROVE  request[p] \in Locals
BY DEF TypeOK

LEMMA InitRooms == Init => RoomsInv
<1> SUFFICES ASSUME Init PROVE RoomsInv
  OBVIOUS
<1>1. TypeOK
  BY IdleIsLocals DEF Init, TypeOK, Nobody
<1>2. \A r \in RoomIds : RoomOK(r)
  BY DEF Init, RoomOK, Live, IsDm
<1>3. \A p \in Requests : request[p] = Idle
  BY DEF Init
<1>4. \A p \in Requests : RequestOK(p) /\ Alone(p)
  BY <1>3 DEF RequestOK, HasRoom, HasUsers, MayAct, MayRemoveIt, Alone, Creating, Idle
<1>5. QED BY <1>1, <1>2, <1>4 DEF RoomsInv

-----------------------------------------------------------------------------
(* Two frames: a step that only moves a request, and a step about one room *)

\* request is changed at p only.
Moves(p, q) == q \in Locals /\ request' = [request EXCEPT ![p] = q]

LEMMA MovesOnly ==
  ASSUME TypeOK, NEW p \in Requests, NEW q, Moves(p, q)
  PROVE  /\ request'[p] = q /\ request' \in [Requests -> Locals]
         /\ \A x \in Requests \ {p} : request'[x] = request[x]
BY DEF TypeOK, Moves

\* A request reads, and passes to a state in which it may go on, creating nothing.
LEMMA ReadStep ==
  ASSUME RoomsInv, NEW p \in Requests, NEW q, Moves(p, q),
         UNCHANGED <<rooms, members, short>>,
         ~ Creating(p), q.at \notin {"dmMembers", "owner"}, RequestOK(p)',
         \/ q.room = None \/ q.at = "dmAnswer" \/ members[q.room] # Nobody
         \/ q.room = request[p].room /\ request[p].at # "dmAnswer"
  PROVE  RoomsInv'
<1> USE DEF RoomsInv
<1>1. /\ request'[p] = q /\ request' \in [Requests -> Locals]
      /\ \A x \in Requests \ {p} : request'[x] = request[x]
  BY MovesOnly
<1>2. TypeOK'
  BY <1>1 DEF TypeOK
<1>3. \A x \in Requests : Creating(x)' <=> Creating(x)
  BY <1>1 DEF Creating
<1>4. ASSUME NEW r \in RoomIds PROVE RoomOK(r)'
  <2>1. Creators(r)' = Creators(r)
    BY <1>1, <1>3 DEF Creators
  <2>2. RoomOK(r)
    OBVIOUS
  <2>3. QED BY <2>1, <2>2 DEF RoomOK, Live, IsDm, IsGroup, IsMember
<1>5. ASSUME NEW x \in Requests PROVE RequestOK(x)'
  <2>1. CASE x = p
    BY <2>1
  <2>2. CASE x # p
    BY <1>1, <2>2 DEF RequestOK, HasRoom, HasUsers, MayAct, MayRemoveIt, Live, IsDm, IsGroup
  <2>3. QED BY <2>1, <2>2
<1>6. ASSUME NEW x \in Requests, Creating(x)' PROVE Alone(x)'
  <2>1. Creating(x) /\ Alone(x) /\ x # p /\ request'[x] = request[x]
    BY <1>1, <1>3, <1>6
  <2>2. /\ members[request[x].room] = Nobody
        /\ \A y \in Requests \ {x} :
             request[y].room = request[x].room => request[y].at = "dmAnswer"
    BY <2>1 DEF Alone
  <2>3. request[x].room # None
    BY <2>1 DEF Creating, RequestOK, HasRoom
  <2>4. q.room = request[x].room => q.at = "dmAnswer"
    BY <2>1, <2>2, <2>3
  <2>5. \A y \in Requests \ {x} :
          request'[y].room = request[x].room => request'[y].at = "dmAnswer"
    BY <1>1, <2>2, <2>4
  <2>6. QED BY <2>1, <2>2, <2>5 DEF Alone
<1>7. QED BY <1>2, <1>4, <1>5, <1>6 DEF Alone

\* A request p of room r changes that room: what has to be shown is about r.
LEMMA WriteStep ==
  ASSUME RoomsInv, NEW p \in Requests, NEW q, Moves(p, q), NEW r \in RoomIds,
         request[p].room \in {r, None}, q.room \in {r, None}, TypeOK',
         \A x \in RoomIds \ {r} : /\ rooms'[x] = rooms[x] /\ members'[x] = members[x]
                                  /\ x \in short' <=> x \in short,
         RoomOK(r)', RequestOK(p)', Alone(p)',
         \A x \in Requests \ {p} : request[x].room = r => RequestOK(x)' /\ Alone(x)'
  PROVE  RoomsInv'
<1> USE DEF RoomsInv
<1>1. /\ request'[p] = q
      /\ \A x \in Requests \ {p} : request'[x] = request[x]
  BY MovesOnly
<1>2. ASSUME NEW x \in RoomIds \ {r} PROVE RoomOK(x)'
  <2>1. RoomOK(x)
    OBVIOUS
  <2>2. Creators(x)' = Creators(x)
    <3>1. x # None
      BY NoneIsNobody
    <3>2. QED BY <1>1, <3>1 DEF Creators, Creating
  <2>3. QED BY <2>1, <2>2 DEF RoomOK, Live, IsDm, IsGroup, IsMember
<1>3. ASSUME NEW x \in Requests \ {p}, request[x].room # r
      PROVE  RequestOK(x)' /\ Alone(x)'
  <2>1. RequestOK(x) /\ Alone(x) /\ request'[x] = request[x] /\ request[x] \in Locals
    BY <1>1, RequestTypes
  <2>2. request[x].room = None \/ request[x].room \in RoomIds \ {r}
    BY <1>3, <2>1 DEF Locals
  <2>3. CASE request[x].room = None
    <3>1. request[x].at \in {"idle", "dmInsert", "dmSelect"}
      BY <2>1, <2>3 DEF RequestOK, HasRoom
    <3>2. QED
      BY <2>1, <2>3, <3>1
      DEF RequestOK, HasRoom, HasUsers, MayAct, MayRemoveIt, Alone, Creating
  <2>4. CASE request[x].room \in RoomIds \ {r}
    <3>1. RequestOK(x)'
      <4>1. /\ rooms'[request[x].room] = rooms[request[x].room]
            /\ members'[request[x].room] = members[request[x].room]
        BY <2>4
      <4>2. HasRoom(x)' /\ HasUsers(x)'
        BY <2>1, <4>1 DEF RequestOK, HasRoom, HasUsers
      <4>3. /\ IsDm(request[x].room)' <=> IsDm(request[x].room)
            /\ IsGroup(request[x].room)' <=> IsGroup(request[x].room)
        BY <2>1, <4>1 DEF IsDm, IsGroup, Live
      <4>4. MayAct(x)'
        BY <2>1, <4>1, <4>3 DEF RequestOK, MayAct, IsDm, IsGroup, Live
      <4>5. MayRemoveIt(x)'
        BY <2>1, <4>1, <4>3 DEF RequestOK, MayRemoveIt, IsGroup, Live
      <4>6. QED BY <4>2, <4>4, <4>5 DEF RequestOK
    <3>2. \A y \in Requests \ {x} :
            request'[y].room = request[x].room =>
              request[y].room = request[x].room /\ request'[y] = request[y]
      BY <1>1, <2>4, NoneIsNobody
    <3>3. Alone(x)'
      BY <2>1, <2>4, <3>2 DEF Alone, Creating
    <3>4. QED BY <3>1, <3>3
  <2>5. QED BY <2>2, <2>3, <2>4
<1>4. QED BY <1>2, <1>3

\* What Start, Goto and Finish do.
LEMMA StartMoves ==
  ASSUME TypeOK, NEW p \in Requests, NEW q \in Locals, Start(p, q)
  PROVE  Moves(p, q) /\ request[p] = Idle /\ ~ Creating(p)
BY DEF Start, Moves, Creating, Idle

LEMMA GotoMoves ==
  ASSUME TypeOK, NEW p \in Requests, NEW stage \in Stages, Goto(p, stage)
  PROVE  Moves(p, [request[p] EXCEPT !.at = stage])
BY RequestTypes DEF Goto, Moves, Locals

LEMMA FinishMoves ==
  ASSUME TypeOK, NEW p \in Requests, Finish(p)
  PROVE  Moves(p, Idle)
BY IdleIsLocals DEF Finish, Moves

\* A request that ends relies on nothing.
LEMMA IdleIsOK ==
  ASSUME NEW p \in Requests, request'[p] = Idle
  PROVE  RequestOK(p)' /\ Alone(p)'
BY DEF RequestOK, HasRoom, HasUsers, MayAct, MayRemoveIt, Alone, Creating, Idle

LEMMA FinishStep ==
  ASSUME RoomsInv, NEW p \in Requests, Finish(p), ~ Creating(p),
         UNCHANGED <<rooms, members, short>>
  PROVE  RoomsInv'
<1>1. Moves(p, Idle) /\ request'[p] = Idle
  BY FinishMoves, MovesOnly DEF RoomsInv
<1>2. RequestOK(p)'
  BY <1>1, IdleIsOK
<1>3. Idle.room = None /\ Idle.at \notin {"dmMembers", "owner"}
  BY DEF Idle
<1>4. QED BY <1>1, <1>2, <1>3, ReadStep

-----------------------------------------------------------------------------
(* The steps that only read                                                *)

LEMMA DmFindStep ==
  ASSUME RoomsInv, NEW p \in Requests, DmFind(p)
  PROVE  RoomsInv'
<1> USE DEF RoomsInv
<1>1. PICK u \in Users, v \in Users :
        LET asking == [Idle EXCEPT !.user = u, !.target = v] IN
        \/ \E r \in DmBetween(u, v) :
             Start(p, [asking EXCEPT !.at = "dmAnswer", !.room = r])
        \/ DmBetween(u, v) = {} /\ Start(p, [asking EXCEPT !.at = "dmInsert"])
  BY DEF DmFind
<1> DEFINE asking == [Idle EXCEPT !.user = u, !.target = v]
<1>2. ASSUME NEW r \in DmBetween(u, v),
             Start(p, [asking EXCEPT !.at = "dmAnswer", !.room = r])
      PROVE  RoomsInv'
  <2> DEFINE q == [asking EXCEPT !.at = "dmAnswer", !.room = r]
  <2>2. r \in RoomIds /\ IsDm(r) /\ u \in rooms[r].pair
    BY DEF DmBetween, IsDm
  <2>3. /\ q \in Locals
        /\ q.at = "dmAnswer" /\ q.user = u /\ q.room = r /\ q.target = v
    BY <2>2, IdleIsLocals DEF Locals, Stages
  <2> HIDE DEF q
  <2>4. Moves(p, q) /\ ~ Creating(p)
    BY <1>2, <2>3, StartMoves DEF q
  <2>5. request'[p] = q /\ rooms' = rooms /\ members' = members
    BY <2>4, MovesOnly DEF DmFind
  <2>6. RequestOK(p)'
    BY <2>2, <2>3, <2>5, NoneIsNobody
    DEF RequestOK, HasRoom, HasUsers, MayAct, MayRemoveIt, IsDm, Live
  <2>7. QED BY <2>3, <2>4, <2>6, ReadStep DEF DmFind
<1>3. ASSUME Start(p, [asking EXCEPT !.at = "dmInsert"])
      PROVE  RoomsInv'
  <2> DEFINE q == [asking EXCEPT !.at = "dmInsert"]
  <2>1. asking \in Locals /\ asking.user = u /\ asking.target = v /\ asking.room = None
    BY IdleIsLocals DEF Locals, Idle
  <2> HIDE DEF asking
  <2>2. /\ q \in Locals
        /\ q.at = "dmInsert" /\ q.user = u /\ q.room = None /\ q.target = v
    BY <2>1 DEF Locals, Stages
  <2> HIDE DEF q
  <2>3. Moves(p, q) /\ ~ Creating(p)
    BY <1>3, <2>2, StartMoves DEF q
  <2>4. request'[p] = q
    BY <2>3, MovesOnly
  <2>5. RequestOK(p)'
    BY <2>2, <2>4, NoneIsNobody DEF RequestOK, HasRoom, HasUsers, MayAct, MayRemoveIt
  <2>6. QED BY <2>2, <2>3, <2>5, ReadStep DEF DmFind
<1>4. QED BY <1>1, <1>2, <1>3

LEMMA DmSelectStep ==
  ASSUME RoomsInv, NEW p \in Requests, DmSelect(p)
  PROVE  RoomsInv'
<1> USE DEF RoomsInv
<1> DEFINE found == DmBetween(request[p].user, request[p].target)
<1>1. ~ Creating(p) /\ UNCHANGED <<rooms, members, short>> /\ request[p].at = "dmSelect"
  BY DEF DmSelect, Creating
<1>2. CASE Finish(p)
  BY <1>1, <1>2, FinishStep
<1>3. ASSUME NEW r \in found, DmAnswer(p, r)
      PROVE  RoomsInv'
  <2> DEFINE q == [request[p] EXCEPT !.at = "dmAnswer", !.room = r]
  <2>1. request[p] \in Locals /\ request[p].user # None
    BY <1>1, RequestTypes DEF RequestOK, HasUsers
  <2>2. r \in RoomIds /\ IsDm(r) /\ request[p].user \in rooms[r].pair
    BY DEF DmBetween, IsDm
  <2>3. q \in Locals /\ q.at = "dmAnswer" /\ q.room = r /\ q.user = request[p].user
    BY <2>1, <2>2 DEF Locals, Stages
  <2>4. Moves(p, q)
    BY <1>3, <2>3 DEF DmAnswer, Moves
  <2>5. request'[p] = q
    BY <2>4, MovesOnly
  <2> HIDE DEF q
  <2>6. RequestOK(p)'
    BY <1>1, <2>1, <2>2, <2>3, <2>5, NoneIsNobody
    DEF RequestOK, HasRoom, HasUsers, MayAct, MayRemoveIt, IsDm, Live
  <2>7. QED BY <1>1, <2>3, <2>4, <2>6, ReadStep
<1>4. QED BY <1>2, <1>3 DEF DmSelect

LEMMA AddAuthorizeStep ==
  ASSUME RoomsInv, NEW p \in Requests, AddAuthorize(p)
  PROVE  RoomsInv'
<1> USE DEF RoomsInv
<1>1. PICK r \in RoomIds, u \in Users, v \in Users, role \in {"admin", "member"} :
        /\ MayAdd(members[r][u])
        /\ Start(p, [Idle EXCEPT !.at = "addCheck", !.user = u, !.room = r,
                                 !.target = v, !.role = role])
  BY DEF AddAuthorize
<1> DEFINE q == [Idle EXCEPT !.at = "addCheck", !.user = u, !.room = r,
                             !.target = v, !.role = role]
<1>2. /\ q \in Locals /\ q.at = "addCheck" /\ q.user = u /\ q.room = r
      /\ q.target = v /\ q.role = role
  BY IdleIsLocals DEF Locals, Stages, Roles
<1> HIDE DEF q
<1>3. Moves(p, q) /\ ~ Creating(p)
  BY <1>1, <1>2, StartMoves DEF q
<1>4. request'[p] = q /\ UNCHANGED <<rooms, members, short>>
  BY <1>3, MovesOnly DEF AddAuthorize
<1>5. members[r] # Nobody /\ IsMember(r, u) /\ members[r][u] # "member"
  BY <1>1, NoneIsNobody DEF MayAdd, IsMember, Nobody, Roles
<1>6. IsGroup(r)
  <2>1. Live(r)
    BY <1>5 DEF RoomOK
  <2>2. QED BY <1>5, <2>1, KindIsEither DEF RoomOK
<1>7. RequestOK(p)'
  BY <1>2, <1>4, <1>6, NoneIsNobody
  DEF RequestOK, HasRoom, HasUsers, MayAct, MayRemoveIt, IsGroup, Live
<1>8. QED BY <1>2, <1>3, <1>4, <1>5, <1>7, ReadStep

\* A request goes on in its room.
LEMMA GoOnStep ==
  ASSUME RoomsInv, NEW p \in Requests, NEW stage \in {"addInsert", "remove"},
         Goto(p, stage), UNCHANGED <<rooms, members, short>>,
         request[p].at \in {"addCheck", "removeAuthorize"},
         RequestOK(p)'
  PROVE  RoomsInv'
<1> USE DEF RoomsInv
<1> DEFINE q == [request[p] EXCEPT !.at = stage]
<1>1. Moves(p, q)
  BY GotoMoves DEF Stages
<1>2. q.at = stage /\ q.room = request[p].room
  BY RequestTypes DEF Locals
<1>3. ~ Creating(p) /\ request[p].at # "dmAnswer" /\ q.at \notin {"dmMembers", "owner"}
  BY <1>2 DEF Creating
<1> HIDE DEF q
<1>4. QED BY <1>1, <1>2, <1>3, ReadStep

LEMMA AddCheckStep ==
  ASSUME RoomsInv, NEW p \in Requests, AddCheck(p)
  PROVE  RoomsInv'
<1> USE DEF RoomsInv
<1>1. /\ request[p].at = "addCheck" /\ ~ Creating(p)
      /\ UNCHANGED <<rooms, members, short>>
  BY DEF AddCheck, Creating
<1>2. CASE Finish(p)
  BY <1>1, <1>2, FinishStep
<1>3. CASE Goto(p, "addInsert")
  <2>1. request[p] \in Locals /\ request'[p] = [request[p] EXCEPT !.at = "addInsert"]
    BY <1>3, RequestTypes DEF Goto, TypeOK
  <2>2. RequestOK(p)'
    BY <1>1, <2>1 DEF Locals, RequestOK, HasRoom, HasUsers, MayAct, MayRemoveIt, IsGroup, Live
  <2>3. QED BY <1>1, <1>3, <2>2, GoOnStep
<1>4. QED BY <1>2, <1>3 DEF AddCheck

LEMMA RemoveTargetStep ==
  ASSUME RoomsInv, NEW p \in Requests, RemoveTarget(p)
  PROVE  RoomsInv'
<1> USE DEF RoomsInv
<1>1. PICK r \in RoomIds, u \in Users, v \in Users :
        /\ IsMember(r, v)
        /\ Start(p, [Idle EXCEPT !.user = u, !.room = r, !.target = v,
                       !.role = members[r][v],
                       !.at = IF u = v THEN "remove" ELSE "removeAuthorize"])
  BY DEF RemoveTarget
<1> DEFINE q == [Idle EXCEPT !.user = u, !.room = r, !.target = v,
                   !.role = members[r][v],
                   !.at = IF u = v THEN "remove" ELSE "removeAuthorize"]
<1>2. members[r][v] \in Roles \cup {None} /\ members[r] # Nobody /\ Live(r)
  BY <1>1 DEF TypeOK, IsMember, Nobody, RoomOK
<1>3. /\ q \in Locals /\ q.user = u /\ q.room = r /\ q.target = v
      /\ q.role = members[r][v]
      /\ q.at = IF u = v THEN "remove" ELSE "removeAuthorize"
  BY <1>2, IdleIsLocals DEF Locals, Stages
<1> HIDE DEF q
<1>4. Moves(p, q) /\ ~ Creating(p)
  BY <1>1, <1>3, StartMoves DEF q
<1>5. request'[p] = q /\ UNCHANGED <<rooms, members, short>>
  BY <1>4, MovesOnly DEF RemoveTarget
<1>6. RequestOK(p)'
  BY <1>1, <1>2, <1>3, <1>5, NoneIsNobody
  DEF RequestOK, HasRoom, HasUsers, MayAct, MayRemoveIt, Live, IsMember
<1>7. QED BY <1>2, <1>3, <1>4, <1>5, <1>6, ReadStep

LEMMA RemoveAuthorizeStep ==
  ASSUME RoomsInv, NEW p \in Requests, RemoveAuthorize(p)
  PROVE  RoomsInv'
<1> USE DEF RoomsInv
<1> DEFINE q == request[p]
<1>1. /\ q.at = "removeAuthorize" /\ ~ Creating(p)
      /\ UNCHANGED <<rooms, members, short>>
  BY DEF RemoveAuthorize, Creating
<1>2. CASE Finish(p)
  BY <1>1, <1>2, FinishStep
<1>3. CASE MayRemove(members[q.room][q.user], q.role) /\ Goto(p, "remove")
  <2>1. q \in Locals /\ q.room # None /\ q.user # None /\ q.target # None
    BY <1>1, RequestTypes DEF RequestOK, HasRoom, HasUsers
  <2>2. request'[p] = [q EXCEPT !.at = "remove"]
    BY <1>3, <2>1, RequestTypes DEF Goto, TypeOK
  <2>3. q.room \in RoomIds /\ q.user \in Users
    BY <2>1 DEF Locals
  <2>4. IsMember(q.room, q.user) /\ members[q.room][q.user] # "member" /\ q.role # "owner"
    BY <1>3 DEF MayRemove, IsMember
  <2>5. IsGroup(q.room)
    <3>1. Live(q.room)
      BY <2>3, <2>4 DEF RoomOK, IsMember, Nobody
    <3>2. QED BY <2>3, <2>4, <3>1, KindIsEither DEF RoomOK
  <2>6. RequestOK(p)
    OBVIOUS
  <2>7. /\ request'[p].at = "remove" /\ request'[p].room = q.room
        /\ request'[p].user = q.user /\ request'[p].target = q.target
        /\ request'[p].role = q.role
    BY <2>1, <2>2 DEF Locals
  <2> HIDE DEF q
  <2>8. RequestOK(p)'
    BY <1>1, <2>4, <2>5, <2>6, <2>7
    DEF q, RequestOK, HasRoom, HasUsers, MayAct, MayRemoveIt, IsGroup, Live
  <2>9. QED BY <1>1, <1>3, <2>8, GoOnStep DEF q
<1>4. QED BY <1>2, <1>3 DEF RemoveAuthorize

LEMMA DeleteAuthorizeStep ==
  ASSUME RoomsInv, NEW p \in Requests, DeleteAuthorize(p)
  PROVE  RoomsInv'
<1> USE DEF RoomsInv
<1>1. PICK r \in RoomIds, u \in Users :
        /\ Live(r) /\ IsMember(r, u)
        /\ Start(p, [Idle EXCEPT !.at = "delete", !.user = u, !.room = r])
  BY DEF DeleteAuthorize
<1> DEFINE q == [Idle EXCEPT !.at = "delete", !.user = u, !.room = r]
<1>2. /\ q \in Locals /\ q.at = "delete" /\ q.user = u /\ q.room = r
  BY IdleIsLocals DEF Locals, Stages
<1> HIDE DEF q
<1>3. Moves(p, q) /\ ~ Creating(p)
  BY <1>1, <1>2, StartMoves DEF q
<1>4. request'[p] = q /\ UNCHANGED <<rooms, members, short>>
  BY <1>3, MovesOnly DEF DeleteAuthorize
<1>5. members[r] # Nobody
  BY <1>1 DEF IsMember, Nobody
<1>6. RequestOK(p)'
  BY <1>1, <1>2, <1>4, NoneIsNobody
  DEF RequestOK, HasRoom, HasUsers, MayAct, MayRemoveIt, Live
<1>7. QED BY <1>2, <1>3, <1>4, <1>5, <1>6, ReadStep

-----------------------------------------------------------------------------
(* The steps that change a room                                            *)

\* The other requests that know a room rely on nothing a change of it can take
\* away, if it leaves the room of its kind and makes nobody its owner ...
LEMMA OthersKeep ==
  ASSUME RoomsInv, NEW x \in Requests, request'[x] = request[x],
         NEW r \in RoomIds, request[x].room = r,
         rooms'[r] \in {rooms[r], Gone},
         \A u \in Users : members'[r][u] = "owner" => members[r][u] = "owner",
         rooms'[r] = rooms[r] \/ ~ Creating(x)
  PROVE  RequestOK(x)'
<1> USE DEF RoomsInv
<1>1. RequestOK(x) /\ request[x] \in Locals /\ rooms[r] # None
  <2>1. RequestOK(x) /\ request[x] \in Locals
    BY RequestTypes
  <2>2. QED BY <2>1, NoneIsNobody DEF RequestOK, HasRoom
<1>2. rooms'[r] # None
  BY <1>1, NoneIsNobody
<1>3. HasRoom(x)' /\ HasUsers(x)'
  BY <1>1, <1>2 DEF RequestOK, HasRoom, HasUsers
<1>4. MayAct(x)'
  <2>1. CASE rooms'[r] = rooms[r]
    BY <1>1, <2>1 DEF RequestOK, MayAct, IsDm, IsGroup, Live
  <2>2. CASE rooms'[r] = Gone /\ ~ Creating(x)
    BY <1>1, <2>2 DEF RequestOK, MayAct, Creating
  <2>3. QED BY <2>1, <2>2
<1>5. MayRemoveIt(x)'
  <2> SUFFICES ASSUME request[x].at \in {"removeAuthorize", "remove"}
               PROVE  MayRemoveIt(x)'
    BY DEF MayRemoveIt
  <2>1. request[x].target \in Users
    BY <1>1 DEF RequestOK, HasUsers, Locals
  <2>2. members'[r][request[x].target] = "owner" => request[x].role = "owner"
    BY <1>1, <2>1 DEF RequestOK, MayRemoveIt
  <2>3. rooms[r] = Gone \/ IsGroup(r) => rooms'[r] = Gone \/ IsGroup(r)'
    BY DEF IsGroup, Live
  <2>4. QED BY <1>1, <2>2, <2>3 DEF RequestOK, MayRemoveIt
<1>6. QED BY <1>3, <1>4, <1>5 DEF RequestOK

LEMMA DmInsertStep ==
  ASSUME RoomsInv, NEW p \in Requests, DmInsert(p)
  PROVE  RoomsInv'
<1> USE DEF RoomsInv
<1> DEFINE u == request[p].user
           v == request[p].target
<1>1. /\ request[p].at = "dmInsert" /\ ~ Creating(p) /\ UNCHANGED <<members, short>>
      /\ RequestOK(p) /\ request[p] \in Locals
  BY RequestTypes DEF DmInsert, Creating
<1>2. u \in Users /\ v \in Users /\ request[p].room = None
  BY <1>1 DEF RequestOK, HasUsers, HasRoom, Locals
<1>3. CASE Goto(p, "dmSelect") /\ UNCHANGED rooms
  <2> DEFINE q == [request[p] EXCEPT !.at = "dmSelect"]
  <2>1. Moves(p, q) /\ q.at = "dmSelect" /\ q.room = None
    BY <1>1, <1>2, <1>3, GotoMoves DEF Locals, Stages
  <2>2. request'[p] = q /\ q.user = u /\ q.target = v
    BY <1>1, <2>1, MovesOnly DEF Locals
  <2> HIDE DEF q
  <2>3. RequestOK(p)'
    BY <1>2, <2>1, <2>2, NoneIsNobody
    DEF RequestOK, HasRoom, HasUsers, MayAct, MayRemoveIt
  <2>4. QED BY <1>1, <1>3, <2>1, <2>3, ReadStep
<1>4. ASSUME NEW r \in RoomIds, rooms[r] = None,
             rooms' = [rooms EXCEPT ![r] = [kind |-> "dm", pair |-> {u, v}]],
             request' = [request EXCEPT ![p].at = "dmMembers", ![p].room = r]
      PROVE  RoomsInv'
  <2> DEFINE q == [request[p] EXCEPT !.at = "dmMembers", !.room = r]
             row == [kind |-> "dm", pair |-> {u, v}]
  <2>1. row \in Room /\ row.kind = "dm" /\ row.pair = {u, v}
    BY <1>2 DEF Room
  <2>2. /\ q \in Locals /\ q.at = "dmMembers" /\ q.room = r
        /\ q.user = u /\ q.target = v
    BY <1>1 DEF Locals, Stages
  <2>3. request' = [request EXCEPT ![p] = q]
    BY <1>4, RequestTypes DEF TypeOK
  <2>4. Moves(p, q)
    BY <2>2, <2>3 DEF Moves
  <2>5. request'[p] = q /\ request' \in [Requests -> Locals]
    BY <2>4, MovesOnly
  <2>6. rooms'[r] = row /\ \A x \in RoomIds \ {r} : rooms'[x] = rooms[x]
    BY <1>4 DEF TypeOK
  <2>7. TypeOK'
    BY <1>1, <1>4, <2>1, <2>5 DEF TypeOK
  <2> HIDE DEF q, row
  <2>8. members[r] = Nobody /\ members' = members
    BY <1>1, <1>4 DEF RoomOK, Live
  <2>9. RoomOK(r)'
    <3>1. p \in Creators(r)'
      BY <2>2, <2>5 DEF Creators, Creating
    <3>2. QED BY <2>1, <2>6, <2>8, <3>1, NoneIsNobody
          DEF RoomOK, Live, IsDm, IsMember, Nobody
  <2>10. \A x \in Requests : request[x].room # r
    BY <1>4, NoneIsNobody DEF RequestOK, HasRoom
  <2>11. RequestOK(p)'
    BY <1>2, <2>1, <2>2, <2>5, <2>6, NoneIsNobody
    DEF RequestOK, HasRoom, HasUsers, MayAct, MayRemoveIt, IsDm, Live
  <2>12. Alone(p)'
    BY <2>2, <2>4, <2>5, <2>8, <2>10, MovesOnly DEF Alone
  <2>13. QED
    BY <1>1, <1>2, <2>2, <2>4, <2>6, <2>7, <2>9, <2>10, <2>11, <2>12, WriteStep
<1>5. QED BY <1>3, <1>4 DEF DmInsert

LEMMA DmMembersStep ==
  ASSUME RoomsInv, NEW p \in Requests, DmMembers(p)
  PROVE  RoomsInv'
<1> USE DEF RoomsInv
<1>1. /\ request[p].at = "dmMembers" /\ Creating(p) /\ UNCHANGED <<rooms, short>>
      /\ RequestOK(p) /\ Alone(p) /\ request[p] \in Locals
  BY RequestTypes DEF DmMembers, Creating
<1>2. PICK r \in RoomIds, u \in Users, v \in Users :
        r = request[p].room /\ u = request[p].user /\ v = request[p].target
  BY <1>1 DEF RequestOK, HasUsers, HasRoom, Locals
<1> DEFINE q == [request[p] EXCEPT !.at = "dmAnswer", !.room = r]
<1>3. IsDm(r) /\ rooms[r].pair = {u, v} /\ Live(r)
  BY <1>1, <1>2 DEF RequestOK, MayAct, IsDm
<1>4. members' = [members EXCEPT ![r] = DmRoles(u, v)] /\ request' = [request EXCEPT ![p] = q]
  BY <1>1, <1>2, RequestTypes DEF DmMembers, DmAnswer, TypeOK
<1>5. /\ q \in Locals /\ q.at = "dmAnswer" /\ q.room = r
      /\ q.user = u /\ q.target = v
  BY <1>1, <1>2 DEF Locals, Stages
<1>6. Moves(p, q)
  BY <1>4, <1>5 DEF Moves
<1>7. request'[p] = q /\ request' \in [Requests -> Locals]
  BY <1>6, MovesOnly
<1>8. /\ members'[r] = DmRoles(u, v) /\ rooms'[r] = rooms[r]
      /\ \A x \in RoomIds \ {r} : members'[x] = members[x]
  BY <1>1, <1>2, <1>4 DEF TypeOK
<1>9. TypeOK'
  <2>1. DmRoles(u, v) \in [Users -> Roles \cup {None}]
    BY DEF DmRoles, Roles
  <2>2. QED BY <1>1, <1>4, <1>7, <2>1 DEF TypeOK
<1> HIDE DEF q
<1>10. RoomOK(r)'
  <2>1. \A x \in Users : members'[r][x] = IF x \in {u, v} THEN "member" ELSE None
    BY <1>8 DEF DmRoles
  <2>2. rooms'[r].kind = "dm"
    BY <1>3, <1>8 DEF IsDm
  <2>3. QED BY <1>2, <1>3, <1>8, <2>1, <2>2, NoneIsNobody
        DEF RoomOK, IsDm, IsGroup, IsMember, Live, Roles
<1>11. RequestOK(p)'
  BY <1>2, <1>3, <1>5, <1>7, <1>8, NoneIsNobody
  DEF RequestOK, HasRoom, HasUsers, MayAct, MayRemoveIt, IsDm, Live
<1>12. Alone(p)'
  BY <1>5, <1>7 DEF Alone, Creating
<1>13. ASSUME NEW x \in Requests \ {p}, request[x].room = r
       PROVE  RequestOK(x)' /\ Alone(x)'
  <2>1. request'[x] = request[x] /\ request[x].at = "dmAnswer"
    BY <1>1, <1>2, <1>6, <1>13, MovesOnly DEF Alone
  <2>2. Alone(x)'
    BY <2>1 DEF Alone, Creating
  <2>3. \A y \in Users : members'[r][y] # "owner"
    BY <1>8, NoneIsNobody DEF DmRoles, Roles
  <2>4. RequestOK(x)'
    BY <1>2, <1>8, <1>13, <2>1, <2>3, OthersKeep
  <2>5. QED BY <2>2, <2>4
<1>14. QED
  BY <1>1, <1>2, <1>5, <1>6, <1>8, <1>9, <1>10, <1>11, <1>12, <1>13, WriteStep

LEMMA GroupInsertStep ==
  ASSUME RoomsInv, NEW p \in Requests, GroupInsert(p)
  PROVE  RoomsInv'
<1> USE DEF RoomsInv
<1>1. PICK r \in RoomIds, u \in Users, others \in SUBSET Users :
        /\ rooms[r] = None
        /\ rooms' = [rooms EXCEPT ![r] = [kind |-> "group", pair |-> {}]]
        /\ Start(p, [Idle EXCEPT !.at = "owner", !.user = u, !.room = r, !.todo = others])
  BY DEF GroupInsert
<1> DEFINE q == [Idle EXCEPT !.at = "owner", !.user = u, !.room = r, !.todo = others]
           row == [kind |-> "group", pair |-> {}]
<1>2. /\ q \in Locals /\ q.at = "owner" /\ q.user = u /\ q.room = r
  BY IdleIsLocals DEF Locals, Stages
<1>3. row \in Room /\ row.kind = "group"
  BY DEF Room
<1> HIDE DEF q
<1>4. Moves(p, q) /\ request[p] = Idle
  BY <1>1, <1>2, StartMoves DEF q
<1>5. request'[p] = q /\ request' \in [Requests -> Locals] /\ UNCHANGED <<members, short>>
  BY <1>4, MovesOnly DEF GroupInsert
<1>6. rooms'[r] = row /\ \A x \in RoomIds \ {r} : rooms'[x] = rooms[x]
  BY <1>1 DEF TypeOK
<1>7. TypeOK'
  BY <1>1, <1>3, <1>5 DEF TypeOK
<1> HIDE DEF row
<1>8. members[r] = Nobody
  BY <1>1 DEF RoomOK, Live
<1>9. IsGroup(r)' /\ ~ IsDm(r)'
  BY <1>3, <1>6, NoneIsNobody DEF IsGroup, IsDm, Live
<1>10. RoomOK(r)'
  <2>1. p \in Creators(r)'
    BY <1>2, <1>5 DEF Creators, Creating
  <2>2. QED BY <1>9, <2>1 DEF RoomOK, IsGroup
<1>11. \A x \in Requests : request[x].room # r
  BY <1>1, NoneIsNobody DEF RequestOK, HasRoom
<1>12. RequestOK(p)'
  BY <1>2, <1>3, <1>5, <1>6, NoneIsNobody
  DEF RequestOK, HasRoom, HasUsers, MayAct, MayRemoveIt, IsGroup, Live
<1>13. Alone(p)'
  BY <1>2, <1>4, <1>5, <1>8, <1>11, MovesOnly DEF Alone
<1>14. request[p].room = None
  BY <1>4 DEF Idle
<1>15. QED
  BY <1>2, <1>4, <1>5, <1>6, <1>7, <1>10, <1>11, <1>12, <1>13, <1>14, WriteStep

\* Somebody enters a live group: nobody who was in it goes, and a new owner is its
\* creator.
LEMMA EnterGroup ==
  ASSUME RoomsInv, NEW p \in Requests, NEW q, Moves(p, q),
         NEW r \in RoomIds, request[p].room = r, q.room \in {r, None},
         NEW u \in Users, NEW role \in Roles, Enter(r, u, role), IsGroup(r),
         role = "owner" => Creating(p),
         Creating(p) => role = "owner",
         ~ Creating(p) => ~ IsMember(r, u),
         q.at \notin {"dmMembers", "owner"}, RequestOK(p)', UNCHANGED <<rooms, short>>
  PROVE  RoomsInv'
<1> USE DEF RoomsInv
<1>1. /\ request'[p] = q /\ request' \in [Requests -> Locals]
      /\ \A x \in Requests \ {p} : request'[x] = request[x]
  BY MovesOnly
<1>2. /\ members'[r] = [members[r] EXCEPT ![u] = role]
      /\ \A x \in RoomIds \ {r} : members'[x] = members[x]
      /\ members[r] \in [Users -> Roles \cup {None}]
  BY DEF Enter, TypeOK
<1>3. members'[r][u] = role /\ \A x \in Users \ {u} : members'[r][x] = members[r][x]
  BY <1>2
<1>4. TypeOK'
  BY <1>1, <1>2 DEF TypeOK, Enter
<1>5. Creating(p) => Creators(r) = {p}
  BY NoneIsNobody DEF Alone, Creators, Creating
<1>6. p \notin Creators(r)'
  BY <1>1 DEF Creators, Creating
<1>7. RoomOK(r)'
  <2>1. RoomOK(r) /\ ~ IsDm(r)
    BY KindIsEither DEF IsGroup
  <2>2. CASE Creating(p)
    BY <1>3, <2>1, <2>2 DEF RoomOK, IsDm, IsGroup, Live
  <2>3. CASE ~ Creating(p)
    <3>1. Creators(r)' = Creators(r)
      BY <1>1, <2>3 DEF Creators, Creating
    <3>2. \A x \in Users : members[r][x] = "owner" => members'[r][x] = "owner"
      BY <1>3, <2>3, NoneIsNobody DEF IsMember, Roles
    <3>3. QED BY <2>1, <3>1, <3>2 DEF RoomOK, IsDm, IsGroup, Live
  <2>4. QED BY <2>2, <2>3
<1>8. Alone(p)'
  BY <1>1 DEF Alone, Creating
<1>9. ASSUME NEW x \in Requests \ {p}, request[x].room = r
      PROVE  RequestOK(x)' /\ Alone(x)'
  <2>1. request'[x] = request[x]
    BY <1>1
  <2>2. CASE Creating(p)
    \* x would be at its answer, but a group is no answer
    <3>1. request[x].at = "dmAnswer"
      BY <1>9, <2>2 DEF Alone
    <3>2. FALSE
      BY <1>9, <3>1, NoneIsNobody DEF RequestOK, MayAct, IsGroup, IsDm, Live
    <3>3. QED BY <3>2
  <2>3. CASE ~ Creating(p)
    <3>1. \A y \in Users : members'[r][y] = "owner" => members[r][y] = "owner"
      BY <1>3, <2>3
    <3>2. RequestOK(x)'
      BY <1>9, <2>1, <3>1, OthersKeep
    <3>3. ~ Creating(x)
      <4>1. request[p].at # "dmAnswer"
        BY NoneIsNobody DEF RequestOK, MayAct, IsGroup, IsDm, Live
      <4>2. QED BY <1>9, <4>1 DEF Alone
    <3>4. QED BY <2>1, <3>2, <3>3 DEF Alone, Creating
  <2>4. QED BY <2>2, <2>3
<1>10. QED BY <1>2, <1>4, <1>7, <1>8, <1>9, WriteStep

LEMMA GroupOwnerStep ==
  ASSUME RoomsInv, NEW p \in Requests, GroupOwner(p)
  PROVE  RoomsInv'
<1> USE DEF RoomsInv
<1>1. /\ request[p].at = "owner" /\ Creating(p) /\ UNCHANGED <<rooms, short>>
      /\ RequestOK(p) /\ request[p] \in Locals
  BY RequestTypes DEF GroupOwner, Creating
<1>2. PICK r \in RoomIds, u \in Users : r = request[p].room /\ u = request[p].user
  BY <1>1 DEF RequestOK, HasUsers, HasRoom, Locals
<1>3. IsGroup(r) /\ Enter(r, u, "owner") /\ "owner" \in Roles
  BY <1>1, <1>2 DEF RequestOK, MayAct, GroupOwner, CreatorRole, Roles
<1>4. CASE Finish(p)
  <2>1. Moves(p, Idle) /\ request'[p] = Idle /\ Idle.room = None /\ Idle.at = "idle"
    BY <1>4, FinishMoves, MovesOnly DEF Idle
  <2>2. RequestOK(p)'
    BY <2>1, IdleIsOK
  <2>3. QED BY <1>1, <1>2, <1>3, <2>1, <2>2, EnterGroup
<1>5. CASE Goto(p, "groupMembers")
  <2> DEFINE q == [request[p] EXCEPT !.at = "groupMembers"]
  <2>1. Moves(p, q) /\ q.at = "groupMembers" /\ q.room = r /\ q.user = u
    BY <1>1, <1>2, <1>5, GotoMoves DEF Locals, Stages
  <2> HIDE DEF q
  <2>2. request'[p] = q
    BY <2>1, MovesOnly
  <2>3. RequestOK(p)'
    BY <1>1, <1>2, <1>3, <2>1, <2>2, NoneIsNobody
    DEF RequestOK, HasRoom, HasUsers, MayAct, MayRemoveIt, IsGroup, Live
  <2>4. QED BY <1>1, <1>2, <1>3, <2>1, <2>3, EnterGroup
<1>6. QED BY <1>4, <1>5 DEF GroupOwner

LEMMA GroupMemberStep ==
  ASSUME RoomsInv, NEW p \in Requests, GroupMember(p)
  PROVE  RoomsInv'
<1> USE DEF RoomsInv
<1>1. /\ request[p].at = "groupMembers" /\ ~ Creating(p) /\ UNCHANGED <<rooms, short>>
      /\ RequestOK(p) /\ request[p] \in Locals
  BY RequestTypes DEF GroupMember, Creating
<1>2. PICK r \in RoomIds : r = request[p].room
  BY <1>1 DEF RequestOK, HasRoom, Locals
<1>3. CASE Finish(p) /\ UNCHANGED members
  BY <1>1, <1>3, FinishStep
<1>4. ASSUME NEW u \in request[p].todo, MayEnter(r, u), Enter(r, u, "member"),
             \/ Finish(p)
             \/ request' = [request EXCEPT ![p].todo = request[p].todo \ {u}]
      PROVE  RoomsInv'
  <2>1. u \in Users /\ "member" \in Roles
    BY <1>1 DEF Locals, Roles
  <2>2. IsGroup(r) /\ ~ IsMember(r, u)
    BY <1>1, <1>2, <1>4 DEF MayEnter, RequestOK, MayAct, Live
  <2>3. CASE Finish(p)
    <3>1. Moves(p, Idle) /\ request'[p] = Idle /\ Idle.room = None /\ Idle.at = "idle"
      BY <2>3, FinishMoves, MovesOnly DEF Idle
    <3>2. RequestOK(p)'
      BY <3>1, IdleIsOK
    <3>3. QED BY <1>1, <1>2, <1>4, <2>1, <2>2, <3>1, <3>2, EnterGroup
  <2>4. CASE request' = [request EXCEPT ![p].todo = request[p].todo \ {u}]
    <3> DEFINE q == [request[p] EXCEPT !.todo = request[p].todo \ {u}]
    <3>1. /\ q \in Locals /\ q.at = "groupMembers" /\ q.room = r
          /\ q.user = request[p].user
      BY <1>1, <1>2 DEF Locals
    <3>2. Moves(p, q)
      BY <2>4, <3>1 DEF Moves
    <3> HIDE DEF q
    <3>3. request'[p] = q
      BY <3>2, MovesOnly
    <3>4. RequestOK(p)'
      BY <1>1, <1>2, <2>2, <3>1, <3>3, NoneIsNobody
      DEF RequestOK, HasRoom, HasUsers, MayAct, MayRemoveIt, IsGroup, Live
    <3>5. QED BY <1>1, <1>2, <1>4, <2>1, <2>2, <3>1, <3>2, <3>4, EnterGroup
  <2>5. QED BY <1>4, <2>3, <2>4
<1>5. QED BY <1>2, <1>3, <1>4 DEF GroupMember

LEMMA AddInsertStep ==
  ASSUME RoomsInv, NEW p \in Requests, AddInsert(p)
  PROVE  RoomsInv'
<1> USE DEF RoomsInv
<1>1. /\ request[p].at = "addInsert" /\ ~ Creating(p) /\ UNCHANGED <<rooms, short>>
      /\ RequestOK(p) /\ request[p] \in Locals /\ Finish(p)
  BY RequestTypes DEF AddInsert, Creating
<1>2. PICK r \in RoomIds, u \in Users : r = request[p].room /\ u = request[p].target
  BY <1>1 DEF RequestOK, HasRoom, HasUsers, Locals
<1>3. CASE UNCHANGED members
  BY <1>1, <1>3, FinishStep
<1>4. CASE MayEnter(r, u) /\ Enter(r, u, request[p].role)
  <2>1. /\ request[p].role \in Roles /\ request[p].role # "owner"
        /\ IsGroup(r) /\ ~ IsMember(r, u)
    BY <1>1, <1>2, <1>4 DEF MayEnter, RequestOK, MayAct, Live, Roles
  <2>2. Moves(p, Idle) /\ request'[p] = Idle /\ Idle.room = None /\ Idle.at = "idle"
    BY <1>1, FinishMoves, MovesOnly DEF Idle
  <2>3. RequestOK(p)'
    BY <2>2, IdleIsOK
  <2>4. QED BY <1>1, <1>2, <1>4, <2>1, <2>2, <2>3, EnterGroup
<1>5. QED BY <1>2, <1>3, <1>4 DEF AddInsert

\* A removal of somebody else is of a group's member who is not its owner: whoever
\* is to be removed from a direct room, or is an owner, asked for it.
LEMMA RemoveStep ==
  ASSUME RoomsInv, NEW p \in Requests, Remove(p)
  PROVE  RoomsInv'
<1> USE DEF RoomsInv
<1>1. /\ request[p].at = "remove" /\ ~ Creating(p) /\ UNCHANGED rooms
      /\ RequestOK(p) /\ request[p] \in Locals /\ Finish(p)
  BY RequestTypes DEF Remove, Creating
<1>2. PICK r \in RoomIds, u \in Users, v \in Users :
        r = request[p].room /\ u = request[p].user /\ v = request[p].target
  BY <1>1 DEF RequestOK, HasRoom, HasUsers, Locals
<1>3. /\ Enter(r, v, None)
      /\ short' = short \cup {x \in {r} : u = v}
  BY <1>2 DEF Remove
<1>4. /\ Moves(p, Idle) /\ request'[p] = Idle /\ Idle.room = None /\ Idle.at = "idle"
      /\ request' \in [Requests -> Locals]
      /\ \A x \in Requests \ {p} : request'[x] = request[x]
  BY <1>1, FinishMoves, MovesOnly DEF Idle
<1>5. /\ members'[r] = [members[r] EXCEPT ![v] = None]
      /\ \A x \in RoomIds \ {r} : members'[x] = members[x]
      /\ members[r] \in [Users -> Roles \cup {None}]
  BY <1>3 DEF Enter, TypeOK
<1>6. members'[r][v] = None /\ \A x \in Users \ {v} : members'[r][x] = members[r][x]
  BY <1>5
<1>7. TypeOK'
  BY <1>1, <1>3, <1>4, <1>5 DEF TypeOK, Enter
<1>8. RequestOK(p)' /\ Alone(p)'
  BY <1>4, IdleIsOK
<1>9. Creators(r)' = Creators(r)
  BY <1>1, <1>4 DEF Creators, Creating
<1>10. RoomOK(r)'
  <2>1. RoomOK(r)
    OBVIOUS
  <2>2. ~ Live(r) => members'[r] = Nobody
    BY <1>5, <2>1 DEF RoomOK, Nobody
  <2>3. \A x \in Users : members'[r][x] # None => members'[r][x] = members[r][x]
    BY <1>6
  <2>4. CASE u = v
    <3>1. r \in short'
      BY <1>3, <2>4
    <3>2. QED BY <1>1, <2>1, <2>2, <2>3, <3>1 DEF RoomOK, IsDm, Live, IsMember
  <2>5. CASE u # v
    <3>1. request[p].role # "owner" /\ (rooms[r] = Gone \/ IsGroup(r))
          /\ members[r][v] # "owner"
      BY <1>1, <1>2, <2>5 DEF RequestOK, MayRemoveIt
    <3>2. ~ IsDm(r)
      BY <3>1, KindIsEither DEF IsGroup, Live, IsDm
    <3>3. r \in short' <=> r \in short
      BY <1>3, <2>5
    <3>4. \A x \in Users : members[r][x] = "owner" => members'[r][x] = "owner"
      BY <1>6, <3>1
    <3>5. QED BY <1>1, <1>9, <2>1, <2>2, <3>2, <3>3, <3>4
          DEF RoomOK, IsDm, IsGroup, Live
  <2>6. QED BY <2>4, <2>5
<1>11. ASSUME NEW x \in Requests \ {p}, request[x].room = r
       PROVE  RequestOK(x)' /\ Alone(x)'
  <2>1. \A y \in Users : members'[r][y] = "owner" => members[r][y] = "owner"
    BY <1>6, NoneIsNobody DEF Roles
  <2>2. RequestOK(x)'
    BY <1>1, <1>4, <1>11, <2>1, OthersKeep
  <2>3. ~ Creating(x)
    BY <1>1, <1>2, <1>11 DEF Alone
  <2>4. QED BY <1>4, <2>2, <2>3 DEF Alone, Creating
<1>12. \A x \in RoomIds \ {r} : x \in short' <=> x \in short
  BY <1>3
<1>13. QED
  BY <1>1, <1>2, <1>4, <1>5, <1>7, <1>8, <1>10, <1>11, <1>12, WriteStep

LEMMA DeleteRoomStep ==
  ASSUME RoomsInv, NEW p \in Requests, DeleteRoom(p)
  PROVE  RoomsInv'
<1> USE DEF RoomsInv
<1>1. /\ request[p].at = "delete" /\ ~ Creating(p) /\ UNCHANGED short
      /\ RequestOK(p) /\ request[p] \in Locals /\ Finish(p)
  BY RequestTypes DEF DeleteRoom, Creating
<1>2. PICK r \in RoomIds : r = request[p].room
  BY <1>1 DEF RequestOK, HasRoom, Locals
<1>3. /\ rooms' = [rooms EXCEPT ![r] = Gone]
      /\ members' = [members EXCEPT ![r] = Nobody]
  BY <1>2 DEF DeleteRoom
<1>4. /\ Moves(p, Idle) /\ request'[p] = Idle /\ Idle.room = None /\ Idle.at = "idle"
      /\ request' \in [Requests -> Locals]
      /\ \A x \in Requests \ {p} : request'[x] = request[x]
  BY <1>1, FinishMoves, MovesOnly DEF Idle
<1>5. /\ rooms'[r] = Gone /\ members'[r] = Nobody
      /\ \A x \in RoomIds \ {r} : rooms'[x] = rooms[x] /\ members'[x] = members[x]
  BY <1>3 DEF TypeOK
<1>6. TypeOK'
  BY <1>1, <1>3, <1>4 DEF TypeOK, Nobody
<1>7. RequestOK(p)' /\ Alone(p)'
  BY <1>4, IdleIsOK
<1>8. RoomOK(r)'
  BY <1>5 DEF RoomOK, IsDm, Live
<1>9. ASSUME NEW x \in Requests \ {p}, request[x].room = r
      PROVE  RequestOK(x)' /\ Alone(x)'
  <2>1. ~ Creating(x)
    BY <1>1, <1>2, <1>9 DEF Alone
  <2>2. \A y \in Users : members'[r][y] # "owner"
    BY <1>5, NoneIsNobody DEF Nobody, Roles
  <2>3. RequestOK(x)'
    BY <1>4, <1>5, <1>9, <2>1, <2>2, OthersKeep
  <2>4. QED BY <1>4, <2>1, <2>3 DEF Alone, Creating
<1>10. QED BY <1>1, <1>2, <1>4, <1>5, <1>6, <1>7, <1>8, <1>9, WriteStep

\* A crash in a creation leaves a room that is short, so nothing is promised of it.
LEMMA CrashStep ==
  ASSUME RoomsInv, NEW p \in Requests, Crash(p)
  PROVE  RoomsInv'
<1> USE DEF RoomsInv
<1>1. /\ Finish(p) /\ UNCHANGED <<rooms, members>>
      /\ short' = short \cup {r \in {request[p].room} : Creating(p)}
      /\ RequestOK(p) /\ request[p] \in Locals
  BY RequestTypes DEF Crash, Creating
<1>2. CASE ~ Creating(p)
  <2>1. short' = short
    BY <1>1, <1>2
  <2>2. QED BY <1>1, <1>2, <2>1, FinishStep
<1>3. CASE Creating(p)
  <2>1. PICK r \in RoomIds : r = request[p].room
    BY <1>1, <1>3 DEF RequestOK, HasRoom, Locals, Creating
  <2>2. /\ Moves(p, Idle) /\ request'[p] = Idle /\ Idle.room = None /\ Idle.at = "idle"
        /\ request' \in [Requests -> Locals]
        /\ \A x \in Requests \ {p} : request'[x] = request[x]
    BY <1>1, FinishMoves, MovesOnly DEF Idle
  <2>3. short' = short \cup {r}
    BY <1>1, <1>3, <2>1
  <2>4. TypeOK'
    BY <1>1, <2>2, <2>3 DEF TypeOK
  <2>5. RequestOK(p)' /\ Alone(p)'
    BY <2>2, IdleIsOK
  <2>6. RoomOK(r)'
    BY <1>1, <2>3 DEF RoomOK, IsDm, Live, IsMember
  <2>7. ASSUME NEW x \in Requests \ {p}, request[x].room = r
        PROVE  RequestOK(x)' /\ Alone(x)'
    <3>1. request[x].at = "dmAnswer"
      BY <1>3, <2>1, <2>7 DEF Alone
    <3>2. RequestOK(x)'
      BY <1>1, <2>2, <2>7, OthersKeep
    <3>3. QED BY <2>2, <3>1, <3>2 DEF Alone, Creating
  <2>8. QED
    BY <1>1, <2>1, <2>2, <2>3, <2>4, <2>5, <2>6, <2>7, WriteStep
<1>4. QED BY <1>2, <1>3

LEMMA DmDoneStep ==
  ASSUME RoomsInv, NEW p \in Requests, DmDone(p)
  PROVE  RoomsInv'
BY FinishStep DEF DmDone, Creating

LEMMA NextRooms ==
  ASSUME RoomsInv, [Next]_vars
  PROVE  RoomsInv'
<1>1. CASE UNCHANGED vars
  BY <1>1 DEF vars, RoomsInv, TypeOK, RoomOK, RequestOK, HasRoom, HasUsers, MayAct,
              MayRemoveIt, Alone, Creators, Creating, IsDm, IsGroup, Live, IsMember
<1>2. ASSUME NEW p \in Requests,
             \/ CreateDirectRoom(p) \/ CreateGroupRoom(p) \/ AddMember(p) \/ RemoveMember(p)
             \/ DeleteAuthorize(p) \/ DeleteRoom(p) \/ Crash(p)
      PROVE  RoomsInv'
  BY <1>2, DmFindStep, DmInsertStep, DmSelectStep, DmMembersStep, DmDoneStep,
     GroupInsertStep, GroupOwnerStep, GroupMemberStep, AddAuthorizeStep, AddCheckStep,
     AddInsertStep, RemoveTargetStep, RemoveAuthorizeStep, RemoveStep,
     DeleteAuthorizeStep, DeleteRoomStep, CrashStep
  DEF CreateDirectRoom, CreateGroupRoom, AddMember, RemoveMember
<1>3. QED BY <1>1, <1>2 DEF Next

LEMMA RoomsInvariant == Spec => []RoomsInv
BY InitRooms, NextRooms, PTL DEF Spec

-----------------------------------------------------------------------------
(* What follows                                                            *)

\* Whatever requests do, the tables and the requests are well formed.
THEOREM RoomTypes == Spec => []TypeOK
<1>1. RoomsInv => TypeOK
  BY DEF RoomsInv
<1>2. QED BY <1>1, RoomsInvariant, PTL

\* Nobody but its two users ever is in a direct room (create-direct-room.ts,
\* room-authorizer.ts), for any number of users and requests.
THEOREM DirectRoomsStayPrivate == Spec => []DmIsPrivate
<1>1. RoomsInv => DmIsPrivate
  BY DEF RoomsInv, RoomOK, DmIsPrivate, IsDm
<1>2. QED BY <1>1, RoomsInvariant, PTL

\* Rooms whose creation has not crashed, and that nobody has left, are whole
\* (pg-room-repository.ts, createDm and createGroup).
THEOREM RoomsAreWhole == Spec => []CreatedRoomsAreWhole
<1>1. RoomsInv => CreatedRoomsAreWhole
  <2> SUFFICES ASSUME RoomsInv, NEW r \in RoomIds, Live(r), r \notin short,
                      \A p \in Requests :
                        request[p].at \in {"dmMembers", "owner"} => request[p].room # r
               PROVE  IF rooms[r].kind = "dm"
                      THEN \A u \in rooms[r].pair : IsMember(r, u)
                      ELSE \E u \in Users : members[r][u] = "owner"
    BY DEF CreatedRoomsAreWhole
  <2>1. Creators(r) = {}
    BY DEF Creators, Creating
  <2>2. QED BY <2>1, KindIsEither DEF RoomsInv, RoomOK, IsDm, IsGroup
<1>2. QED BY <1>1, RoomsInvariant, PTL

\* Whoever gets a direct room as an answer is in it, but for departures, deletion and
\* the moment between the two statements of its creation (create-direct-room.ts).
THEOREM AnsweredRoomsAreUsable == Spec => []CreatedDmIsUsable
<1>1. RoomsInv => CreatedDmIsUsable
  <2> SUFFICES ASSUME RoomsInv, NEW p \in Requests, request[p].at = "dmAnswer",
                      rooms[request[p].room] # Gone, request[p].room \notin short,
                      \A q \in Requests :
                        request[q].at = "dmMembers" => request[q].room # request[p].room
               PROVE  IsMember(request[p].room, request[p].user)
    BY DEF CreatedDmIsUsable
  <2> USE DEF RoomsInv
  <2>1. RequestOK(p) /\ request[p] \in Locals
    BY RequestTypes
  <2>2. PICK r \in RoomIds : r = request[p].room
    BY <2>1 DEF RequestOK, HasRoom, Locals
  <2>3. IsDm(r) /\ request[p].user \in rooms[r].pair /\ Live(r)
    BY <2>1, <2>2 DEF RequestOK, MayAct, IsDm
  <2>4. Creators(r) = {}
    <3>1. ASSUME NEW q \in Creators(r) PROVE FALSE
      <4>1. request[q].at = "owner" /\ request[q].room = r /\ RequestOK(q)
        BY <2>2, <3>1 DEF Creators, Creating
      <4>2. IsGroup(r)
        BY <4>1 DEF RequestOK, MayAct
      <4>3. QED BY <2>3, <4>2, KindIsEither
    <3>2. QED BY <3>1
  <2>5. QED BY <2>2, <2>3, <2>4 DEF RoomOK
<1>2. QED BY <1>1, RoomsInvariant, PTL

\* No other step takes a member out of a room, or changes his role.
Keeping(p) ==
  \/ CreateDirectRoom(p) \/ CreateGroupRoom(p) \/ AddMember(p)
  \/ RemoveTarget(p) \/ RemoveAuthorize(p) \/ DeleteAuthorize(p) \/ Crash(p)

LEMMA MembersKept ==
  ASSUME RoomsInv, NEW p \in Requests, Keeping(p),
         NEW r \in RoomIds, NEW u \in Users, IsMember(r, u)
  PROVE  members'[r][u] = members[r][u]
<1> USE DEF RoomsInv
<1>1. CASE UNCHANGED members
  BY <1>1
<1>2. CASE DmMembers(p)
  <2>1. members[request[p].room] = Nobody
    BY <1>2 DEF Alone, Creating, DmMembers
  <2>2. request[p].room # r
    BY <2>1 DEF IsMember, Nobody
  <2>3. QED BY <1>2, <2>2 DEF DmMembers, TypeOK
<1>3. ASSUME NEW x, NEW v, NEW role, Enter(x, v, role), x # r \/ v # u
      PROVE  members'[r][u] = members[r][u]
  BY <1>3 DEF Enter, TypeOK
<1>4. CASE GroupOwner(p)
  <2>1. members[request[p].room] = Nobody
    BY <1>4 DEF Alone, Creating, GroupOwner
  <2>2. request[p].room # r
    BY <2>1 DEF IsMember, Nobody
  <2>3. QED BY <1>3, <1>4, <2>2 DEF GroupOwner
<1>5. CASE GroupMember(p)
  BY <1>3, <1>5 DEF GroupMember, MayEnter
<1>6. CASE AddInsert(p)
  BY <1>3, <1>6 DEF AddInsert, MayEnter
<1>7. QED
  BY <1>1, <1>2, <1>4, <1>5, <1>6
  DEF Keeping, CreateDirectRoom, CreateGroupRoom, AddMember, DmFind, DmInsert, DmSelect,
      DmDone, GroupInsert, AddAuthorize, AddCheck, RemoveTarget, RemoveAuthorize,
      DeleteAuthorize, Crash

\* A member goes by a removal, or with the room.
LEMMA MembersLost ==
  ASSUME RoomsInv, NEW p \in Requests, NEW r \in RoomIds, NEW u \in Users,
         members'[r][u] # members[r][u]
  PROVE  /\ Remove(p) => request[p].room = r /\ request[p].target = u
         /\ DeleteRoom(p) => request[p].room = r
<1>1. ASSUME Remove(p) PROVE request[p].room = r /\ request[p].target = u
  BY <1>1 DEF Remove, Enter, RoomsInv, TypeOK
<1>2. ASSUME DeleteRoom(p) PROVE request[p].room = r
  BY <1>2 DEF DeleteRoom, RoomsInv, TypeOK
<1>3. QED BY <1>1, <1>2

\* An owner goes by leaving or with the room: the role remove-member.ts has read may
\* be old, but nobody becomes an owner after the creation of the room.
THEOREM OwnersStay == Spec => OwnersOnlyLeave
<1> DEFINE Step ==
      \A r \in RoomIds, u \in Users :
        members[r][u] = "owner" /\ members'[r][u] # "owner" =>
          \/ rooms'[r] = Gone
          \/ \E p \in Requests : request[p].at = "remove" /\ request[p].room = r
                                 /\ request[p].user = u /\ request[p].target = u
<1>1. RoomsInv /\ [Next]_vars => [Step]_vars
  <2> SUFFICES ASSUME RoomsInv, [Next]_vars, NEW r \in RoomIds, NEW u \in Users,
                      members[r][u] = "owner", members'[r][u] # "owner"
               PROVE  \/ rooms'[r] = Gone
                      \/ \E p \in Requests : request[p].at = "remove" /\ request[p].room = r
                                             /\ request[p].user = u /\ request[p].target = u
    OBVIOUS
  <2>1. IsMember(r, u)
    BY NoneIsNobody DEF IsMember, Roles
  <2>2. \/ \E p \in Requests : Remove(p) /\ request[p].room = r /\ request[p].target = u
        \/ \E p \in Requests : DeleteRoom(p) /\ request[p].room = r
    <3>1. PICK p \in Requests : Keeping(p) \/ Remove(p) \/ DeleteRoom(p)
      BY DEF Next, vars, Keeping, RemoveMember
    <3>2. QED BY <2>1, <3>1, MembersKept, MembersLost
  <2>3. ASSUME NEW p \in Requests, Remove(p), request[p].room = r, request[p].target = u
        PROVE  request[p].at = "remove" /\ request[p].user = u
    BY <2>3 DEF Remove, RoomsInv, RequestOK, MayRemoveIt
  <2>4. ASSUME NEW p \in Requests, DeleteRoom(p), request[p].room = r
        PROVE  rooms'[r] = Gone
    BY <2>4 DEF DeleteRoom, RoomsInv, TypeOK
  <2>5. QED BY <2>2, <2>3, <2>4
<1> HIDE DEF Step
<1>2. Spec => [][Step]_vars
  BY <1>1, RoomsInvariant, PTL DEF Spec
<1>3. QED BY <1>2 DEF OwnersOnlyLeave, Step

-----------------------------------------------------------------------------
(* Rooms with a feed (RoomListeners)                                       *)

\* The feed does not touch the rooms, so everything above holds of the two together.
LEMMA ListenersDoRooms == ListenersSpec => Spec
<1>1. ListenersInit => Init
  BY DEF ListenersInit
<1>2. [ListenersNext]_allVars => [Next]_vars
  <2> SUFFICES ASSUME [ListenersNext]_allVars PROVE [Next]_vars
    OBVIOUS
  <2>1. CASE UNCHANGED allVars
    BY <2>1 DEF allVars, vars
  <2>2. ASSUME NEW p \in Requests, RoomStep(p) PROVE Next
    BY <2>2 DEF RoomStep, Next, RemoveMember
  <2>3. ASSUME NEW u \in Users, NEW r \in RoomIds, ChatSubscribe(u, r) PROVE UNCHANGED vars
    BY <2>3 DEF ChatSubscribe
  <2>4. CASE Reach
    BY <2>4 DEF Reach
  <2>5. ASSUME NEW u \in Users, NEW rs \in SUBSET RoomIds, LeaveFeed(u, rs)
        PROVE  UNCHANGED vars
    BY <2>5 DEF LeaveFeed
  <2>6. QED BY <2>1, <2>2, <2>3, <2>4, <2>5 DEF ListenersNext
<1>3. QED BY <1>1, <1>2, PTL DEF ListenersSpec, Spec

\* Who has asked was a member then, so of a direct room only its users have.
AskedByMembers ==
  /\ asked \in SUBSET (Users \X RoomIds) /\ hearing \subseteq asked
  /\ \A u \in Users, r \in RoomIds : <<u, r>> \in asked =>
       /\ rooms[r] # None
       /\ IsMember(r, u) \/ <<u, r>> \in departed
       /\ IsDm(r) => u \in rooms[r].pair

\* The rooms that are there stay what they are until they are deleted.
LEMMA RoomsKept ==
  ASSUME RoomsInv, [Next]_vars, NEW r \in RoomIds, rooms[r] # None
  PROVE  rooms'[r] \in {rooms[r], Gone}
<1>1. CASE UNCHANGED rooms
  BY <1>1
<1>2. ASSUME NEW p \in Requests, DmInsert(p) PROVE rooms'[r] = rooms[r]
  BY <1>2 DEF DmInsert, RoomsInv, TypeOK
<1>3. ASSUME NEW p \in Requests, GroupInsert(p) PROVE rooms'[r] = rooms[r]
  BY <1>3 DEF GroupInsert, RoomsInv, TypeOK
<1>4. ASSUME NEW p \in Requests, DeleteRoom(p) PROVE rooms'[r] \in {rooms[r], Gone}
  BY <1>4 DEF DeleteRoom, RoomsInv, TypeOK
<1>5. QED
  BY <1>1, <1>2, <1>3, <1>4
  DEF Next, vars, CreateDirectRoom, CreateGroupRoom, AddMember, RemoveMember, DmFind,
      DmMembers, DmSelect, DmDone, GroupOwner, GroupMember, AddAuthorize, AddCheck,
      AddInsert, RemoveTarget, RemoveAuthorize, Remove, DeleteAuthorize, Crash

LEMMA AskedInit == ListenersInit => AskedByMembers
BY DEF ListenersInit, Feed!Init, AskedByMembers

LEMMA RoomStepAsked ==
  ASSUME RoomsInv, AskedByMembers, NEW p \in Requests, RoomStep(p)
  PROVE  AskedByMembers'
<1> USE DEF AskedByMembers
<1>1. Next /\ UNCHANGED feedVars
  BY DEF RoomStep, Next, RemoveMember
<1>2. asked' = asked /\ hearing' = hearing
  BY <1>1 DEF feedVars
<1>3. ASSUME NEW u \in Users, NEW r \in RoomIds, <<u, r>> \in asked
      PROVE  /\ rooms'[r] # None
             /\ members'[r][u] # None \/ <<u, r>> \in departed'
             /\ IsDm(r)' => u \in rooms'[r].pair
  <2>1. rooms'[r] \in {rooms[r], Gone} /\ rooms'[r] # None
    BY <1>1, <1>3, RoomsKept, NoneIsNobody
  <2>2. IsDm(r)' => u \in rooms'[r].pair
    BY <1>3, <2>1 DEF IsDm, Live
  <2>3. departed \subseteq departed'
    BY DEF RoomStep
  <2>4. members'[r][u] # None \/ <<u, r>> \in departed'
    <3>1. CASE ~ IsMember(r, u)
      BY <1>3, <2>3, <3>1
    <3>2. CASE IsMember(r, u) /\ members'[r][u] = members[r][u]
      BY <3>2 DEF IsMember
    <3>3. CASE IsMember(r, u) /\ members'[r][u] # members[r][u]
      <4>1. CASE /\ Remove(p)
                 /\ departed' = departed \cup (asked \cap {<<request[p].target, request[p].room>>})
        BY <1>3, <3>3, <4>1, MembersLost
      <4>2. CASE /\ DeleteRoom(p)
                 /\ departed' = departed \cup (asked \cap (Users \X {request[p].room}))
        BY <1>3, <3>3, <4>2, MembersLost
      <4>3. CASE Keeping(p)
        BY <3>3, <4>3, MembersKept
      <4>4. QED BY <4>1, <4>2, <4>3 DEF RoomStep, Keeping
    <3>4. QED BY <3>1, <3>2, <3>3
  <2>5. QED BY <2>1, <2>2, <2>4
<1>4. QED BY <1>2, <1>3 DEF IsMember

LEMMA FeedStepAsked ==
  ASSUME RoomsInv, AskedByMembers, UNCHANGED vars,
         \/ \E u \in Users, r \in RoomIds : ChatSubscribe(u, r)
         \/ Reach
         \/ \E u \in Users : \E rs \in SUBSET RoomIds : LeaveFeed(u, rs)
         \/ UNCHANGED <<feedVars, departed>>
  PROVE  AskedByMembers'
<1> USE DEF AskedByMembers
<1>1. /\ \A r \in RoomIds : rooms'[r] = rooms[r] /\ (IsDm(r)' <=> IsDm(r))
      /\ \A r \in RoomIds, u \in Users : IsMember(r, u)' <=> IsMember(r, u)
  BY DEF vars, IsDm, Live, IsMember
<1>2. ASSUME NEW u \in Users, NEW r \in RoomIds, ChatSubscribe(u, r)
      PROVE  AskedByMembers'
  <2>1. /\ asked' = asked \cup {<<u, r>>} /\ hearing' = hearing /\ departed' = departed
        /\ IsMember(r, u)
    BY <1>2 DEF ChatSubscribe, MaySubscribe, Feed!Ask
  <2>2. RoomOK(r) /\ Live(r)
    BY <2>1 DEF RoomsInv, RoomOK, IsMember, Nobody
  <2>3. rooms[r] # None /\ (IsDm(r) => u \in rooms[r].pair)
    BY <2>1, <2>2 DEF RoomOK, Live
  <2>4. QED BY <1>1, <2>1, <2>3
<1>3. CASE Reach
  BY <1>1, <1>3 DEF Reach, Feed!Reach
<1>4. ASSUME NEW u \in Users, NEW rs \in SUBSET RoomIds, LeaveFeed(u, rs)
      PROVE  AskedByMembers'
  BY <1>1, <1>4 DEF LeaveFeed, Feed!Leave
<1>5. CASE UNCHANGED <<feedVars, departed>>
  BY <1>1, <1>5 DEF feedVars
<1>6. QED BY <1>2, <1>3, <1>4, <1>5

\* Who hears a room is a member, or asked for it before the membership ended, and a
\* direct room is heard by its two users only (chat-subscribe.ts, remove-member.ts,
\* delete-room.ts), for any number of rooms, sockets and requests.
THEOREM OnlyMembersHear == ListenersSpec => []HeardByItsMembers
<1>1. RoomsInv /\ AskedByMembers /\ [ListenersNext]_allVars => AskedByMembers'
  <2> SUFFICES ASSUME RoomsInv, AskedByMembers, [ListenersNext]_allVars
               PROVE  AskedByMembers'
    OBVIOUS
  <2>1. CASE \E p \in Requests : RoomStep(p)
    BY <2>1, RoomStepAsked
  <2>2. CASE ~ \E p \in Requests : RoomStep(p)
    <3>1. UNCHANGED vars
      BY <2>2 DEF ListenersNext, ChatSubscribe, Reach, LeaveFeed, allVars
    <3>2. QED BY <2>2, <3>1, FeedStepAsked DEF ListenersNext, allVars
  <2>3. QED BY <2>1, <2>2
<1>2. AskedByMembers => HeardByItsMembers
  BY DEF AskedByMembers, HeardByItsMembers, IsDm
<1>3. ListenersSpec => []RoomsInv
  BY ListenersDoRooms, RoomsInvariant
<1>4. QED BY <1>1, <1>2, <1>3, AskedInit, PTL DEF ListenersSpec
=============================================================================
