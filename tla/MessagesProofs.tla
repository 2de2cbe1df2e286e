--------------------------- MODULE MessagesProofs ---------------------------
(***************************************************************************)
(* What Messages guarantees, for any number of rooms, users, messages and  *)
(* requests and any page size.  MessagesInv says what the rows and the     *)
(* requests are about; the other parts rest on it, one for each property.  *)
(***************************************************************************)
EXTENDS Messages, FiniteSetTheorems, WellFoundedInduction, TLAPS

\* What a request relies on: its checks may be old, but a message never changes its
\* room and is never inserted twice.
HasLocals(p) ==
  LET q == request[p] IN
  /\ q.id # None => q.id <= clock
  /\ q.at # "idle" => q.id # None /\ q.room # None
  /\ q.at \in {"insert", "bump", "authorize", "findRead", "setRead"} => q.user # None
  /\ q.at = "bump" => q.says # None
  /\ q.at = "insert" => q.id = q.now
  /\ q.now <= clock

AboutItsRoom(p) ==
  LET q == request[p] IN
  /\ q.at \in {"update", "authorize", "softDelete", "setRead"} /\ Exists(q.id) =>
       messages[q.id].room = q.room
  /\ q.at = "setRead" /\ IsMember(q.room, q.user) => Exists(q.id)

\* Nobody knows of a message before its insert, but by guessing its id.
IsNew(p) ==
  LET m == request[p].id IN
  request[p].at = "insert" =>
    /\ ~ Exists(m) /\ view[m] = None
    /\ \A x \in Requests \ {p} : request[x].id = m => request[x].at = "findRead"

RequestOK(p) == HasLocals(p) /\ AboutItsRoom(p) /\ IsNew(p)

MessagesInv ==
  /\ TypeOK
  /\ \A m \in Ids : Exists(m) => m <= clock /\ messages[m].room \in rooms
  /\ \A m \in Ids : view[m] # None => m <= clock
  /\ \A p \in Requests : RequestOK(p)

\* One message per sender and key.
KeyInv ==
  /\ \A m, n \in Ids :
       /\ Exists(m) /\ Exists(n) /\ messages[m].key # None
       /\ messages[m].key = messages[n].key /\ messages[m].sender = messages[n].sender
       => m = n
  /\ \A p \in Requests : LET q == request[p] IN
       q.key # None /\ q.at \in {"bump", "publish"} /\ Exists(q.id) =>
         messages[q.id].sender = q.user /\ messages[q.id].key = q.key

\* An edit that will find its message deleted has raced with the deletion.
BlankInv ==
  /\ DeletedIsBlank
  /\ \A p \in Requests : LET m == request[p].id IN
       request[p].at = "update" /\ Exists(m) /\ messages[m].deleted => m \in raced

\* A room whose sends do not overlap: the only one that is under way is the latest.
LatestIn(m, r) ==
  r \in jumbled \/ (\E p \in Requests : Sending(p, r)) \/ lastMessageAt[r] >= m

LatestInv ==
  /\ \A m \in Ids, r \in Rooms : Exists(m) /\ messages[m].room = r => LatestIn(m, r)
  /\ \A r \in Rooms \ jumbled, p \in Requests : Sending(p, r) =>
       /\ \A x \in Requests : Sending(x, r) => x = p
       /\ \A m \in Ids : Exists(m) /\ messages[m].room = r => m <= request[p].now

\* As long as a key is used in one room, all sends with it are about that room.
RoomInv ==
  /\ \A p \in Requests : LET q == request[p] IN
       q.at = "insert" /\ q.key # None =>
         /\ \A m \in Conflicting(q.user, q.key) : messages[m].room = q.room
         /\ \A x \in Requests : /\ request[x].at = "insert"
                                /\ request[x].user = q.user /\ request[x].key = q.key
                                => request[x].room = q.room
  /\ \A p \in Requests : LET q == request[p] IN
       q.at \in {"bump", "publish"} /\ Exists(q.id) => messages[q.id].room = q.room

\* An event about m is on its way to the client that reads.
Announced(m) ==
  \E p \in Requests : Publishing(p, m) /\ request[p].room = reader.room

\* The page with m is still to come.
ToCome(m) == reader.at = "paging" /\ (reader.before = None \/ m < reader.before)

\* The client knows every message of its room, or its event is on its way, or its page
\* is to come; and what is on its way is what the table has.
ReaderInv ==
  /\ reader = Away => \A m \in Ids : view[m] = None
  /\ reader # Away =>
       /\ reader.at # "away"
       /\ \A p \in Requests, m \in Ids \ unsettled :
            Publishing(p, m) /\ Exists(m) => request[p].says = ContentOf(messages[m])
       /\ \A m \in Ids \ unsettled :
            Exists(m) /\ messages[m].room = reader.room /\ ~ Announced(m) =>
              view[m] = ContentOf(messages[m]) \/ (view[m] = None /\ ToCome(m))

-----------------------------------------------------------------------------
(* What the steps do                                                       *)

LEMMA NoneIsNothing ==
  /\ None \notin Users /\ None \notin Keys /\ None \notin Rooms
  /\ None \notin Ids /\ None \notin Row /\ None \notin Content
  /\ MaxSends \in Nat /\ PageSize \in Nat \ {0}
BY MessagesAssumption

LEMMA IdleIsLocals == Idle \in Locals
<1>1. 0 \in 0 .. MaxSends
  BY NoneIsNothing
<1>2. QED BY <1>1 DEF Idle, Locals, Stages

LEMMA RowOfMessage ==
  ASSUME TypeOK, NEW m \in Ids
  PROVE  /\ Exists(m) <=> messages[m] \in Row
         /\ Exists(m) => ContentOf(messages[m]) \in Content
<1>1. Exists(m) <=> messages[m] \in Row
  BY NoneIsNothing DEF TypeOK, Exists
<1>2. QED BY <1>1 DEF ContentOf, Content, Row

LEMMA RequestFields ==
  ASSUME MessagesInv, NEW p \in Requests
  PROVE  /\ request[p] \in Locals /\ HasLocals(p) /\ AboutItsRoom(p) /\ IsNew(p)
         /\ request[p].at # "idle" => request[p].id \in Ids /\ request[p].room \in Rooms
BY DEF MessagesInv, TypeOK, RequestOK, HasLocals, Locals

Others(p) == \A x \in Requests \ {p} : request'[x] = request[x]
Ends(p) == request'[p] = Idle /\ Others(p)
Moves(p, stage) == request'[p] = [request[p] EXCEPT !.at = stage] /\ Others(p)

\* The fields a request keeps when it learns what it is to say.
SameErrand(p) ==
  /\ request'[p].room = request[p].room /\ request'[p].user = request[p].user
  /\ request'[p].key = request[p].key /\ request'[p].now = request[p].now

LEMMA StartEffect ==
  ASSUME TypeOK, NEW p \in Requests, NEW q \in Locals, Start(p, q)
  PROVE  request[p] = Idle /\ request'[p] = q /\ Others(p) /\ request' \in [Requests -> Locals]
BY DEF TypeOK, Start, Others

LEMMA FailEffect ==
  ASSUME TypeOK, NEW p \in Requests, Fail(p)
  PROVE  Ends(p) /\ request' \in [Requests -> Locals]
BY IdleIsLocals DEF TypeOK, Fail, Ends, Others

LEMMA GotoEffect ==
  ASSUME TypeOK, NEW p \in Requests, NEW stage \in Stages, Goto(p, stage)
  PROVE  /\ Moves(p, stage) /\ request' \in [Requests -> Locals]
         /\ request'[p].at = stage /\ request'[p].id = request[p].id
         /\ request'[p].says = request[p].says /\ request'[p].body = request[p].body
         /\ SameErrand(p)
<1>1. request[p] \in Locals /\ request'[p] = [request[p] EXCEPT !.at = stage]
  BY DEF TypeOK, Goto
<1>2. [request[p] EXCEPT !.at = stage] \in Locals
  BY <1>1 DEF Locals
<1>3. request' \in [Requests -> Locals] /\ Others(p)
  BY <1>2 DEF TypeOK, Goto, Others
<1>4. QED BY <1>1, <1>3 DEF Moves, SameErrand, Locals

\* m has been inserted for p, or has been rewritten by p.
Inserted(p, m) ==
  /\ m = request[p].id /\ ~ Exists(m) /\ Exists(m)'
  /\ messages'[m].room = request[p].room /\ messages'[m].sender = request[p].user
  /\ messages'[m].key = request[p].key /\ messages'[m].body = request[p].body
  /\ messages'[m].deleted = FALSE
  /\ \A n \in Ids \ {m} : messages'[n] = messages[n]

Rewritten(p, m, body, deleted) ==
  /\ Exists(m) /\ Exists(m)'
  /\ messages'[m].room = messages[m].room /\ messages'[m].sender = messages[m].sender
  /\ messages'[m].key = messages[m].key
  /\ messages'[m].body = body /\ messages'[m].deleted = deleted
  /\ \A n \in Ids \ {m} : messages'[n] = messages[n]
  /\ unsettled' = unsettled \cup
       {x \in {m} : reader # Away /\ \E q \in Requests \ {p} : Publishing(q, m)}

\* p has a state of m to publish, the one the table now has.
Tells(p, m, stage) ==
  /\ request'[p].at = stage /\ request'[p].id = m
  /\ request'[p].says = ContentOf(messages'[m]) /\ request'[p].says \in Content
  /\ SameErrand(p) /\ Others(p)

LEMMA SendInsertEffect ==
  ASSUME MessagesInv, NEW p \in Requests, SendInsert(p)
  PROVE  /\ request[p].at = "insert"
         /\ messages' \in [Ids -> Row \cup {None}] /\ request' \in [Requests -> Locals]
         /\ \/ Ends(p) /\ messages' = messages /\ request[p].room \notin rooms
            \/ \E m \in Ids :
                 /\ Tells(p, m, "bump")
                 /\ \/ m \in Conflicting(request[p].user, request[p].key) /\ messages' = messages
                    \/ /\ Conflicting(request[p].user, request[p].key) = {}
                       /\ request[p].room \in rooms /\ Inserted(p, m)
<1> USE DEF MessagesInv
<1>1. request[p].at = "insert" /\ request[p] \in Locals /\ request[p].id \in Ids
      /\ request[p].room \in Rooms /\ request[p].user \in Users /\ ~ Exists(request[p].id)
  <2>1. request[p].at = "insert"
    BY DEF SendInsert
  <2>2. QED BY <2>1, RequestFields DEF HasLocals, IsNew, Locals
<1>2. ASSUME NEW m \in Ids, NEW row \in Row,
             messages' = [messages EXCEPT ![m] = row],
             request' = [request EXCEPT ![p].at = "bump", ![p].id = m,
                                        ![p].says = ContentOf(row)]
      PROVE  /\ Tells(p, m, "bump") /\ messages'[m] = row
             /\ messages' \in [Ids -> Row \cup {None}] /\ request' \in [Requests -> Locals]
  <2> DEFINE q == [request[p] EXCEPT !.at = "bump", !.id = m, !.says = ContentOf(row)]
  <2>1. ContentOf(row) \in Content
    BY DEF ContentOf, Content, Row
  <2>2. /\ q \in Locals /\ q.at = "bump" /\ q.id = m /\ q.says = ContentOf(row)
        /\ q.room = request[p].room /\ q.user = request[p].user
        /\ q.key = request[p].key /\ q.now = request[p].now
    BY <1>1, <2>1 DEF Locals, Stages
  <2>3. request' = [request EXCEPT ![p] = q]
    BY <1>2
  <2> HIDE DEF q
  <2>4. request'[p] = q /\ Others(p) /\ request' \in [Requests -> Locals]
    BY <2>2, <2>3 DEF Others, TypeOK
  <2>5. messages'[m] = row /\ messages' \in [Ids -> Row \cup {None}]
    BY <1>2 DEF TypeOK
  <2>6. QED BY <2>1, <2>2, <2>4, <2>5 DEF Tells, SameErrand
<1>3. ASSUME NEW m \in Conflicting(request[p].user, request[p].key),
             messages' = [messages EXCEPT ![m] = messages[m]],
             request' = [request EXCEPT ![p].at = "bump", ![p].id = m,
                                        ![p].says = ContentOf(messages[m])]
      PROVE  /\ m \in Ids /\ Tells(p, m, "bump") /\ messages' = messages
             /\ messages' \in [Ids -> Row \cup {None}] /\ request' \in [Requests -> Locals]
  <2>1. m \in Ids /\ messages[m] \in Row
    BY RowOfMessage DEF Conflicting
  <2>2. messages' = messages
    BY <1>3, <2>1 DEF TypeOK
  <2>3. QED BY <1>2, <1>3, <2>1, <2>2
<1>4. ASSUME Conflicting(request[p].user, request[p].key) = {}, request[p].room \in rooms,
             NEW new, new = [room |-> request[p].room, sender |-> request[p].user,
                             key |-> request[p].key, body |-> request[p].body, deleted |-> FALSE],
             NEW m, m = request[p].id,
             messages' = [messages EXCEPT ![m] = new],
             request' = [request EXCEPT ![p].at = "bump", ![p].id = m,
                                        ![p].says = ContentOf(new)]
      PROVE  /\ m \in Ids /\ Tells(p, m, "bump") /\ Inserted(p, m)
             /\ messages' \in [Ids -> Row \cup {None}] /\ request' \in [Requests -> Locals]
  <2>1. new \in Row /\ m \in Ids
    BY <1>1, <1>4 DEF Row, Locals
  <2>2. /\ Tells(p, m, "bump") /\ messages'[m] = new
        /\ messages' \in [Ids -> Row \cup {None}] /\ request' \in [Requests -> Locals]
    <3>1. PICK row \in Row : row = new
      BY <2>1
    <3>2. PICK i \in Ids : i = m
      BY <2>1
    <3>3. /\ messages' = [messages EXCEPT ![i] = row]
          /\ request' = [request EXCEPT ![p].at = "bump", ![p].id = i,
                                        ![p].says = ContentOf(row)]
      BY <1>4, <3>1, <3>2
    <3>4. QED BY <1>2, <3>1, <3>2, <3>3
  <2>3. Exists(m)' /\ ~ Exists(m) /\ \A n \in Ids \ {m} : messages'[n] = messages[n]
    BY <1>1, <1>4, <2>1, <2>2, NoneIsNothing DEF Exists, TypeOK
  <2>4. /\ messages'[m].room = request[p].room /\ messages'[m].sender = request[p].user
        /\ messages'[m].key = request[p].key /\ messages'[m].body = request[p].body
        /\ messages'[m].deleted = FALSE
    BY <1>4, <2>2
  <2>5. QED BY <1>4, <2>1, <2>2, <2>3, <2>4 DEF Inserted
<1>5. CASE request[p].room \notin rooms /\ Fail(p) /\ UNCHANGED messages
  BY <1>1, <1>5, FailEffect DEF TypeOK
<1>6. QED BY <1>1, <1>3, <1>4, <1>5 DEF SendInsert

LEMMA RewriteEffect ==
  ASSUME MessagesInv, NEW p \in Requests, NEW body \in Bodies \cup {Blank},
         NEW deleted \in BOOLEAN, request[p].at # "idle", Rewrite(p, body, deleted)
  PROVE  /\ messages' \in [Ids -> Row \cup {None}] /\ request' \in [Requests -> Locals]
         /\ unsettled' \in SUBSET Ids
         /\ \/ Ends(p) /\ messages' = messages /\ unsettled' = unsettled
               /\ ~ Exists(request[p].id)
            \/ \E m \in Ids : /\ m = request[p].id
                              /\ Tells(p, m, "publish") /\ Rewritten(p, m, body, deleted)
<1> USE DEF MessagesInv
<1>1. request[p] \in Locals
  BY RequestFields
<1>2. PICK m \in Ids : m = request[p].id
  BY RequestFields
<1>3. CASE ~ Exists(m) /\ Fail(p) /\ UNCHANGED <<messages, unsettled>>
  BY <1>2, <1>3, FailEffect DEF TypeOK
<1>4. ASSUME Exists(m), NEW row, row = [messages[m] EXCEPT !.body = body, !.deleted = deleted],
             messages' = [messages EXCEPT ![m] = row],
             request' = [request EXCEPT ![p].at = "publish", ![p].says = ContentOf(row)],
             unsettled' = unsettled \cup
               {x \in {m} : reader # Away /\ \E q \in Requests \ {p} : Publishing(q, m)}
      PROVE  /\ messages' \in [Ids -> Row \cup {None}] /\ request' \in [Requests -> Locals]
             /\ unsettled' \in SUBSET Ids
             /\ Tells(p, m, "publish") /\ Rewritten(p, m, body, deleted)
  <2>1. messages[m] \in Row
    BY <1>4, RowOfMessage
  <2>2. /\ row \in Row /\ row.body = body /\ row.deleted = deleted
        /\ row.room = messages[m].room /\ row.sender = messages[m].sender
        /\ row.key = messages[m].key
    BY <1>4, <2>1 DEF Row
  <2>3. /\ messages'[m] = row /\ messages' \in [Ids -> Row \cup {None}]
        /\ \A n \in Ids \ {m} : messages'[n] = messages[n]
    BY <1>4, <2>2 DEF TypeOK
  <2>4. Exists(m)'
    BY <2>2, <2>3, NoneIsNothing DEF Exists
  <2> DEFINE q == [request[p] EXCEPT !.at = "publish", !.says = ContentOf(row)]
  <2>5. ContentOf(row) \in Content
    BY <2>2 DEF ContentOf, Content, Row
  <2>6. /\ q \in Locals /\ q.at = "publish" /\ q.id = m /\ q.says = ContentOf(row)
        /\ q.room = request[p].room /\ q.user = request[p].user
        /\ q.key = request[p].key /\ q.now = request[p].now
    BY <1>1, <1>2, <2>5 DEF Locals, Stages
  <2>7. request' = [request EXCEPT ![p] = q]
    BY <1>4
  <2> HIDE DEF q
  <2>8. request'[p] = q /\ Others(p) /\ request' \in [Requests -> Locals]
    BY <2>6, <2>7 DEF Others, TypeOK
  <2>9. Tells(p, m, "publish")
    BY <2>3, <2>5, <2>6, <2>8 DEF Tells, SameErrand
  <2>10. Rewritten(p, m, body, deleted)
    BY <1>4, <2>2, <2>3, <2>4 DEF Rewritten
  <2>11. QED BY <1>4, <2>3, <2>8, <2>9, <2>10 DEF TypeOK
<1>5. QED BY <1>2, <1>3, <1>4 DEF Rewrite, Says

-----------------------------------------------------------------------------
(* Rows and requests                                                       *)

LEMMA MessagesInit == Init => MessagesInv
<1> SUFFICES ASSUME Init PROVE MessagesInv
  OBVIOUS
<1>1. 0 \in 0 .. MaxSends
  BY NoneIsNothing
<1>2. TypeOK
  BY <1>1, IdleIsLocals DEF Init, TypeOK, Reader, Away
<1>3. \A p \in Requests : request[p] = Idle
  BY DEF Init
<1>4. \A p \in Requests : RequestOK(p)
  BY <1>1, <1>3 DEF Init, RequestOK, HasLocals, AboutItsRoom, IsNew, Idle
<1>5. QED BY <1>2, <1>4 DEF MessagesInv, Init, Exists

\* A step of one request: messages keep their rooms, and the only one that can appear
\* is the one the request inserts.
LEMMA StepFrame ==
  ASSUME MessagesInv, TypeOK', NEW p \in Requests, Others(p),
         clock <= clock', UNCHANGED <<rooms, members>>,
         \A m \in Ids : Exists(m) => Exists(m)' /\ messages'[m].room = messages[m].room,
         \A m \in Ids : Exists(m)' /\ ~ Exists(m) =>
           request[p].at = "insert" /\ m = request[p].id /\ messages'[m].room \in rooms,
         \A m \in Ids : view'[m] # None =>
           view[m] # None \/ (request[p].at = "publish" /\ m = request[p].id),
         \/ request'[p].at = "findRead" \/ request'[p].id = None
         \/ request'[p].id \in Ids /\ Exists(request'[p].id)
         \/ request'[p].id = request[p].id /\ request[p].at # "findRead"
         \/ request'[p].id > clock,
         HasLocals(p)', AboutItsRoom(p)', IsNew(p)'
  PROVE  MessagesInv'
<1> USE DEF MessagesInv
<1>0. clock \in Nat /\ clock' \in Nat
  BY NoneIsNothing DEF TypeOK
<1>1. ASSUME NEW m \in Ids, Exists(m)' PROVE m <= clock' /\ messages'[m].room \in rooms'
  <2>1. m \in Nat
    BY NoneIsNothing DEF Ids
  <2>2. CASE Exists(m)
    BY <1>0, <2>1, <2>2
  <2>3. CASE ~ Exists(m)
    <3>1. request[p].at = "insert" /\ m = request[p].id /\ messages'[m].room \in rooms
      BY <1>1, <2>3
    <3>2. m <= clock
      BY <3>1, RequestFields, NoneIsNothing DEF HasLocals
    <3>3. QED BY <1>0, <2>1, <3>1, <3>2
  <2>4. QED BY <2>2, <2>3
<1>2. ASSUME NEW m \in Ids, view'[m] # None PROVE m <= clock'
  <2>1. m \in Nat
    BY NoneIsNothing DEF Ids
  <2>2. m <= clock
    BY <1>2, RequestFields, NoneIsNothing DEF HasLocals
  <2>3. QED BY <1>0, <2>1, <2>2
<1>3. ASSUME NEW x \in Requests \ {p} PROVE RequestOK(x)'
  <2>1. /\ request'[x] = request[x] /\ request[x] \in Locals
        /\ HasLocals(x) /\ AboutItsRoom(x) /\ IsNew(x)
    BY RequestFields DEF Others
  <2>2. HasLocals(x)'
    <3>1. request[x].now \in Nat /\ (request[x].id # None => request[x].id \in Nat)
      BY <2>1, NoneIsNothing DEF Locals, Ids
    <3>2. request[x].now <= clock' /\ (request[x].id # None => request[x].id <= clock')
      BY <1>0, <2>1, <3>1 DEF HasLocals
    <3>3. QED BY <2>1, <3>2 DEF HasLocals
  <2>3. AboutItsRoom(x)'
    <3>1. SUFFICES ASSUME request[x].at \in {"update", "authorize", "softDelete", "setRead"}
                   PROVE  AboutItsRoom(x)'
      BY <2>1 DEF AboutItsRoom
    <3>2. PICK m \in Ids : m = request[x].id
      BY <3>1, RequestFields
    <3>3. ~ (request[p].at = "insert" /\ m = request[p].id)
      BY <3>1, <3>2, RequestFields DEF IsNew
    <3>4. Exists(m)' <=> Exists(m)
      BY <3>3
    <3>5. QED BY <2>1, <3>2, <3>4 DEF AboutItsRoom, Exists, IsMember
  <2>4. IsNew(x)'
    <3>1. SUFFICES ASSUME request[x].at = "insert"
                   PROVE  IsNew(x)'
      BY <2>1 DEF IsNew
    <3>2. PICK m \in Ids : m = request[x].id
      BY <3>1, RequestFields
    <3>3. /\ ~ Exists(m) /\ view[m] = None
          /\ \A y \in Requests \ {x} : request[y].id = m => request[y].at = "findRead"
      BY <2>1, <3>1, <3>2 DEF IsNew
    <3>4. ~ Exists(m)' /\ view'[m] = None
      BY <3>2, <3>3
    <3>5. m <= clock
      BY <2>1, <3>2, NoneIsNothing DEF HasLocals
    <3>6. m \in Nat /\ m # None
      BY NoneIsNothing DEF Ids
    <3>7. request'[p].id = m => request'[p].at = "findRead"
      BY <1>0, <3>3, <3>5, <3>6
    <3>8. \A y \in Requests \ {x} : request'[y].id = m => request'[y].at = "findRead"
      BY <3>3, <3>7 DEF Others
    <3>9. QED BY <2>1, <3>2, <3>4, <3>8 DEF IsNew, Exists
  <2>5. QED BY <2>2, <2>3, <2>4 DEF RequestOK
<1>4. QED BY <1>1, <1>2, <1>3 DEF RequestOK

LEMMA EndedIsOK ==
  ASSUME NEW p \in Requests, request'[p] = Idle, clock' \in Nat
  PROVE  HasLocals(p)' /\ AboutItsRoom(p)' /\ IsNew(p)'
BY DEF HasLocals, AboutItsRoom, IsNew, Idle

\* A request that ends.
LEMMA EndStep ==
  ASSUME MessagesInv, TypeOK', NEW p \in Requests, Ends(p),
         UNCHANGED <<rooms, members, messages, clock>>,
         \A m \in Ids : view'[m] # None =>
           view[m] # None \/ (request[p].at = "publish" /\ m = request[p].id)
  PROVE  MessagesInv'
<1>1. clock \in Nat /\ clock' \in Nat /\ clock <= clock'
  BY NoneIsNothing DEF MessagesInv, TypeOK
<1>2. request'[p].id = None /\ Others(p)
  BY DEF Ends, Idle
<1>3. HasLocals(p)' /\ AboutItsRoom(p)' /\ IsNew(p)'
  BY <1>1, EndedIsOK DEF Ends
<1>4. \A m \in Ids : Exists(m)' <=> Exists(m)
  BY DEF Exists
<1>5. QED BY <1>1, <1>2, <1>3, <1>4, StepFrame

LEMMA SendCheckStep ==
  ASSUME MessagesInv, NEW p \in Requests, SendCheck(p)
  PROVE  MessagesInv'
<1> USE DEF MessagesInv
<1>1. PICK r \in Rooms, u \in Users, k \in Keys \cup {None}, b \in Bodies :
        /\ clock < MaxSends /\ clock' = clock + 1
        /\ Start(p, [Idle EXCEPT !.at = "insert", !.user = u, !.room = r, !.key = k,
                                 !.id = clock + 1, !.now = clock + 1, !.body = b])
        /\ jumbled' = jumbled \cup {x \in {r} : \E q \in Requests : Sending(q, r)}
        /\ UNCHANGED <<tables, readerVars, unsettled, raced>>
  BY DEF SendCheck
<1>2. /\ clock \in Nat /\ clock + 1 \in Ids /\ clock + 1 \in 0 .. MaxSends
      /\ clock <= clock' /\ clock + 1 > clock
  BY <1>1, NoneIsNothing DEF TypeOK, Ids
<1> DEFINE q == [Idle EXCEPT !.at = "insert", !.user = u, !.room = r, !.key = k,
                             !.id = clock + 1, !.now = clock + 1, !.body = b]
<1>3. /\ q \in Locals /\ q.at = "insert" /\ q.user = u /\ q.room = r /\ q.key = k
      /\ q.id = clock + 1 /\ q.now = clock + 1
  BY <1>2, IdleIsLocals DEF Locals, Stages
<1>4. Start(p, q)
  BY <1>1
<1> HIDE DEF q
<1>5. request'[p] = q /\ Others(p) /\ request' \in [Requests -> Locals]
  BY <1>3, <1>4, StartEffect
<1>6. TypeOK'
  BY <1>1, <1>2, <1>5 DEF TypeOK, tables, readerVars
<1>7. HasLocals(p)' /\ AboutItsRoom(p)'
  BY <1>1, <1>2, <1>3, <1>5, NoneIsNothing DEF HasLocals, AboutItsRoom
<1>8. IsNew(p)'
  <2>1. ~ Exists(clock + 1) /\ view[clock + 1] = None
    BY <1>2
  <2>2. \A x \in Requests : request[x].id # clock + 1
    BY <1>2, RequestFields, NoneIsNothing DEF HasLocals
  <2>3. QED BY <1>1, <1>3, <1>5, <2>1, <2>2 DEF IsNew, Exists, Others, tables, readerVars
<1>9. \A m \in Ids : Exists(m)' <=> Exists(m)
  BY <1>1 DEF Exists, tables
<1>10. request'[p].id > clock
  BY <1>2, <1>3, <1>5
<1>11. QED BY <1>1, <1>2, <1>5, <1>6, <1>7, <1>8, <1>9, <1>10, StepFrame DEF tables, readerVars

\* What p tells is about a message that exists, so p creates nothing.
LEMMA TellsIsOK ==
  ASSUME MessagesInv, NEW p \in Requests, NEW m \in Ids, NEW stage \in {"bump", "publish"},
         Tells(p, m, stage), m <= clock, UNCHANGED clock, request[p].at # "idle",
         stage = "bump" => request[p].user # None
  PROVE  HasLocals(p)' /\ AboutItsRoom(p)' /\ IsNew(p)'
<1>1. request[p].room # None /\ request[p].now <= clock /\ m # None
  BY RequestFields, NoneIsNothing DEF HasLocals
<1>2. request'[p].says # None
  BY NoneIsNothing DEF Tells
<1>3. QED BY <1>1, <1>2 DEF Tells, SameErrand, HasLocals, AboutItsRoom, IsNew

LEMMA SendInsertStep ==
  ASSUME MessagesInv, NEW p \in Requests, SendInsert(p)
  PROVE  MessagesInv'
<1> USE DEF MessagesInv
<1>1. /\ request[p].at = "insert"
      /\ messages' \in [Ids -> Row \cup {None}] /\ request' \in [Requests -> Locals]
      /\ UNCHANGED <<rooms, members, lastMessageAt, lastRead, clock, readerVars, notes>>
  BY SendInsertEffect DEF SendInsert
<1>2. TypeOK'
  BY <1>1 DEF TypeOK, readerVars, notes
<1>3. /\ clock \in Nat /\ clock <= clock' /\ view' = view
  BY <1>1, NoneIsNothing DEF TypeOK, readerVars
<1>4. CASE Ends(p) /\ messages' = messages
  BY <1>1, <1>2, <1>3, <1>4, EndStep
<1>5. ASSUME NEW m \in Ids, Tells(p, m, "bump"),
             m \in Conflicting(request[p].user, request[p].key), messages' = messages
      PROVE  MessagesInv'
  <2>1. Exists(m) /\ m <= clock
    BY <1>5 DEF Conflicting
  <2>2. HasLocals(p)' /\ AboutItsRoom(p)' /\ IsNew(p)'
    BY <1>1, <1>5, <2>1, RequestFields, TellsIsOK DEF HasLocals
  <2>3. \A n \in Ids : Exists(n)' <=> Exists(n)
    BY <1>5 DEF Exists
  <2>4. request'[p].id = m /\ Others(p)
    BY <1>5 DEF Tells
  <2>5. QED BY <1>1, <1>2, <1>3, <1>5, <2>1, <2>2, <2>3, <2>4, StepFrame
<1>6. ASSUME NEW m \in Ids, Tells(p, m, "bump"), request[p].room \in rooms, Inserted(p, m)
      PROVE  MessagesInv'
  <2>1. m = request[p].id /\ m <= clock
    BY <1>1, <1>6, RequestFields, NoneIsNothing DEF Inserted, HasLocals
  <2>2. HasLocals(p)' /\ AboutItsRoom(p)' /\ IsNew(p)'
    BY <1>1, <1>6, <2>1, RequestFields, TellsIsOK DEF HasLocals
  <2>3. /\ \A n \in Ids : Exists(n) => Exists(n)' /\ messages'[n].room = messages[n].room
        /\ \A n \in Ids : Exists(n)' /\ ~ Exists(n) => n = m /\ messages'[n].room \in rooms
    BY <1>6 DEF Inserted, Exists
  <2>4. request'[p].id = m /\ Others(p)
    BY <1>6 DEF Tells
  <2>5. request'[p].id = request[p].id /\ request[p].at # "findRead"
    BY <1>1, <2>1, <2>4
  <2>6. QED BY <1>1, <1>2, <1>3, <2>1, <2>2, <2>3, <2>4, <2>5, StepFrame
<1>7. QED BY <1>4, <1>5, <1>6, SendInsertEffect

LEMMA RewriteStep ==
  ASSUME MessagesInv, NEW p \in Requests, EditUpdate(p) \/ DeleteMark(p)
  PROVE  MessagesInv'
<1> USE DEF MessagesInv
<1>1. /\ request[p].at \in {"update", "softDelete"} /\ request[p] \in Locals
      /\ UNCHANGED <<rooms, members, lastMessageAt, lastRead, clock, readerVars, jumbled>>
      /\ raced' \in SUBSET Ids
  BY RequestFields DEF EditUpdate, DeleteMark, TypeOK
<1>2. PICK body \in Bodies \cup {Blank}, deleted \in BOOLEAN : Rewrite(p, body, deleted)
  <2>1. CASE EditUpdate(p)
    BY <1>1, <2>1 DEF EditUpdate, DeletedAfterEdit, Locals, Row, Exists, TypeOK
  <2>2. CASE DeleteMark(p)
    BY <2>2 DEF DeleteMark, BodyDeleted
  <2>3. QED BY <2>1, <2>2
<1>3. /\ messages' \in [Ids -> Row \cup {None}] /\ request' \in [Requests -> Locals]
      /\ unsettled' \in SUBSET Ids
      /\ \/ Ends(p) /\ messages' = messages
         \/ \E m \in Ids : /\ m = request[p].id
                           /\ Tells(p, m, "publish") /\ Rewritten(p, m, body, deleted)
  BY <1>1, <1>2, RewriteEffect
<1>4. TypeOK'
  BY <1>1, <1>3 DEF TypeOK, readerVars
<1>5. clock \in Nat /\ clock <= clock' /\ view' = view
  BY <1>1, NoneIsNothing DEF TypeOK, readerVars
<1>6. CASE Ends(p) /\ messages' = messages
  BY <1>1, <1>4, <1>5, <1>6, EndStep
<1>7. ASSUME NEW m \in Ids, Tells(p, m, "publish"), Rewritten(p, m, body, deleted)
      PROVE  MessagesInv'
  <2>1. Exists(m) /\ m <= clock
    BY <1>7 DEF Rewritten
  <2>2. HasLocals(p)' /\ AboutItsRoom(p)' /\ IsNew(p)'
    BY <1>1, <1>7, <2>1, TellsIsOK
  <2>3. \A n \in Ids : /\ Exists(n)' <=> Exists(n)
                       /\ Exists(n) => messages'[n].room = messages[n].room
    BY <1>7 DEF Rewritten, Exists
  <2>4. request'[p].id = m /\ Others(p)
    BY <1>7 DEF Tells
  <2>5. QED BY <1>1, <1>4, <1>5, <2>1, <2>2, <2>3, <2>4, StepFrame
<1>8. QED BY <1>3, <1>6, <1>7
\* A request that goes on to another stage.
LEMMA GotoStep ==
  ASSUME MessagesInv, TypeOK', NEW p \in Requests, NEW stage \in Stages \ {"insert", "bump"},
         Goto(p, stage), UNCHANGED <<rooms, members, messages, clock, view>>,
         request[p].at \notin {"idle", "findRead"} \/ Exists(request[p].id),
         request[p].at # "idle",
         stage \in {"update", "authorize", "softDelete", "setRead"} =>
           /\ request[p].user # None
           /\ Exists(request[p].id) => messages[request[p].id].room = request[p].room,
         stage = "setRead" => Exists(request[p].id),
         stage = "findRead" => request[p].at = "findRead"
  PROVE  MessagesInv'
<1> USE DEF MessagesInv
<1>1. /\ request' \in [Requests -> Locals] /\ Others(p)
      /\ request'[p].at = stage /\ request'[p].id = request[p].id
      /\ request'[p].room = request[p].room /\ request'[p].user = request[p].user
      /\ request'[p].now = request[p].now
  <2>1. stage \in Stages
    OBVIOUS
  <2>2. TypeOK
    OBVIOUS
  <2>3. QED BY ONLY <2>1, <2>2, GotoEffect, Goto(p, stage), p \in Requests DEF SameErrand, Moves
<1>2. PICK m \in Ids : m = request[p].id
  BY RequestFields
<1>3. request[p].room \in Rooms /\ HasLocals(p)
  BY RequestFields
<1>4. HasLocals(p)'
  <2>1. stage \in {"authorize", "setRead", "findRead"} => request[p].user # None
    BY <1>3 DEF HasLocals
  <2>2. /\ m # None /\ m <= clock /\ request[p].now <= clock /\ request[p].room # None
    BY <1>2, <1>3, NoneIsNothing DEF HasLocals
  <2>3. QED BY <1>1, <1>2, <2>1, <2>2, NoneIsNothing DEF HasLocals, Stages
<1>5. AboutItsRoom(p)'
  BY <1>1 DEF AboutItsRoom, Exists, IsMember
<1>6. IsNew(p)'
  BY <1>1 DEF IsNew
<1>7. clock \in Nat /\ clock <= clock' /\ view' = view
  BY NoneIsNothing DEF TypeOK
<1>8. \A n \in Ids : Exists(n)' <=> Exists(n)
  BY DEF Exists
<1>9. \/ request'[p].id \in Ids /\ Exists(request'[p].id)
      \/ request'[p].id = request[p].id /\ request[p].at # "findRead"
  BY <1>1, <1>2
<1>10. QED BY <1>1, <1>4, <1>5, <1>6, <1>7, <1>8, <1>9, StepFrame

LEMMA SendBumpStep ==
  ASSUME MessagesInv, NEW p \in Requests, SendBump(p)
  PROVE  MessagesInv'
<1> USE DEF MessagesInv
<1>1. /\ request[p].at = "bump" /\ Goto(p, "publish")
      /\ UNCHANGED <<rooms, members, messages, lastRead, clock, readerVars, notes>>
  BY DEF SendBump
<1>2. "publish" \in Stages \ {"insert", "bump"}
  BY DEF Stages
<1>3. request' \in [Requests -> Locals] /\ request[p].now \in 0 .. MaxSends
  BY <1>1, <1>2, GotoEffect, RequestFields DEF Locals
<1>4. lastMessageAt' \in [Rooms -> 0 .. MaxSends]
  BY <1>3 DEF SendBump, BumpedTo, TypeOK
<1>5. TypeOK'
  BY <1>1, <1>3, <1>4 DEF TypeOK, readerVars, notes
<1>6. QED BY <1>1, <1>2, <1>5, GotoStep DEF readerVars

\* A request about a message that its user has found in the table.
LEMMA FoundStep ==
  ASSUME MessagesInv, NEW p \in Requests, NEW m \in Ids, Exists(m), NEW q \in Locals,
         Start(p, q), UNCHANGED <<tables, clock, readerVars, notes>>,
         q.at \in {"update", "softDelete", "authorize"}, q.user # None,
         q.room = messages[m].room, q.id = m, q.now = 0
  PROVE  MessagesInv'
<1> USE DEF MessagesInv
<1>1. request'[p] = q /\ Others(p) /\ request' \in [Requests -> Locals]
  BY StartEffect
<1>2. TypeOK'
  BY <1>1 DEF TypeOK, tables, readerVars, notes
<1>3. clock \in Nat /\ clock' = clock /\ m <= clock /\ m # None
  BY NoneIsNothing DEF TypeOK
<1>4. messages[m].room \in Rooms /\ messages[m].room # None
  BY RowOfMessage, NoneIsNothing DEF Row
<1>5. HasLocals(p)' /\ IsNew(p)'
  BY <1>1, <1>3, <1>4 DEF HasLocals, IsNew
<1>6. AboutItsRoom(p)'
  BY <1>1 DEF AboutItsRoom, Exists, tables
<1>7. \A n \in Ids : Exists(n)' <=> Exists(n)
  BY DEF Exists, tables
<1>8. request'[p].id \in Ids /\ Exists(request'[p].id)
  BY <1>1
<1>9. QED BY <1>1, <1>2, <1>3, <1>5, <1>6, <1>7, <1>8, StepFrame DEF tables, readerVars

LEMMA EditReadStep ==
  ASSUME MessagesInv, NEW p \in Requests, EditRead(p)
  PROVE  MessagesInv'
<1>1. PICK m \in Ids, b \in Bodies :
        /\ Exists(m)
        /\ Start(p, [Idle EXCEPT !.at = "update", !.user = messages[m].sender,
                       !.room = messages[m].room, !.id = m, !.body = b])
  BY DEF EditRead
<1>2. messages[m] \in Row
  BY <1>1, RowOfMessage DEF MessagesInv
<1> DEFINE q == [Idle EXCEPT !.at = "update", !.user = messages[m].sender,
                       !.room = messages[m].room, !.id = m, !.body = b]
<1>3. /\ q \in Locals /\ q.at = "update" /\ q.user = messages[m].sender
      /\ q.room = messages[m].room /\ q.id = m /\ q.now = Idle.now
  BY <1>2, IdleIsLocals DEF Locals, Stages, Row
<1>4. Start(p, q)
  BY <1>1
<1> HIDE DEF q
<1>5. Idle.now = 0
  BY DEF Idle
<1>6. messages[m].sender # None
  BY <1>2, NoneIsNothing DEF Row
<1>7. UNCHANGED <<tables, clock, readerVars, notes>>
  BY DEF EditRead
<1>8. QED BY <1>1, <1>3, <1>4, <1>5, <1>6, <1>7, FoundStep

LEMMA DeleteReadStep ==
  ASSUME MessagesInv, NEW p \in Requests, DeleteRead(p)
  PROVE  MessagesInv'
<1>1. PICK m \in Ids, u \in Users :
        /\ Exists(m)
        /\ Start(p, [Idle EXCEPT !.user = u, !.room = messages[m].room, !.id = m,
              !.at = IF messages[m].sender = u THEN "softDelete" ELSE "authorize"])
  BY DEF DeleteRead
<1>2. messages[m] \in Row
  BY <1>1, RowOfMessage DEF MessagesInv
<1>3. PICK stage \in {"softDelete", "authorize"} :
        stage = IF messages[m].sender = u THEN "softDelete" ELSE "authorize"
  OBVIOUS
<1> DEFINE q == [Idle EXCEPT !.user = u, !.room = messages[m].room, !.id = m, !.at = stage]
<1>4. /\ q \in Locals /\ q.at = stage /\ q.user = u
      /\ q.room = messages[m].room /\ q.id = m /\ q.now = Idle.now
  BY <1>2, IdleIsLocals DEF Locals, Stages, Row
<1>5. Start(p, q)
  BY <1>1, <1>3
<1> HIDE DEF q
<1>6. Idle.now = 0
  BY DEF Idle
<1>7. UNCHANGED <<tables, clock, readerVars, notes>> /\ u # None
  BY NoneIsNothing DEF DeleteRead
<1>8. QED BY <1>1, <1>4, <1>5, <1>6, <1>7, FoundStep

LEMMA DeleteAuthorizeStep ==
  ASSUME MessagesInv, NEW p \in Requests, DeleteAuthorize(p)
  PROVE  MessagesInv'
<1> USE DEF MessagesInv
<1>1. /\ request[p].at = "authorize" /\ UNCHANGED <<tables, clock, readerVars, notes>>
      /\ Goto(p, "softDelete") \/ Fail(p)
  BY DEF DeleteAuthorize
<1>2. "softDelete" \in Stages \ {"insert", "bump"}
  BY DEF Stages
<1>3. request' \in [Requests -> Locals]
  BY <1>1, <1>2, GotoEffect, FailEffect
<1>4. TypeOK'
  BY <1>1, <1>3 DEF TypeOK, tables, readerVars, notes
<1>5. UNCHANGED <<rooms, members, messages, clock, view>>
  BY <1>1 DEF tables, readerVars
<1>6. CASE Goto(p, "softDelete")
  <2>1. /\ request[p].user # None
        /\ Exists(request[p].id) => messages[request[p].id].room = request[p].room
    BY <1>1, RequestFields DEF HasLocals, AboutItsRoom
  <2>2. QED BY <1>1, <1>2, <1>4, <1>5, <1>6, <2>1, GotoStep
<1>7. CASE Fail(p)
  BY <1>4, <1>5, <1>7, FailEffect, EndStep
<1>8. QED BY <1>1, <1>6, <1>7

LEMMA ReadCheckStep ==
  ASSUME MessagesInv, NEW p \in Requests, ReadCheck(p)
  PROVE  MessagesInv'
<1> USE DEF MessagesInv
<1>1. PICK r \in Rooms, u \in Users, m \in 1 .. clock :
        Start(p, [Idle EXCEPT !.at = "findRead", !.user = u, !.room = r, !.id = m])
  BY DEF ReadCheck
<1>2. UNCHANGED <<tables, clock, readerVars, notes>>
  BY DEF ReadCheck
<1>3. m \in Ids /\ m # None /\ m <= clock /\ clock \in Nat
  BY NoneIsNothing DEF TypeOK, Ids
<1> DEFINE q == [Idle EXCEPT !.at = "findRead", !.user = u, !.room = r, !.id = m]
<1>4. /\ q \in Locals /\ q.at = "findRead" /\ q.user = u /\ q.room = r /\ q.id = m
      /\ q.now = Idle.now
  BY <1>3, IdleIsLocals DEF Locals, Stages
<1>5. Start(p, q)
  BY <1>1
<1> HIDE DEF q
<1>6. request'[p] = q /\ Others(p) /\ request' \in [Requests -> Locals]
  BY <1>4, <1>5, StartEffect
<1>7. TypeOK'
  BY <1>2, <1>6 DEF TypeOK, tables, readerVars, notes
<1>8. Idle.now = 0
  BY DEF Idle
<1>9. HasLocals(p)' /\ AboutItsRoom(p)' /\ IsNew(p)'
  BY <1>2, <1>3, <1>4, <1>6, <1>8, NoneIsNothing DEF HasLocals, AboutItsRoom, IsNew
<1>10. \A n \in Ids : Exists(n)' <=> Exists(n)
  BY <1>2 DEF Exists, tables
<1>11. request'[p].at = "findRead"
  BY <1>4, <1>6
<1>12. QED BY <1>2, <1>3, <1>6, <1>7, <1>9, <1>10, <1>11, StepFrame DEF tables, readerVars

LEMMA ReadFindStep ==
  ASSUME MessagesInv, NEW p \in Requests, ReadFind(p)
  PROVE  MessagesInv'
<1> USE DEF MessagesInv
<1>1. /\ request[p].at = "findRead" /\ UNCHANGED <<tables, clock, readerVars, notes>>
      /\ \/ Readable(request[p].id, request[p].room) /\ Goto(p, "setRead")
         \/ Fail(p)
  BY DEF ReadFind
<1>2. "setRead" \in Stages \ {"insert", "bump"}
  BY DEF Stages
<1>3. request' \in [Requests -> Locals]
  BY <1>1, <1>2, GotoEffect, FailEffect
<1>4. TypeOK'
  BY <1>1, <1>3 DEF TypeOK, tables, readerVars, notes
<1>5. UNCHANGED <<rooms, members, messages, clock, view>>
  BY <1>1 DEF tables, readerVars
<1>6. CASE Readable(request[p].id, request[p].room) /\ Goto(p, "setRead")
  <2>1. Exists(request[p].id) /\ messages[request[p].id].room = request[p].room
    BY <1>6 DEF Readable
  <2>2. request[p].user # None
    BY <1>1, RequestFields DEF HasLocals
  <2>3. QED BY <1>1, <1>2, <1>4, <1>5, <1>6, <2>1, <2>2, GotoStep
<1>7. CASE Fail(p)
  BY <1>4, <1>5, <1>7, FailEffect, EndStep
<1>8. QED BY <1>1, <1>6, <1>7

LEMMA ReadSetStep ==
  ASSUME MessagesInv, NEW p \in Requests, ReadSet(p)
  PROVE  MessagesInv'
<1> USE DEF MessagesInv
<1>1. /\ request[p].at = "setRead" /\ Goto(p, "publish")
      /\ UNCHANGED <<rooms, members, messages, lastMessageAt, clock, readerVars, notes>>
  BY DEF ReadSet
<1>2. "publish" \in Stages \ {"insert", "bump"}
  BY DEF Stages
<1>3. request' \in [Requests -> Locals]
  BY <1>1, <1>2, GotoEffect
<1>4. lastRead' \in [Rooms \X Users -> Ids \cup {None}]
  BY <1>1, RequestFields DEF ReadSet, TypeOK
<1>5. TypeOK'
  BY <1>1, <1>3, <1>4 DEF TypeOK, readerVars, notes
<1>6. QED BY <1>1, <1>2, <1>5, GotoStep DEF readerVars

LEMMA PublishStep ==
  ASSUME MessagesInv, NEW p \in Requests, Publish(p)
  PROVE  MessagesInv'
<1> USE DEF MessagesInv
<1>1. /\ request[p].at = "publish" /\ Fail(p) /\ UNCHANGED <<tables, clock, reader, notes>>
      /\ view' = IF request[p].room = reader.room /\ request[p].says # None
                 THEN [view EXCEPT ![request[p].id] = request[p].says] ELSE view
  BY DEF Publish
<1>2. request' \in [Requests -> Locals] /\ Ends(p)
  BY <1>1, FailEffect
<1>3. request[p] \in Locals
  BY RequestFields
<1>4. /\ view' \in [Ids -> Content \cup {None}]
      /\ \A m \in Ids : view'[m] # None => view[m] # None \/ m = request[p].id
  BY <1>1, <1>3 DEF TypeOK, Locals
<1>5. TypeOK'
  BY <1>1, <1>2, <1>4 DEF TypeOK, tables, notes
<1>6. QED BY <1>1, <1>2, <1>4, <1>5, EndStep DEF tables

LEMMA CrashStep ==
  ASSUME MessagesInv, NEW p \in Requests, Crash(p)
  PROVE  MessagesInv'
<1> USE DEF MessagesInv
<1>1. Ends(p) /\ request' \in [Requests -> Locals]
  BY FailEffect DEF Crash
<1>2. unsettled' \in SUBSET Ids /\ jumbled' \in SUBSET Rooms
  BY DEF Crash, TypeOK
<1>3. UNCHANGED <<tables, clock, readerVars, raced>>
  BY DEF Crash
<1>4. TypeOK'
  BY <1>1, <1>2, <1>3 DEF TypeOK, tables, readerVars
<1>5. QED BY <1>1, <1>3, <1>4, EndStep DEF tables, readerVars
\* A step that no request takes: messages may go with their room, and a client may
\* learn of some that exist.
LEMMA RoomStep ==
  ASSUME MessagesInv, TypeOK', UNCHANGED <<clock, request>>,
         \A r \in Rooms, u \in Users : IsMember(r, u)' => IsMember(r, u),
         \A m \in Ids : Exists(m)' =>
           Exists(m) /\ messages'[m] = messages[m] /\ messages[m].room \in rooms',
         \A r \in Rooms, u \in Users, m \in Ids :
           Exists(m) /\ messages[m].room = r /\ IsMember(r, u)' => Exists(m)',
         \A m \in Ids : view'[m] # None => view[m] # None \/ Exists(m)
  PROVE  MessagesInv'
<1> USE DEF MessagesInv
<1>1. /\ \A m \in Ids : Exists(m)' => m <= clock' /\ messages'[m].room \in rooms'
      /\ \A m \in Ids : view'[m] # None => m <= clock'
  OBVIOUS
<1>2. ASSUME NEW x \in Requests PROVE RequestOK(x)'
  <2>1. /\ request[x] \in Locals /\ request' = request /\ clock' = clock
        /\ HasLocals(x) /\ AboutItsRoom(x) /\ IsNew(x)
    BY RequestFields
  <2>2. HasLocals(x)'
    BY <2>1 DEF HasLocals
  <2>3. CASE request[x].at = "idle"
    BY <2>1, <2>2, <2>3 DEF AboutItsRoom, IsNew, RequestOK
  <2>4. CASE request[x].at # "idle"
    <3>1. PICK m \in Ids : m = request[x].id
      BY <2>4, RequestFields
    <3>2. request[x].room \in Rooms
      BY <2>4, RequestFields
    <3>3. \A u \in Users : request[x].at = "setRead" /\ u = request[x].user
                           /\ IsMember(request[x].room, u)' => Exists(m)'
      BY <2>1, <3>1, <3>2 DEF AboutItsRoom
    <3>4. request[x].at = "setRead" => request[x].user \in Users
      BY <2>1 DEF HasLocals, Locals
    <3>5. AboutItsRoom(x)'
      BY <2>1, <3>1, <3>3, <3>4 DEF AboutItsRoom, Exists, IsMember
    <3>6. request[x].at = "insert" => ~ Exists(m)' /\ view'[m] = None
      BY <2>1, <3>1 DEF IsNew
    <3>7. IsNew(x)'
      BY <2>1, <3>1, <3>6 DEF IsNew, Exists
    <3>8. QED BY <2>2, <3>5, <3>7 DEF RequestOK
  <2>5. QED BY <2>3, <2>4
<1>3. QED BY <1>1, <1>2

LEMMA LeaveStep ==
  ASSUME MessagesInv, NEW r \in Rooms, NEW u \in Users, Leave(r, u)
  PROVE  MessagesInv'
<1>1. TypeOK'
  BY DEF Leave, MessagesInv, TypeOK, readerVars, notes
<1>2. \A x \in Rooms, y \in Users : IsMember(x, y)' => IsMember(x, y)
  BY DEF Leave, IsMember
<1>3. UNCHANGED <<rooms, messages, clock, request, view>>
  BY DEF Leave, readerVars
<1>4. QED BY <1>1, <1>2, <1>3, RoomStep DEF Exists, MessagesInv

LEMMA DropRoomStep ==
  ASSUME MessagesInv, NEW r \in Rooms, DropRoom(r)
  PROVE  MessagesInv'
<1> USE DEF MessagesInv
<1>1. /\ messages' \in [Ids -> Row \cup {None}]
      /\ \A m \in Ids : Exists(m)' <=> Exists(m) /\ messages[m].room # r
      /\ \A m \in Ids : Exists(m)' => messages'[m] = messages[m]
  BY DEF DropRoom, TypeOK, Exists
<1>2. TypeOK'
  <2>1. lastMessageAt' \in [Rooms -> 0 .. MaxSends] /\ lastRead' \in [Rooms \X Users -> Ids \cup {None}]
    BY NoneIsNothing DEF DropRoom, TypeOK
  <2>2. rooms' \in SUBSET Rooms /\ members' \in SUBSET (Rooms \X Users)
    BY DEF DropRoom, TypeOK
  <2>3. UNCHANGED <<clock, request, readerVars, notes>>
    BY DEF DropRoom
  <2>4. QED BY <1>1, <2>1, <2>2, <2>3 DEF TypeOK, readerVars, notes
<1>3. \A x \in Rooms, u \in Users : IsMember(x, u)' <=> IsMember(x, u) /\ x # r
  BY DEF DropRoom, IsMember
<1>4. \A m \in Ids : Exists(m)' => messages[m].room \in rooms'
  BY <1>1 DEF DropRoom
<1>5. UNCHANGED <<clock, request, view>>
  BY DEF DropRoom, readerVars
<1>6. QED BY <1>1, <1>2, <1>3, <1>4, <1>5, RoomStep

LEMMA FollowStep ==
  ASSUME MessagesInv, NEW r \in Rooms, Follow(r)
  PROVE  MessagesInv'
<1> USE DEF MessagesInv
<1>1. UNCHANGED <<tables, clock, request, view, raced, jumbled>>
  BY DEF Follow
<1>2. reader' \in Reader /\ unsettled' \in SUBSET Ids
  BY DEF Follow, Reader
<1>3. TypeOK'
  BY <1>1, <1>2 DEF TypeOK, tables
<1>4. QED BY <1>1, <1>3, RoomStep DEF tables, Exists, IsMember

LEMMA LoadPageEffect ==
  ASSUME MessagesInv, LoadPage, NEW page, page = Page(reader.room, reader.before)
  PROVE  /\ page \subseteq Listed(reader.room, reader.before)
         /\ \A m \in page : m \in Ids /\ Exists(m) /\ messages[m].room = reader.room
         /\ view' \in [Ids -> Content \cup {None}]
         /\ \A m \in Ids : view'[m] = IF m \in page /\ view[m] = None
                                      THEN ContentOf(messages[m]) ELSE view[m]
         /\ reader.at = "paging" /\ reader'.room = reader.room
         /\ reader' \in Reader
         /\ \/ /\ Cardinality(page) < PageSize
               /\ reader'.at = "done"
            \/ \E oldest \in page : /\ \A m \in page : oldest <= m
                                    /\ ~ Cardinality(page) < PageSize
                                    /\ reader'.at = "paging" /\ reader'.before = oldest
         /\ UNCHANGED <<tables, clock, request, notes>>
<1> USE DEF MessagesInv
<1>1. /\ page \subseteq Listed(reader.room, reader.before)
      /\ \A m \in page : m \in Ids /\ Exists(m) /\ messages[m].room = reader.room
  BY DEF Page, Listed
<1>2. \A m \in page : ContentOf(messages[m]) \in Content
  BY <1>1, RowOfMessage
<1>3. view' = [m \in Ids |-> IF m \in page /\ view[m] = None
                             THEN ContentOf(messages[m]) ELSE view[m]]
  BY DEF LoadPage
<1>4. view' \in [Ids -> Content \cup {None}]
  BY <1>2, <1>3 DEF TypeOK
<1>5. reader \in Reader
  BY DEF TypeOK
<1>6. reader.at = "paging" /\ UNCHANGED <<tables, clock, request, notes>>
  BY DEF LoadPage
<1>7. CASE Cardinality(page) < PageSize /\ reader' = [reader EXCEPT !.at = "done", !.before = None]
  BY <1>1, <1>3, <1>4, <1>5, <1>6, <1>7 DEF Reader
<1>8. ASSUME NEW oldest \in page, \A m \in page : oldest <= m, ~ Cardinality(page) < PageSize,
             reader' = [reader EXCEPT !.before = oldest]
      PROVE  /\ reader' \in Reader /\ reader'.room = reader.room
             /\ reader'.at = "paging" /\ reader'.before = oldest
  BY <1>1, <1>5, <1>6, <1>8 DEF Reader
<1>9. \/ Cardinality(page) < PageSize /\ reader' = [reader EXCEPT !.at = "done", !.before = None]
      \/ \E oldest \in page : /\ \A m \in page : oldest <= m
                              /\ ~ Cardinality(page) < PageSize
                              /\ reader' = [reader EXCEPT !.before = oldest]
  BY DEF LoadPage
<1>10. QED BY <1>1, <1>3, <1>4, <1>6, <1>7, <1>8, <1>9

LEMMA LoadPageStep ==
  ASSUME MessagesInv, LoadPage
  PROVE  MessagesInv'
<1>1. PICK page : page = Page(reader.room, reader.before)
  OBVIOUS
<1>2. /\ view' \in [Ids -> Content \cup {None}] /\ reader' \in Reader
      /\ \A m \in Ids : view'[m] # None => view[m] # None \/ Exists(m)
      /\ UNCHANGED <<tables, clock, request, notes>>
  BY <1>1, LoadPageEffect
<1>3. TypeOK'
  BY <1>2 DEF MessagesInv, TypeOK, tables, notes
<1>4. QED BY <1>2, <1>3, RoomStep DEF tables, Exists, IsMember, MessagesInv

LEMMA MessagesNext == MessagesInv /\ [Next]_vars => MessagesInv'
<1> SUFFICES ASSUME MessagesInv, [Next]_vars PROVE MessagesInv'
  OBVIOUS
<1>1. CASE UNCHANGED vars
  <2>1. TypeOK' /\ UNCHANGED <<rooms, members, messages, clock, request, view>>
    BY <1>1 DEF MessagesInv, TypeOK, vars, tables, readerVars, notes
  <2>2. QED BY <2>1, RoomStep DEF Exists, IsMember, MessagesInv
<1>2. ASSUME NEW p \in Requests,
             Send(p) \/ Edit(p) \/ Delete(p) \/ MarkAsRead(p) \/ Publish(p) \/ Crash(p)
      PROVE  MessagesInv'
  BY <1>2, SendCheckStep, SendInsertStep, SendBumpStep, EditReadStep, RewriteStep,
     DeleteReadStep, DeleteAuthorizeStep, ReadCheckStep, ReadFindStep, ReadSetStep,
     PublishStep, CrashStep DEF Send, Edit, Delete, MarkAsRead
<1>3. QED BY <1>1, <1>2, FollowStep, DropRoomStep, LeaveStep, LoadPageStep DEF Next

\* Whatever requests interleave or crash, rows and requests stay well formed, and what a
\* request is about to write is about an existing message of its room or a new id.
THEOREM MessagesStayWhole == Spec => []MessagesInv
<1>1. QED BY MessagesInit, MessagesNext, PTL DEF Spec

\* The rows, the requests and what the client knows are what the code takes them for.
THEOREM MessageTypes == Spec => []TypeOK
<1>1. MessagesInv => TypeOK
  BY DEF MessagesInv
<1>2. QED BY <1>1, MessagesStayWhole, PTL

-----------------------------------------------------------------------------
(* The kinds of steps, as far as rows and requests go                      *)

\* Messages stay as they are, or go with their room.
NothingNew ==
  \A m \in Ids : Exists(m)' => Exists(m) /\ messages'[m] = messages[m]

\* A request that carries neither a key nor news starts.
Starts(p) ==
  /\ request[p] = Idle
  /\ request'[p].at \in {"update", "authorize", "softDelete", "findRead"}
  /\ request'[p].key = None /\ request'[p].says = None
  /\ request'[p].at = "update" =>
       request'[p].id \in Ids /\ ~ messages[request'[p].id].deleted
  /\ UNCHANGED <<messages, lastMessageAt, jumbled, lastRead>>

\* A request goes on with what it carries.
StageOrder == {<<"bump", "publish">>, <<"authorize", "softDelete">>,
               <<"findRead", "setRead">>, <<"setRead", "publish">>}
Continues(p) ==
  /\ <<request[p].at, request'[p].at>> \in StageOrder
  /\ request'[p].id = request[p].id /\ request'[p].says = request[p].says
  /\ SameErrand(p)
  /\ IF request[p].at = "bump" THEN SendBump(p) ELSE UNCHANGED lastMessageAt
  /\ ReadSet(p) \/ UNCHANGED lastRead
  /\ UNCHANGED <<messages, jumbled>>

\* A request gives up before it has changed anything, or has published.
GivesUp(p) ==
  /\ Ends(p) /\ request[p].at \notin {"idle", "insert", "bump"}
  /\ request[p].at = "publish" => Publish(p)
  /\ UNCHANGED <<messages, lastMessageAt, jumbled, lastRead>>

Quiet(p) == Others(p) /\ (Starts(p) \/ Continues(p) \/ GivesUp(p))

LEMMA StartsEffect ==
  ASSUME MessagesInv, NEW p \in Requests, EditRead(p) \/ DeleteRead(p) \/ ReadCheck(p)
  PROVE  Quiet(p) /\ Starts(p)
<1>1. UNCHANGED <<messages, lastMessageAt, jumbled, lastRead>>
  BY DEF EditRead, DeleteRead, ReadCheck, tables, notes
<1>2. TypeOK
  BY DEF MessagesInv
<1>3. Idle.key = None /\ Idle.says = None
  BY DEF Idle
<1>4. CASE EditRead(p)
  <2>1. PICK m \in Ids, b \in Bodies :
          /\ Exists(m) /\ ~ messages[m].deleted
          /\ Start(p, [Idle EXCEPT !.at = "update", !.user = messages[m].sender,
                         !.room = messages[m].room, !.id = m, !.body = b])
    BY <1>4 DEF EditRead
  <2>2. messages[m] \in Row
    BY <1>2, <2>1, RowOfMessage
  <2> DEFINE q == [Idle EXCEPT !.at = "update", !.user = messages[m].sender,
                         !.room = messages[m].room, !.id = m, !.body = b]
  <2>3. /\ q \in Locals /\ q.at = "update" /\ q.id = m
        /\ q.key = Idle.key /\ q.says = Idle.says
    BY <2>2, IdleIsLocals DEF Locals, Stages, Row
  <2>4. Start(p, q)
    BY <2>1
  <2> HIDE DEF q
  <2>5. QED BY <1>1, <1>2, <1>3, <2>1, <2>3, <2>4, StartEffect DEF Quiet, Starts
<1>5. CASE DeleteRead(p)
  <2>1. PICK m \in Ids, u \in Users :
          /\ Exists(m)
          /\ Start(p, [Idle EXCEPT !.user = u, !.room = messages[m].room, !.id = m,
                !.at = IF messages[m].sender = u THEN "softDelete" ELSE "authorize"])
    BY <1>5 DEF DeleteRead
  <2>2. messages[m] \in Row
    BY <1>2, <2>1, RowOfMessage
  <2>3. PICK stage \in {"softDelete", "authorize"} :
          stage = IF messages[m].sender = u THEN "softDelete" ELSE "authorize"
    OBVIOUS
  <2> DEFINE q == [Idle EXCEPT !.user = u, !.room = messages[m].room, !.id = m, !.at = stage]
  <2>4. q \in Locals /\ q.at = stage /\ q.key = Idle.key /\ q.says = Idle.says
    BY <2>2, IdleIsLocals DEF Locals, Stages, Row
  <2>5. Start(p, q)
    BY <2>1, <2>3
  <2> HIDE DEF q
  <2>6. QED BY <1>1, <1>2, <1>3, <2>4, <2>5, StartEffect DEF Quiet, Starts
<1>6. CASE ReadCheck(p)
  <2>1. PICK r \in Rooms, u \in Users, m \in 1 .. clock :
          Start(p, [Idle EXCEPT !.at = "findRead", !.user = u, !.room = r, !.id = m])
    BY <1>6 DEF ReadCheck
  <2>2. m \in Ids
    BY <1>2, NoneIsNothing DEF TypeOK, Ids
  <2> DEFINE q == [Idle EXCEPT !.at = "findRead", !.user = u, !.room = r, !.id = m]
  <2>3. q \in Locals /\ q.at = "findRead" /\ q.key = Idle.key /\ q.says = Idle.says
    BY <2>2, IdleIsLocals DEF Locals, Stages
  <2>4. Start(p, q)
    BY <2>1
  <2> HIDE DEF q
  <2>5. QED BY <1>1, <1>2, <1>3, <2>3, <2>4, StartEffect DEF Quiet, Starts
<1>7. QED BY <1>4, <1>5, <1>6

LEMMA ContinuesEffect ==
  ASSUME MessagesInv, NEW p \in Requests,
         \/ SendBump(p) \/ DeleteAuthorize(p) \/ ReadFind(p) \/ ReadSet(p) \/ Publish(p)
  PROVE  Quiet(p)
<1>1. TypeOK
  BY DEF MessagesInv
<1>2. UNCHANGED <<messages, jumbled>>
  BY DEF SendBump, DeleteAuthorize, ReadFind, ReadSet, Publish, tables, notes
<1>3. {"publish", "softDelete", "setRead"} \subseteq Stages
  BY DEF Stages
<1>4. CASE SendBump(p)
  <2>1. request[p].at = "bump" /\ Goto(p, "publish") /\ UNCHANGED lastRead
    BY <1>4 DEF SendBump
  <2>2. QED BY <1>1, <1>2, <1>3, <1>4, <2>1, GotoEffect DEF Quiet, Continues, Moves, StageOrder
<1>5. CASE ReadSet(p)
  <2>1. request[p].at = "setRead" /\ Goto(p, "publish") /\ UNCHANGED lastMessageAt
    BY <1>5 DEF ReadSet
  <2>2. QED BY <1>1, <1>2, <1>3, <1>5, <2>1, GotoEffect DEF Quiet, Continues, Moves, StageOrder
<1>6. CASE DeleteAuthorize(p) \/ ReadFind(p)
  <2>1. /\ UNCHANGED <<lastMessageAt, lastRead>>
        /\ \/ request[p].at = "authorize" /\ Goto(p, "softDelete")
           \/ request[p].at = "findRead" /\ Goto(p, "setRead")
           \/ request[p].at \in {"authorize", "findRead"} /\ Fail(p)
    BY <1>6 DEF DeleteAuthorize, ReadFind, tables
  <2>2. CASE request[p].at = "authorize" /\ Goto(p, "softDelete")
    BY <1>1, <1>2, <1>3, <2>1, <2>2, GotoEffect DEF Quiet, Continues, Moves, StageOrder
  <2>3. CASE request[p].at = "findRead" /\ Goto(p, "setRead")
    BY <1>1, <1>2, <1>3, <2>1, <2>3, GotoEffect DEF Quiet, Continues, Moves, StageOrder
  <2>4. CASE request[p].at \in {"authorize", "findRead"} /\ Fail(p)
    BY <1>1, <1>2, <2>1, <2>4, FailEffect DEF Quiet, GivesUp, Ends
  <2>5. QED BY <2>1, <2>2, <2>3, <2>4
<1>7. CASE Publish(p)
  <2>1. request[p].at = "publish" /\ Fail(p) /\ UNCHANGED <<lastMessageAt, lastRead>>
    BY <1>7 DEF Publish, tables
  <2>2. QED BY <1>1, <1>2, <1>7, <2>1, FailEffect DEF Quiet, GivesUp, Ends
<1>8. QED BY <1>4, <1>5, <1>6, <1>7

\* Every step is of one of these kinds.
LEMMA Kinds ==
  ASSUME MessagesInv, [Next]_vars
  PROVE  \/ UNCHANGED request /\ NothingNew
         \/ \E p \in Requests :
              Quiet(p) \/ SendCheck(p) \/ SendInsert(p) \/ EditUpdate(p) \/ DeleteMark(p)
              \/ Crash(p)
<1>1. ASSUME NEW p \in Requests,
             Send(p) \/ Edit(p) \/ Delete(p) \/ MarkAsRead(p) \/ Publish(p) \/ Crash(p)
      PROVE  Quiet(p) \/ SendCheck(p) \/ SendInsert(p) \/ EditUpdate(p) \/ DeleteMark(p)
             \/ Crash(p)
  BY <1>1, StartsEffect, ContinuesEffect DEF Send, Edit, Delete, MarkAsRead
<1>2. ASSUME NEW r \in Rooms, DropRoom(r)
      PROVE  UNCHANGED request /\ NothingNew
  BY <1>2 DEF DropRoom, NothingNew, Exists
<1>3. CASE \/ UNCHANGED vars
           \/ LoadPage
           \/ \E r \in Rooms : Follow(r)
           \/ \E r \in Rooms, u \in Users : Leave(r, u)
  <2>1. UNCHANGED <<messages, request>>
    BY <1>3 DEF vars, tables, LoadPage, Follow, Leave
  <2>2. QED BY <2>1 DEF NothingNew, Exists
<1>4. QED BY <1>1, <1>2, <1>3 DEF Next

\* An edit keeps a deleted message deleted, and only an edit leaves a text in it.
LEMMA RewritesEffect ==
  ASSUME MessagesInv, NEW p \in Requests, EditUpdate(p) \/ DeleteMark(p)
  PROVE  /\ request[p].at \in {"update", "softDelete"}
         /\ UNCHANGED <<rooms, members, lastMessageAt, lastRead, clock, readerVars, jumbled>>
         /\ EditUpdate(p) => request[p].at = "update" /\ UNCHANGED raced
         /\ DeleteMark(p) =>
              raced' = raced \cup {x \in {request[p].id} : \E q \in Requests :
                                     request[q].at = "update" /\ request[q].id = request[p].id}
         /\ \/ Ends(p) /\ messages' = messages /\ unsettled' = unsettled
               /\ ~ Exists(request[p].id)
            \/ \E m \in Ids, body \in Bodies \cup {Blank}, deleted \in BOOLEAN :
                 /\ m = request[p].id /\ Tells(p, m, "publish")
                 /\ Rewritten(p, m, body, deleted)
                 /\ \/ EditUpdate(p) /\ deleted = messages[m].deleted
                    \/ deleted = TRUE /\ body = Blank
<1> USE DEF MessagesInv
<1>1. /\ request[p].at \in {"update", "softDelete"} /\ request[p] \in Locals
      /\ UNCHANGED <<rooms, members, lastMessageAt, lastRead, clock, readerVars, jumbled>>
  BY RequestFields DEF EditUpdate, DeleteMark
<1>2. PICK m \in Ids : m = request[p].id
  BY <1>1, RequestFields
<1>3. ASSUME NEW body \in Bodies \cup {Blank}, NEW deleted \in BOOLEAN, Rewrite(p, body, deleted)
      PROVE  \/ Ends(p) /\ messages' = messages /\ unsettled' = unsettled
                /\ ~ Exists(request[p].id)
             \/ Tells(p, m, "publish") /\ Rewritten(p, m, body, deleted)
  BY <1>1, <1>2, <1>3, RewriteEffect
<1>4. CASE EditUpdate(p)
  <2>1. PICK body \in Bodies \cup {Blank}, deleted \in BOOLEAN :
          Rewrite(p, body, deleted) /\ deleted = DeletedAfterEdit(m)
    BY <1>1, <1>2, <1>4 DEF EditUpdate, DeletedAfterEdit, Locals, Row, Exists, TypeOK
  <2>2. CASE Ends(p) /\ messages' = messages /\ unsettled' = unsettled
             /\ ~ Exists(request[p].id)
    BY <1>1, <1>4, <2>2 DEF EditUpdate, DeleteMark
  <2>3. CASE Tells(p, m, "publish") /\ Rewritten(p, m, body, deleted)
    <3>1. deleted = messages[m].deleted
      BY <2>1, <2>3, RowOfMessage DEF Rewritten, DeletedAfterEdit, Row
    <3>2. request[p].at = "update" /\ UNCHANGED raced /\ ~ DeleteMark(p)
      BY <1>4 DEF EditUpdate, DeleteMark
    <3>3. QED BY <1>1, <1>2, <1>4, <2>3, <3>1, <3>2
  <2>4. QED BY <1>3, <2>1, <2>2, <2>3
<1>5. CASE DeleteMark(p)
  <2>1. Rewrite(p, Blank, TRUE)
    BY <1>5 DEF DeleteMark, BodyDeleted
  <2>2. /\ ~ EditUpdate(p)
        /\ raced' = raced \cup {x \in {request[p].id} : \E q \in Requests :
                                  request[q].at = "update" /\ request[q].id = request[p].id}
    BY <1>5 DEF EditUpdate, DeleteMark
  <2>3. \/ Ends(p) /\ messages' = messages /\ unsettled' = unsettled /\ ~ Exists(request[p].id)
        \/ Tells(p, m, "publish") /\ Rewritten(p, m, Blank, TRUE)
    BY <1>3, <2>1
  <2>4. QED BY <1>1, <1>2, <2>2, <2>3
<1>6. QED BY <1>4, <1>5

\* A send that is let in.
LEMMA SendCheckEffect ==
  ASSUME MessagesInv, NEW p \in Requests, SendCheck(p)
  PROVE  /\ request[p] = Idle /\ Others(p)
         /\ request'[p].at = "insert" /\ request'[p].now = clock + 1
         /\ request'[p].says = None /\ request'[p].room \in Rooms
         /\ request'[p].key = None
            \/ ~ UsedElsewhere(request'[p].user, request'[p].key, request'[p].room)
         /\ jumbled' = jumbled \cup {x \in {request'[p].room} :
                                       \E q \in Requests : Sending(q, request'[p].room)}
         /\ clock \in Nat
         /\ UNCHANGED <<tables, readerVars, unsettled, raced>>
<1>1. PICK r \in Rooms, u \in Users, k \in Keys \cup {None}, b \in Bodies :
        /\ k = None \/ ~ UsedElsewhere(u, k, r)
        /\ clock < MaxSends
        /\ Start(p, [Idle EXCEPT !.at = "insert", !.user = u, !.room = r, !.key = k,
                                 !.id = clock + 1, !.now = clock + 1, !.body = b])
        /\ jumbled' = jumbled \cup {x \in {r} : \E q \in Requests : Sending(q, r)}
        /\ UNCHANGED <<tables, readerVars, unsettled, raced>>
  BY DEF SendCheck
<1>2. clock \in Nat /\ clock + 1 \in Ids /\ clock + 1 \in 0 .. MaxSends /\ TypeOK
  BY <1>1, NoneIsNothing DEF MessagesInv, TypeOK, Ids
<1> DEFINE q == [Idle EXCEPT !.at = "insert", !.user = u, !.room = r, !.key = k,
                             !.id = clock + 1, !.now = clock + 1, !.body = b]
<1>3. /\ q \in Locals /\ q.at = "insert" /\ q.user = u /\ q.room = r /\ q.key = k
      /\ q.now = clock + 1 /\ q.says = Idle.says
  BY <1>2, IdleIsLocals DEF Locals, Stages
<1>4. Start(p, q) /\ Idle.says = None
  BY <1>1 DEF Idle
<1> HIDE DEF q
<1>5. request'[p] = q /\ request[p] = Idle /\ Others(p)
  BY <1>2, <1>3, <1>4, StartEffect
<1>6. QED BY <1>1, <1>2, <1>3, <1>4, <1>5

LEMMA CrashEffect ==
  ASSUME MessagesInv, NEW p \in Requests, Crash(p)
  PROVE  /\ Ends(p) /\ request[p] # Idle
         /\ unsettled' = unsettled \cup {m \in Ids : reader # Away /\ Publishing(p, m)}
         /\ jumbled' = jumbled \cup {r \in Rooms : Sending(p, r)}
         /\ UNCHANGED <<tables, clock, readerVars, raced>>
BY FailEffect DEF Crash, MessagesInv

-----------------------------------------------------------------------------
(* Keys                                                                    *)

\* What a request carries: a key only in a send, and news only when it has some.
Carries(p) ==
  /\ request[p].key # None => request[p].at \in {"insert", "bump", "publish"}
  /\ request[p].says # None => request[p].at \in {"bump", "publish"}
CarriesInv == \A p \in Requests : Carries(p)

LEMMA CarriesNext == MessagesInv /\ CarriesInv /\ [Next]_vars => CarriesInv'
<1> SUFFICES ASSUME MessagesInv, CarriesInv, [Next]_vars, NEW x \in Requests
             PROVE  Carries(x)'
  BY DEF CarriesInv
<1>1. Carries(x)
  BY DEF CarriesInv
<1>2. CASE request'[x] = request[x]
  BY <1>1, <1>2 DEF Carries
<1>3. CASE request'[x] = Idle
  BY <1>3 DEF Carries, Idle
<1>4. CASE Quiet(x)
  BY <1>1, <1>3, <1>4 DEF Quiet, Starts, Continues, GivesUp, Ends, SameErrand, StageOrder, Carries
<1>5. CASE SendCheck(x)
  BY <1>5, SendCheckEffect DEF Carries
<1>6. CASE SendInsert(x)
  BY <1>1, <1>3, <1>6, SendInsertEffect DEF Tells, SameErrand, Ends, Carries
<1>7. CASE EditUpdate(x) \/ DeleteMark(x)
  BY <1>1, <1>3, <1>7, RewritesEffect DEF Tells, SameErrand, Ends, Carries
<1>8. CASE Crash(x)
  BY <1>3, <1>8, CrashEffect DEF Ends
<1>9. ASSUME NEW p \in Requests \ {x},
             Quiet(p) \/ SendCheck(p) \/ SendInsert(p) \/ EditUpdate(p) \/ DeleteMark(p)
             \/ Crash(p)
      PROVE  request'[x] = request[x]
  <2>1. Others(p)
    BY <1>9, SendCheckEffect, SendInsertEffect, RewritesEffect, CrashEffect DEF Quiet, Ends, Tells
  <2>2. QED BY <2>1 DEF Others
<1>10. QED BY <1>2, <1>4, <1>5, <1>6, <1>7, <1>8, <1>9, Kinds

\* A step that adds no row and lets no request answer anew keeps the keys.
LEMMA KeysKept ==
  ASSUME KeyInv,
         \A m \in Ids : Exists(m)' =>
           Exists(m) /\ messages'[m].key = messages[m].key
                     /\ messages'[m].sender = messages[m].sender,
         \A x \in Requests :
           request'[x].key # None /\ request'[x].at \in {"bump", "publish"} =>
             /\ request[x].at \in {"bump", "publish"}
             /\ request'[x].key = request[x].key /\ request'[x].user = request[x].user
             /\ request'[x].id = request[x].id,
         \A x \in Requests :
           request'[x].key # None /\ request'[x].at \in {"bump", "publish"} =>
             request'[x].id \in Ids
  PROVE  KeyInv'
<1>1. \A m, n \in Ids :
        /\ Exists(m)' /\ Exists(n)' /\ messages'[m].key # None
        /\ messages'[m].key = messages'[n].key /\ messages'[m].sender = messages'[n].sender
        => m = n
  BY DEF KeyInv
<1>2. ASSUME NEW x \in Requests, request'[x].key # None,
             request'[x].at \in {"bump", "publish"}, messages'[request'[x].id] # None
      PROVE  /\ messages'[request'[x].id].sender = request'[x].user
             /\ messages'[request'[x].id].key = request'[x].key
  <2>1. PICK m \in Ids : m = request'[x].id
    BY <1>2
  <2>2. Exists(m)' /\ Exists(m)
    BY <1>2, <2>1 DEF Exists
  <2>3. messages[m].sender = request[x].user /\ messages[m].key = request[x].key
    BY <1>2, <2>1, <2>2 DEF KeyInv
  <2>4. QED BY <1>2, <2>1, <2>2, <2>3
<1>3. QED BY <1>1, <1>2 DEF KeyInv, Exists

LEMMA KeyNext == MessagesInv /\ CarriesInv /\ KeyInv /\ [Next]_vars => KeyInv'
<1> SUFFICES ASSUME MessagesInv, CarriesInv, KeyInv, [Next]_vars PROVE KeyInv'
  OBVIOUS
<1>0. MessagesInv' /\ CarriesInv'
  BY MessagesNext, CarriesNext
<1>1. \A x \in Requests : request'[x].at # "idle" => request'[x].id \in Ids
  BY <1>0 DEF MessagesInv, TypeOK, RequestOK, HasLocals, Locals
<1>2. CASE UNCHANGED request /\ NothingNew
  BY <1>1, <1>2, KeysKept DEF NothingNew
<1>3. ASSUME NEW p \in Requests, Others(p), messages' = messages,
             request'[p].key # None /\ request'[p].at \in {"bump", "publish"} =>
               /\ request[p].at \in {"bump", "publish"}
               /\ request'[p].key = request[p].key /\ request'[p].user = request[p].user
               /\ request'[p].id = request[p].id
      PROVE  KeyInv'
  <2>1. \A m \in Ids : Exists(m)' => Exists(m) /\ messages'[m] = messages[m]
    BY <1>3 DEF Exists
  <2>2. QED BY <1>1, <1>3, <2>1, KeysKept DEF Others
<1>4. ASSUME NEW p \in Requests, Ends(p), messages' = messages PROVE KeyInv'
  BY <1>3, <1>4 DEF Ends, Idle
<1>5. ASSUME NEW p \in Requests, Quiet(p) PROVE KeyInv'
  <2>1. Others(p) /\ messages' = messages
    BY <1>5 DEF Quiet, Starts, Continues, GivesUp
  <2>2. Starts(p) => request'[p].key = None
    BY DEF Starts
  <2>3. CASE Continues(p)
    <3>1. Carries(p)
      BY DEF CarriesInv
    <3>2. QED BY <1>3, <2>1, <2>3, <3>1 DEF Continues, StageOrder, SameErrand, Carries
  <2>4. CASE GivesUp(p)
    BY <1>4, <2>1, <2>4 DEF GivesUp
  <2>5. QED BY <1>3, <1>5, <2>1, <2>2, <2>3, <2>4 DEF Quiet
<1>6. ASSUME NEW p \in Requests, SendCheck(p) PROVE KeyInv'
  BY <1>3, <1>6, SendCheckEffect DEF tables
<1>7. ASSUME NEW p \in Requests, SendInsert(p) PROVE KeyInv'
  <2>1. CASE Ends(p) /\ messages' = messages
    BY <1>4, <2>1
  <2>2. ASSUME NEW m \in Ids, Tells(p, m, "bump"),
               m \in Conflicting(request[p].user, request[p].key), messages' = messages
        PROVE  KeyInv'
    <3>1. \A n \in Ids : Exists(n)' <=> Exists(n)
      BY <2>2 DEF Exists
    <3>2. messages[m].sender = request[p].user /\ messages[m].key = request[p].key
      BY <2>2 DEF Conflicting
    <3>3. ASSUME NEW x \in Requests, request'[x].key # None,
                 request'[x].at \in {"bump", "publish"}, messages'[request'[x].id] # None
          PROVE  /\ messages'[request'[x].id].sender = request'[x].user
                 /\ messages'[request'[x].id].key = request'[x].key
      <4>1. CASE x = p
        BY <2>2, <3>2, <4>1 DEF Tells, SameErrand
      <4>2. CASE x # p
        BY <2>2, <3>3, <4>2 DEF Tells, Others, KeyInv, Exists
      <4>3. QED BY <4>1, <4>2
    <3>4. QED BY <2>2, <3>1, <3>3 DEF KeyInv, Exists
  <2>3. ASSUME NEW m \in Ids, Tells(p, m, "bump"), Inserted(p, m),
               Conflicting(request[p].user, request[p].key) = {}
        PROVE  KeyInv'
    <3>1. request[p].at = "insert"
      BY <1>7 DEF SendInsert
    <3>2. /\ \A n \in Ids \ {m} : messages'[n] = messages[n] /\ (Exists(n)' <=> Exists(n))
          /\ messages'[m].sender = request[p].user /\ messages'[m].key = request[p].key
      BY <2>3 DEF Inserted, Exists
    <3>3. ASSUME NEW n \in Ids \ {m}, Exists(n), messages[n].key = request[p].key,
                 messages[n].sender = request[p].user, request[p].key # None
          PROVE  FALSE
      BY <2>3, <3>3 DEF Conflicting
    <3>4. \A n, o \in Ids :
            /\ Exists(n)' /\ Exists(o)' /\ messages'[n].key # None
            /\ messages'[n].key = messages'[o].key /\ messages'[n].sender = messages'[o].sender
            => n = o
      BY <3>2, <3>3 DEF KeyInv
    <3>5. ASSUME NEW x \in Requests, request'[x].key # None,
                 request'[x].at \in {"bump", "publish"}, messages'[request'[x].id] # None
          PROVE  /\ messages'[request'[x].id].sender = request'[x].user
                 /\ messages'[request'[x].id].key = request'[x].key
      <4>1. CASE x = p
        BY <2>3, <3>2, <4>1 DEF Tells, SameErrand
      <4>2. CASE x # p
        <5>1. request'[x] = request[x]
          BY <2>3, <4>2 DEF Tells, Others
        <5>2. PICK n \in Ids : n = request[x].id
          BY <1>1, <3>5, <5>1
        <5>3. n # m
          BY <2>3, <3>1, <3>5, <4>2, <5>1, <5>2, RequestFields DEF IsNew, Inserted
        <5>4. QED BY <3>2, <3>5, <5>1, <5>2, <5>3 DEF KeyInv, Exists
      <4>3. QED BY <4>1, <4>2
    <3>6. QED BY <3>4, <3>5 DEF KeyInv, Exists
  <2>4. QED BY <1>7, <2>1, <2>2, <2>3, SendInsertEffect
<1>8. ASSUME NEW p \in Requests, EditUpdate(p) \/ DeleteMark(p) PROVE KeyInv'
  <2>1. CASE Ends(p) /\ messages' = messages
    BY <1>4, <2>1
  <2>2. ASSUME NEW m \in Ids, NEW body, NEW deleted, Tells(p, m, "publish"),
               Rewritten(p, m, body, deleted)
        PROVE  KeyInv'
    <3>1. \A n \in Ids : Exists(n)' =>
            Exists(n) /\ messages'[n].key = messages[n].key
                      /\ messages'[n].sender = messages[n].sender
      BY <2>2 DEF Rewritten, Exists
    <3>2. request[p].at \in {"update", "softDelete"} /\ Carries(p)
      BY <1>8, RewritesEffect DEF CarriesInv
    <3>3. request'[p].key = None
      BY <2>2, <3>2 DEF Tells, SameErrand, Carries
    <3>4. QED BY <1>1, <2>2, <3>1, <3>3, KeysKept DEF Tells, Others
  <2>3. QED BY <1>8, <2>1, <2>2, RewritesEffect
<1>9. ASSUME NEW p \in Requests, Crash(p) PROVE KeyInv'
  BY <1>4, <1>9, CrashEffect DEF tables
<1>10. QED BY <1>2, <1>5, <1>6, <1>7, <1>8, <1>9, Kinds

\* A send, first attempt or retry, answers with the one message its sender stored
\* under the key (send-message.ts; insert in pg-message-repository.ts).
THEOREM AnswersByKey == Spec => []AnswersTheMessageOfTheKey
<1>1. Init => CarriesInv /\ KeyInv
  BY DEF Init, Idle, CarriesInv, Carries, KeyInv, Exists
<1>2. MessagesInv /\ KeyInv => AnswersTheMessageOfTheKey
  <2>1. SUFFICES ASSUME MessagesInv, KeyInv, NEW p \in Requests, request[p].key # None,
                        request[p].at \in {"bump", "publish"}, Exists(request[p].id)
                 PROVE  /\ Conflicting(request[p].user, request[p].key) = {request[p].id}
                        /\ messages[request[p].id].sender = request[p].user
    BY DEF AnswersTheMessageOfTheKey
  <2>2. request[p].id \in Ids
    BY <2>1, RequestFields
  <2>3. QED BY <2>1, <2>2 DEF KeyInv, Conflicting
<1>3. QED BY <1>1, <1>2, MessagesStayWhole, CarriesNext, KeyNext, PTL DEF Spec

-----------------------------------------------------------------------------
(* Rooms of the events                                                     *)

\* As long as no key is used in two rooms, the row a key leads a send to is in the
\* room of the send.
LEMMA RoomNext ==
  ASSUME "rekey" \notin Operations
  PROVE  MessagesInv /\ CarriesInv /\ RoomInv /\ [Next]_vars => RoomInv'
<1> DEFINE KeyRoom(x) ==
      LET q == request[x] IN
      q.at = "insert" /\ q.key # None =>
        /\ \A m \in Conflicting(q.user, q.key) : messages[m].room = q.room
        /\ \A y \in Requests : /\ request[y].at = "insert"
                               /\ request[y].user = q.user /\ request[y].key = q.key
                               => request[y].room = q.room
<1> DEFINE EventRoom(x) ==
      LET q == request[x] IN
      q.at \in {"bump", "publish"} /\ Exists(q.id) => messages[q.id].room = q.room
<1> SUFFICES ASSUME MessagesInv, CarriesInv, RoomInv, [Next]_vars PROVE RoomInv'
  OBVIOUS
<1>1. \A x \in Requests : KeyRoom(x) /\ EventRoom(x)
  BY DEF RoomInv
<1>2. MessagesInv'
  BY MessagesNext
<1>3. \A x \in Requests : request'[x].at # "idle" => request'[x].id \in Ids
  BY <1>2 DEF MessagesInv, TypeOK, RequestOK, HasLocals, Locals
\* A step that adds no row for a key.
<1>4. ASSUME \A m \in Ids : messages'[m] # None =>
               /\ messages[m] # None /\ messages'[m].room = messages[m].room
               /\ messages'[m].key = messages[m].key
               /\ messages'[m].sender = messages[m].sender,
             \A x \in Requests : request'[x].at = "insert" => request'[x] = request[x],
             \A x \in Requests : request'[x].at \in {"bump", "publish"} =>
               \/ request[x].at \in {"bump", "publish"} /\ request'[x].id = request[x].id
                  /\ request'[x].room = request[x].room
               \/ messages'[request'[x].id] # None =>
                    messages[request'[x].id].room = request'[x].room
      PROVE  RoomInv'
  <2>1. ASSUME NEW x \in Requests PROVE KeyRoom(x)'
    <3>1. SUFFICES ASSUME request'[x].at = "insert", request'[x].key # None
                   PROVE  KeyRoom(x)'
      OBVIOUS
    <3>2. request'[x] = request[x] /\ KeyRoom(x)
      BY <1>1, <1>4, <3>1
    <3>3. \A y \in Requests : request'[y].at = "insert" => request'[y] = request[y]
      BY <1>4
    <3>4. \A m \in Ids : messages'[m] # None /\ messages'[m].key = request'[x].key
                         /\ messages'[m].sender = request'[x].user
                         => messages'[m].room = request'[x].room
      BY <1>4, <3>1, <3>2 DEF Conflicting, Exists
    <3>5. QED BY <3>1, <3>2, <3>3, <3>4 DEF Conflicting, Exists
  <2>2. ASSUME NEW x \in Requests PROVE EventRoom(x)'
    <3>1. SUFFICES ASSUME request'[x].at \in {"bump", "publish"},
                          messages'[request'[x].id] # None
                   PROVE  messages'[request'[x].id].room = request'[x].room
      BY DEF Exists
    <3>2. PICK m \in Ids : m = request'[x].id
      BY <1>3, <3>1
    <3>3. messages[m] # None /\ messages'[m].room = messages[m].room
      BY <1>4, <3>1, <3>2
    <3>4. messages[m].room = request'[x].room
      BY <1>1, <1>4, <3>1, <3>2, <3>3 DEF Exists
    <3>5. QED BY <3>2, <3>3, <3>4
  <2>3. QED BY <2>1, <2>2 DEF RoomInv
<1>5. CASE UNCHANGED request /\ NothingNew
  <2>1. \A m \in Ids : messages'[m] # None => messages[m] # None /\ messages'[m] = messages[m]
    BY <1>5 DEF NothingNew, Exists
  <2>2. QED BY <1>4, <1>5, <2>1
<1>6. ASSUME NEW p \in Requests, Ends(p), messages' = messages PROVE RoomInv'
  <2>1. \A x \in Requests : request'[x] = request[x] \/ request'[x].at = "idle"
    BY <1>6 DEF Ends, Others, Idle
  <2>2. QED BY <1>4, <1>6, <2>1
<1>7. ASSUME NEW p \in Requests, Quiet(p) PROVE RoomInv'
  <2>1. Others(p) /\ messages' = messages
    BY <1>7 DEF Quiet, Starts, Continues, GivesUp
  <2>2. CASE Starts(p)
    <3>1. request'[p].at \notin {"insert", "bump", "publish"}
      BY <2>2 DEF Starts
    <3>2. QED BY <1>4, <2>1, <3>1 DEF Others
  <2>3. CASE Continues(p)
    <3>1. /\ request'[p].at # "insert"
          /\ request'[p].id = request[p].id /\ request'[p].room = request[p].room
          /\ request'[p].at = "publish" => request[p].at \in {"bump", "setRead"}
          /\ request'[p].at # "bump"
      BY <2>3 DEF Continues, StageOrder, SameErrand
    <3>2. request[p].at = "setRead" /\ messages[request[p].id] # None =>
            messages[request[p].id].room = request[p].room
      BY RequestFields DEF AboutItsRoom, Exists
    <3>3. QED BY <1>4, <2>1, <3>1, <3>2 DEF Others
  <2>4. CASE GivesUp(p)
    BY <1>6, <2>1, <2>4 DEF GivesUp
  <2>5. QED BY <1>7, <2>2, <2>3, <2>4 DEF Quiet
<1>8. ASSUME NEW p \in Requests, SendCheck(p) PROVE RoomInv'
  <2>1. /\ messages' = messages /\ Others(p) /\ request'[p].at = "insert"
        /\ request[p] = Idle
        /\ \/ request'[p].key = None
           \/ ~ UsedElsewhere(request'[p].user, request'[p].key, request'[p].room)
    BY <1>8, SendCheckEffect DEF tables
  <2>2. request'[p].key # None =>
          /\ \A m \in Ids : messages[m] # None /\ messages[m].sender = request'[p].user
                            /\ messages[m].key = request'[p].key
                            => messages[m].room = request'[p].room
          /\ \A y \in Requests : /\ request[y].at \in {"insert", "bump"}
                                 /\ request[y].user = request'[p].user
                                 /\ request[y].key = request'[p].key
                                 => request[y].room = request'[p].room
    BY <2>1 DEF UsedElsewhere, Exists
  <2>3. ASSUME NEW x \in Requests PROVE KeyRoom(x)'
    <3>1. CASE x = p
      BY <2>1, <2>2, <3>1 DEF Others, Conflicting, Exists
    <3>2. CASE x # p
      <4>1. request'[x] = request[x]
        BY <2>1, <3>2 DEF Others
      <4>2. SUFFICES ASSUME request[x].at = "insert", request[x].key # None
                     PROVE  KeyRoom(x)'
        BY <4>1
      <4>3. \A m \in Ids : messages'[m] # None /\ messages'[m].key = request'[x].key
                           /\ messages'[m].sender = request'[x].user
                           => messages'[m].room = request'[x].room
        BY <1>1, <2>1, <4>1, <4>2 DEF Conflicting, Exists
      <4>4. \A y \in Requests : /\ request'[y].at = "insert"
                                /\ request'[y].user = request'[x].user
                                /\ request'[y].key = request'[x].key
                                => request'[y].room = request'[x].room
        BY <1>1, <2>1, <2>2, <4>1, <4>2 DEF Others
      <4>5. QED BY <4>3, <4>4 DEF Conflicting, Exists
    <3>3. QED BY <3>1, <3>2
  <2>4. ASSUME NEW x \in Requests PROVE EventRoom(x)'
    <3>1. SUFFICES ASSUME request'[x].at \in {"bump", "publish"}
                   PROVE  EventRoom(x)'
      OBVIOUS
    <3>2. request'[x] = request[x]
      BY <2>1, <3>1 DEF Others
    <3>3. QED BY <1>1, <2>1, <3>2 DEF Exists
  <2>5. QED BY <2>3, <2>4 DEF RoomInv
<1>9. ASSUME NEW p \in Requests, SendInsert(p) PROVE RoomInv'
  <2>1. request[p].at = "insert"
    BY <1>9 DEF SendInsert
  <2>2. CASE Ends(p) /\ messages' = messages
    BY <1>6, <2>2
  <2>3. ASSUME NEW m \in Ids, Tells(p, m, "bump"),
               m \in Conflicting(request[p].user, request[p].key), messages' = messages
        PROVE  RoomInv'
    <3>1. messages[m].room = request[p].room
      BY <1>1, <2>1, <2>3 DEF Conflicting
    <3>2. QED BY <1>4, <2>1, <2>3, <3>1 DEF Tells, SameErrand, Others
  <2>4. ASSUME NEW m \in Ids, Tells(p, m, "bump"), Inserted(p, m),
               Conflicting(request[p].user, request[p].key) = {}
        PROVE  RoomInv'
    <3>1. /\ \A n \in Ids \ {m} : messages'[n] = messages[n]
          /\ messages'[m].sender = request[p].user /\ messages'[m].key = request[p].key
          /\ messages'[m].room = request[p].room /\ m = request[p].id
          /\ request'[p].at = "bump" /\ request'[p].id = m
          /\ request'[p].room = request[p].room
          /\ \A x \in Requests \ {p} : request'[x] = request[x]
      BY <2>4 DEF Inserted, Tells, SameErrand, Others
    <3>2. ASSUME NEW x \in Requests PROVE KeyRoom(x)'
      <4>1. SUFFICES ASSUME request'[x].at = "insert", request'[x].key # None
                     PROVE  KeyRoom(x)'
        OBVIOUS
      <4>2. x # p /\ request'[x] = request[x]
        BY <3>1, <4>1
      <4>3. \A n \in Ids : messages'[n] # None /\ messages'[n].key = request'[x].key
                           /\ messages'[n].sender = request'[x].user
                           => messages'[n].room = request'[x].room
        <5>1. TAKE n \in Ids
        <5>2. HAVE messages'[n] # None /\ messages'[n].key = request'[x].key
                   /\ messages'[n].sender = request'[x].user
        <5>3. CASE n = m
          BY <1>1, <2>1, <3>1, <4>1, <4>2, <5>2, <5>3
        <5>4. CASE n # m
          BY <1>1, <3>1, <4>1, <4>2, <5>2, <5>4 DEF Conflicting, Exists
        <5>5. QED BY <5>3, <5>4
      <4>4. \A y \in Requests : /\ request'[y].at = "insert"
                                /\ request'[y].user = request'[x].user
                                /\ request'[y].key = request'[x].key
                                => request'[y].room = request'[x].room
        BY <1>1, <3>1, <4>1, <4>2
      <4>5. QED BY <4>3, <4>4 DEF Conflicting, Exists
    <3>3. ASSUME NEW x \in Requests PROVE EventRoom(x)'
      <4>1. CASE x = p
        BY <3>1, <4>1 DEF Exists
      <4>2. CASE x # p
        <5>1. request'[x] = request[x]
          BY <3>1, <4>2
        <5>2. SUFFICES ASSUME request[x].at \in {"bump", "publish"}
                       PROVE  EventRoom(x)'
          BY <5>1
        <5>3. PICK n \in Ids : n = request[x].id
          BY <5>2, RequestFields
        <5>4. n # m
          BY <2>1, <3>1, <4>2, <5>2, <5>3, RequestFields DEF IsNew
        <5>5. QED BY <1>1, <3>1, <5>1, <5>3, <5>4 DEF Exists
      <4>3. QED BY <4>1, <4>2
    <3>4. QED BY <3>2, <3>3 DEF RoomInv
  <2>5. QED BY <1>9, <2>2, <2>3, <2>4, SendInsertEffect
<1>10. ASSUME NEW p \in Requests, EditUpdate(p) \/ DeleteMark(p) PROVE RoomInv'
  <2>1. CASE Ends(p) /\ messages' = messages
    BY <1>6, <2>1
  <2>2. ASSUME NEW m \in Ids, m = request[p].id, NEW body, NEW deleted,
               Tells(p, m, "publish"), Rewritten(p, m, body, deleted)
        PROVE  RoomInv'
    <3>1. \A n \in Ids : messages'[n] # None =>
            /\ messages[n] # None /\ messages'[n].room = messages[n].room
            /\ messages'[n].key = messages[n].key
            /\ messages'[n].sender = messages[n].sender
      BY <2>2 DEF Rewritten, Exists
    <3>2. messages[m].room = request[p].room
      BY <1>10, <2>2, RequestFields, RewritesEffect DEF AboutItsRoom, Rewritten
    <3>3. QED BY <1>4, <2>2, <3>1, <3>2 DEF Tells, SameErrand, Others
  <2>3. QED BY <1>10, <2>1, <2>2, RewritesEffect
<1>11. ASSUME NEW p \in Requests, Crash(p) PROVE RoomInv'
  BY <1>6, <1>11, CrashEffect DEF tables
<1>12. QED BY <1>5, <1>7, <1>8, <1>9, <1>10, <1>11, Kinds

\* Events go to the room of their message (send-message.ts, edit-message.ts,
\* delete-message.ts, mark-as-read.ts), if clients use a key in one room only.
THEOREM EventsInTheirRoom ==
  ASSUME "rekey" \notin Operations
  PROVE  Spec => []EventsStayInTheirRoom
<1>1. Init => CarriesInv /\ RoomInv
  BY DEF Init, Idle, CarriesInv, Carries, RoomInv, Exists, Conflicting
<1>2. RoomInv => EventsStayInTheirRoom
  BY DEF RoomInv, EventsStayInTheirRoom
<1>3. MessagesInv /\ CarriesInv /\ RoomInv /\ [Next]_vars => RoomInv'
  BY RoomNext
<1>4. QED BY <1>1, <1>2, <1>3, MessagesStayWhole, CarriesNext, PTL DEF Spec

-----------------------------------------------------------------------------
(* Deleted messages                                                        *)

\* A step that rewrites no row and begins no edit of a deleted message.
LEMMA BlanksKept ==
  ASSUME BlankInv, NothingNew, raced \subseteq raced',
         \A x \in Requests : request'[x].at = "update" =>
           \/ request'[x] = request[x] /\ request[x].id \in Ids
           \/ request'[x].id \in Ids /\ ~ messages[request'[x].id].deleted
  PROVE  BlankInv'
<1>1. DeletedIsBlank'
  BY DEF BlankInv, DeletedIsBlank, NothingNew, Exists
<1>2. ASSUME NEW x \in Requests, request'[x].at = "update",
             messages'[request'[x].id] # None, messages'[request'[x].id].deleted
      PROVE  request'[x].id \in raced'
  <2>1. PICK m \in Ids : m = request'[x].id
    BY <1>2
  <2>2. messages[m] # None /\ messages'[m] = messages[m]
    BY <1>2, <2>1 DEF NothingNew, Exists
  <2>3. QED BY <1>2, <2>1, <2>2 DEF BlankInv, Exists
<1>3. QED BY <1>1, <1>2 DEF BlankInv, Exists

LEMMA BlankNext == MessagesInv /\ BlankInv /\ [Next]_vars => BlankInv'
<1> SUFFICES ASSUME MessagesInv, BlankInv, [Next]_vars PROVE BlankInv'
  OBVIOUS
<1>1. \A x \in Requests : request[x].at = "update" => request[x].id \in Ids
  BY RequestFields
<1>2. raced \subseteq raced'
  <2>1. ASSUME NEW p \in Requests, Send(p) \/ Publish(p) \/ Crash(p) PROVE raced \subseteq raced'
    BY <2>1 DEF notes, Send, SendCheck, SendInsert, SendBump, Publish, Crash
  <2>2. ASSUME NEW p \in Requests, Edit(p) \/ Delete(p) PROVE raced \subseteq raced'
    BY <2>2 DEF notes, Edit, EditRead, EditUpdate, Delete, DeleteRead, DeleteAuthorize, DeleteMark
  <2>3. ASSUME NEW p \in Requests, MarkAsRead(p) PROVE raced \subseteq raced'
    BY <2>3 DEF notes, MarkAsRead, ReadCheck, ReadFind, ReadSet
  <2>4. QED
    BY <2>1, <2>2, <2>3 DEF Next, vars, notes, Follow, DropRoom, Leave, LoadPage
<1>3. CASE UNCHANGED request /\ NothingNew
  BY <1>1, <1>2, <1>3, BlanksKept
<1>4. ASSUME NEW p \in Requests, Others(p), messages' = messages,
             request'[p].at = "update" =>
               request'[p].id \in Ids /\ ~ messages[request'[p].id].deleted
      PROVE  BlankInv'
  <2>1. NothingNew
    BY <1>4 DEF NothingNew, Exists
  <2>2. QED BY <1>1, <1>2, <1>4, <2>1, BlanksKept DEF Others
<1>5. ASSUME NEW p \in Requests,
             \/ Quiet(p) \/ SendCheck(p)
             \/ Ends(p) /\ messages' = messages
      PROVE  BlankInv'
  <2>1. CASE Quiet(p)
    BY <1>4, <2>1 DEF Quiet, Starts, Continues, GivesUp, StageOrder, Ends, Idle
  <2>2. CASE SendCheck(p)
    BY <1>4, <2>2, SendCheckEffect DEF tables
  <2>3. CASE Ends(p) /\ messages' = messages
    BY <1>4, <2>3 DEF Ends, Idle
  <2>4. QED BY <1>5, <2>1, <2>2, <2>3
<1>6. ASSUME NEW p \in Requests, SendInsert(p) PROVE BlankInv'
  <2>1. request[p].at = "insert"
    BY <1>6 DEF SendInsert
  <2>2. ASSUME NEW m \in Ids, Tells(p, m, "bump"), messages' = messages PROVE BlankInv'
    BY <1>4, <2>2 DEF Tells
  <2>3. ASSUME NEW m \in Ids, Tells(p, m, "bump"), Inserted(p, m) PROVE BlankInv'
    <3>1. /\ \A n \in Ids \ {m} : messages'[n] = messages[n]
          /\ messages'[m].deleted = FALSE
          /\ request'[p].at = "bump" /\ m = request[p].id
          /\ \A x \in Requests \ {p} : request'[x] = request[x]
      BY <2>3 DEF Inserted, Tells, Others
    <3>2. DeletedIsBlank'
      BY <1>2, <3>1 DEF BlankInv, DeletedIsBlank, Exists
    <3>3. ASSUME NEW x \in Requests, request'[x].at = "update",
                 messages'[request'[x].id] # None, messages'[request'[x].id].deleted
          PROVE  request'[x].id \in raced'
      <4>1. x # p /\ request'[x] = request[x]
        BY <3>1, <3>3
      <4>2. PICK n \in Ids : n = request[x].id
        BY <1>1, <3>3, <4>1
      <4>3. n # m
        BY <3>1, <3>3, <4>1, <4>2
      <4>4. QED BY <1>2, <3>1, <3>3, <4>1, <4>2, <4>3 DEF BlankInv, Exists
    <3>4. QED BY <3>2, <3>3 DEF BlankInv, Exists
  <2>4. QED BY <1>5, <1>6, <2>2, <2>3, SendInsertEffect
<1>7. ASSUME NEW p \in Requests, EditUpdate(p) \/ DeleteMark(p) PROVE BlankInv'
  <2>1. ASSUME NEW m \in Ids, m = request[p].id, NEW body, NEW deleted,
               Tells(p, m, "publish"), Rewritten(p, m, body, deleted),
               \/ EditUpdate(p) /\ deleted = messages[m].deleted
               \/ deleted = TRUE /\ body = Blank
        PROVE  BlankInv'
    <3>1. /\ \A n \in Ids \ {m} : messages'[n] = messages[n]
          /\ messages'[m].body = body /\ messages'[m].deleted = deleted
          /\ Exists(m) /\ request'[p].at = "publish"
          /\ \A x \in Requests \ {p} : request'[x] = request[x]
      BY <2>1 DEF Rewritten, Tells, Others
    <3>2. \/ /\ request[p].at = "update" /\ deleted = messages[m].deleted
          \/ /\ deleted = TRUE /\ body = Blank
             /\ \A q \in Requests : request[q].at = "update" /\ request[q].id = m => m \in raced'
      <4>1. CASE EditUpdate(p) /\ deleted = messages[m].deleted
        BY <4>1 DEF EditUpdate
      <4>2. CASE deleted = TRUE /\ body = Blank /\ DeleteMark(p)
        BY <2>1, <4>2, RewritesEffect
      <4>3. CASE EditUpdate(p) /\ deleted = TRUE /\ body = Blank
        <5>1. Rewrite(p, request[p].body, DeletedAfterEdit(m)) /\ request[p].at = "update"
          BY <2>1, <4>3 DEF EditUpdate
        <5>2. messages'[m].deleted = messages[m].deleted
          <6>1. messages[m] \in Row
            BY <3>1, RowOfMessage DEF MessagesInv
          <6>2. messages' = [messages EXCEPT ![m] =
                  [messages[m] EXCEPT !.body = request[p].body, !.deleted = messages[m].deleted]]
            BY <2>1, <3>1, <5>1, <6>1 DEF Rewrite, DeletedAfterEdit, Row
          <6>3. QED BY <6>1, <6>2 DEF Row, MessagesInv, TypeOK
        <5>3. QED BY <3>1, <5>1, <5>2
      <4>4. QED BY <1>7, <2>1, <4>1, <4>2, <4>3
    <3>3. DeletedIsBlank'
      <4>1. ASSUME messages'[m].deleted, messages'[m].body # Blank PROVE m \in raced'
        BY <1>2, <2>1, <3>1, <3>2, <4>1 DEF BlankInv
      <4>2. QED BY <1>2, <3>1, <4>1 DEF BlankInv, DeletedIsBlank, Exists
    <3>4. ASSUME NEW x \in Requests, request'[x].at = "update",
                 messages'[request'[x].id] # None, messages'[request'[x].id].deleted
          PROVE  request'[x].id \in raced'
      <4>1. x # p /\ request'[x] = request[x]
        BY <3>1, <3>4
      <4>2. PICK n \in Ids : n = request[x].id
        BY <1>1, <3>4, <4>1
      <4>3. CASE n = m
        <5>1. request[x].at = "update" /\ request[x].id = m /\ request'[x].id = m
          BY <3>4, <4>1, <4>2, <4>3
        <5>2. messages'[m].deleted
          BY <3>4, <5>1
        <5>3. CASE deleted = messages[m].deleted
          BY <1>2, <3>1, <5>1, <5>2, <5>3 DEF BlankInv
        <5>4. QED BY <3>2, <5>1, <5>3
      <4>4. CASE n # m
        BY <1>2, <3>1, <3>4, <4>1, <4>2, <4>4 DEF BlankInv, Exists
      <4>5. QED BY <4>3, <4>4
    <3>5. QED BY <3>3, <3>4 DEF BlankInv, Exists
  <2>2. QED BY <1>5, <1>7, <2>1, RewritesEffect
<1>8. ASSUME NEW p \in Requests, Crash(p) PROVE BlankInv'
  BY <1>5, <1>8, CrashEffect DEF tables
<1>9. QED BY <1>3, <1>5, <1>6, <1>7, <1>8, Kinds

\* Only an edit that had passed its checks leaves a text in a deleted message
\* (edit-message.ts; update in pg-message-repository.ts).
THEOREM DeletedMessagesAreBlank == Spec => []DeletedIsBlank
<1>1. Init => BlankInv
  BY DEF Init, Idle, BlankInv, DeletedIsBlank, Exists
<1>2. BlankInv => DeletedIsBlank
  BY DEF BlankInv
<1>3. QED BY <1>1, <1>2, MessagesStayWhole, BlankNext, PTL DEF Spec

\* No step brings a deleted message back.
THEOREM TheDeletedStayDeleted == Spec => DeletedStaysDeleted
<1> DEFINE StaysDeleted ==
      \A m \in Ids : Exists(m) /\ messages[m].deleted /\ Exists(m)' => messages'[m].deleted
<1>1. MessagesInv /\ [Next]_vars => StaysDeleted
  <2> SUFFICES ASSUME MessagesInv, [Next]_vars PROVE StaysDeleted
    OBVIOUS
  <2>1. CASE NothingNew
    BY <2>1 DEF NothingNew
  <2>2. CASE messages' = messages
    BY <2>2
  <2>3. ASSUME NEW p \in Requests, SendInsert(p) PROVE StaysDeleted
    <3>1. ASSUME NEW m \in Ids, Inserted(p, m) PROVE StaysDeleted
      BY <3>1 DEF Inserted
    <3>2. QED BY <2>2, <2>3, <3>1, SendInsertEffect
  <2>4. ASSUME NEW p \in Requests, EditUpdate(p) \/ DeleteMark(p) PROVE StaysDeleted
    <3>1. ASSUME NEW m \in Ids, NEW body, NEW deleted, Rewritten(p, m, body, deleted),
                 deleted = messages[m].deleted \/ deleted = TRUE
          PROVE  StaysDeleted
      BY <3>1 DEF Rewritten
    <3>2. QED BY <2>2, <2>4, <3>1, RewritesEffect
  <2>5. ASSUME NEW p \in Requests, Quiet(p) \/ SendCheck(p) \/ Crash(p) PROVE StaysDeleted
    <3>1. messages' = messages
      BY <2>5, SendCheckEffect, CrashEffect DEF Quiet, Starts, Continues, GivesUp, tables
    <3>2. QED BY <2>2, <3>1
  <2>6. QED BY <2>1, <2>3, <2>4, <2>5, Kinds
<1>2. QED BY <1>1, MessagesStayWhole, PTL DEF Spec, DeletedStaysDeleted

-----------------------------------------------------------------------------
(* The order of the room list                                              *)

\* A step that adds no row, no send and no time: what is left of the room's messages
\* is as new as it was, and a send that ends leaves a time or an overlap behind.
LEMMA LatestKept ==
  ASSUME LatestInv, jumbled \subseteq jumbled',
         \A m \in Ids : messages'[m] # None =>
           messages[m] # None /\ messages'[m].room = messages[m].room,
         \A x \in Requests, r \in Rooms : Sending(x, r)' =>
           Sending(x, r) /\ request'[x].now = request[x].now,
         \A m \in Ids, r \in Rooms : messages'[m] # None /\ messages[m].room = r =>
           \/ r \in jumbled'
           \/ lastMessageAt'[r] >= m
           \/ /\ lastMessageAt'[r] = lastMessageAt[r]
              /\ \A x \in Requests : Sending(x, r) => Sending(x, r)'
  PROVE  LatestInv'
<1>1. ASSUME NEW m \in Ids, NEW r \in Rooms, messages'[m] # None, messages'[m].room = r
      PROVE  r \in jumbled' \/ (\E x \in Requests : Sending(x, r)') \/ lastMessageAt'[r] >= m
  <2>1. messages[m] # None /\ messages[m].room = r
    BY <1>1
  <2>2. r \in jumbled \/ (\E x \in Requests : Sending(x, r)) \/ lastMessageAt[r] >= m
    BY <2>1 DEF LatestInv, LatestIn, Exists
  <2>3. QED BY <1>1, <2>1, <2>2
<1>2. ASSUME NEW r \in Rooms \ jumbled', NEW p \in Requests, Sending(p, r)'
      PROVE  /\ \A x \in Requests : Sending(x, r)' => x = p
             /\ \A m \in Ids : messages'[m] # None /\ messages'[m].room = r =>
                  m <= request'[p].now
  <2>1. r \in Rooms \ jumbled /\ Sending(p, r) /\ request'[p].now = request[p].now
    BY <1>2
  <2>2. QED BY <1>2, <2>1 DEF LatestInv, Exists
<1>3. QED BY <1>1, <1>2 DEF LatestInv, LatestIn, Exists

LEMMA LatestNext == MessagesInv /\ LatestInv /\ [Next]_vars => LatestInv'
<1> SUFFICES ASSUME MessagesInv, LatestInv, [Next]_vars PROVE LatestInv'
  OBVIOUS
<1>1. /\ \A m \in Ids : messages[m] # None => messages[m].room \in Rooms /\ messages[m].room \in rooms
      /\ \A m \in Ids : messages[m] # None => m <= clock
      /\ Ids \subseteq Nat /\ clock \in Nat
  BY NoneIsNothing DEF MessagesInv, TypeOK, Row, Exists, Ids
<1>2. \A x \in Requests : request[x].now \in Nat /\ request[x].now <= clock
  BY RequestFields, NoneIsNothing DEF HasLocals, Locals
\* A step of p that sends nothing.
<1>3. ASSUME NEW p \in Requests, Others(p), UNCHANGED <<lastMessageAt, jumbled>>,
             \A m \in Ids : messages'[m] # None =>
               messages[m] # None /\ messages'[m].room = messages[m].room,
             request[p].at \notin {"insert", "bump"}, request'[p].at \notin {"insert", "bump"}
      PROVE  LatestInv'
  <2>1. \A x \in Requests, r \in Rooms : Sending(x, r)' <=> Sending(x, r)
    BY <1>3 DEF Sending, Others
  <2>2. \A x \in Requests, r \in Rooms : Sending(x, r) => request'[x] = request[x]
    BY <1>3 DEF Sending, Others
  <2>3. \A m \in Ids, s \in Rooms : messages'[m] # None /\ messages[m].room = s =>
          /\ lastMessageAt'[s] = lastMessageAt[s]
          /\ \A x \in Requests : Sending(x, s) => Sending(x, s)'
    BY <1>1, <1>3, <2>1
  <2>4. QED BY <1>3, <2>1, <2>2, <2>3, LatestKept
<1>4. CASE UNCHANGED <<messages, request, lastMessageAt, jumbled>>
  <2>1. \A x \in Requests, r \in Rooms : Sending(x, r)' <=> Sending(x, r)
    BY <1>4 DEF Sending
  <2>2. \A m \in Ids, s \in Rooms : messages'[m] # None /\ messages[m].room = s =>
          /\ lastMessageAt'[s] = lastMessageAt[s]
          /\ \A x \in Requests : Sending(x, s) => Sending(x, s)'
    BY <1>1, <1>4, <2>1
  <2>3. QED BY <1>4, <2>1, <2>2, LatestKept
<1>5. ASSUME NEW r \in Rooms, DropRoom(r) PROVE LatestInv'
  <2>1. /\ UNCHANGED <<request, jumbled>>
        /\ \A m \in Ids : messages'[m] # None =>
             messages[m] # None /\ messages'[m] = messages[m] /\ messages[m].room # r
        /\ \A s \in Rooms \ {r} : lastMessageAt'[s] = lastMessageAt[s]
    BY <1>5 DEF DropRoom, notes, Exists, MessagesInv, TypeOK
  <2>2. \A x \in Requests, s \in Rooms : Sending(x, s)' <=> Sending(x, s)
    BY <2>1 DEF Sending
  <2>3. \A m \in Ids, s \in Rooms : messages'[m] # None /\ messages[m].room = s =>
          /\ lastMessageAt'[s] = lastMessageAt[s]
          /\ \A x \in Requests : Sending(x, s) => Sending(x, s)'
    BY <1>1, <2>1, <2>2
  <2>4. QED BY <2>1, <2>2, <2>3, LatestKept
<1>6. ASSUME NEW p \in Requests, SendBump(p) PROVE LatestInv'
  <2>1. /\ request[p].at = "bump" /\ UNCHANGED <<messages, jumbled>>
        /\ lastMessageAt' = IF request[p].room \in rooms
                            THEN [lastMessageAt EXCEPT ![request[p].room] = request[p].now]
                            ELSE lastMessageAt
    BY <1>6 DEF SendBump, notes, BumpedTo
  <2>2. request'[p].at = "publish" /\ Others(p)
    <3>1. "publish" \in Stages /\ Goto(p, "publish")
      BY <1>6 DEF SendBump, Stages
    <3>2. QED BY <3>1, GotoEffect DEF MessagesInv, Moves
  <2>3. PICK r \in Rooms : r = request[p].room
    BY <2>1, RequestFields
  <2>4. /\ \A x \in Requests, s \in Rooms : Sending(x, s)' => Sending(x, s) /\ request'[x] = request[x]
        /\ \A x \in Requests, s \in Rooms \ {r} : Sending(x, s) => Sending(x, s)'
    BY <2>1, <2>2, <2>3 DEF Sending, Others
  <2>5. Sending(p, r)
    BY <2>1, <2>3 DEF Sending
  <2>6. ASSUME NEW m \in Ids, messages[m] # None, messages[m].room = r, r \notin jumbled
        PROVE  lastMessageAt'[r] >= m
    <3>1. m <= request[p].now /\ r \in rooms
      BY <1>1, <2>5, <2>6 DEF LatestInv, Exists
    <3>2. lastMessageAt'[r] = request[p].now
      BY <2>1, <2>3, <3>1 DEF MessagesInv, TypeOK
    <3>3. QED BY <1>1, <1>2, <3>1, <3>2
  <2>7. \A s \in Rooms \ {r} : lastMessageAt'[s] = lastMessageAt[s]
    BY <2>1, <2>3 DEF MessagesInv, TypeOK
  <2>8. \A m \in Ids, s \in Rooms : messages'[m] # None /\ messages[m].room = s =>
          \/ s \in jumbled'
          \/ lastMessageAt'[s] >= m
          \/ /\ lastMessageAt'[s] = lastMessageAt[s]
             /\ \A x \in Requests : Sending(x, s) => Sending(x, s)'
    <3>1. TAKE m \in Ids, s \in Rooms
    <3>2. HAVE messages'[m] # None /\ messages[m].room = s
    <3>3. CASE s = r
      BY <2>1, <2>6, <3>2, <3>3
    <3>4. CASE s # r
      BY <2>4, <2>7, <3>2, <3>4
    <3>5. QED BY <3>3, <3>4
  <2>9. QED BY <2>1, <2>4, <2>8, LatestKept
<1>7. ASSUME NEW p \in Requests, Quiet(p) PROVE LatestInv'
  <2>1. CASE SendBump(p)
    BY <1>6, <2>1
  <2>2. CASE ~ SendBump(p)
    <3>1. Others(p) /\ UNCHANGED <<messages, lastMessageAt, jumbled>>
      BY <1>7, <2>2 DEF Quiet, Starts, Continues, GivesUp
    <3>2. request[p].at # "insert" /\ request'[p].at \notin {"insert", "bump"}
      BY <1>7 DEF Quiet, Starts, Continues, GivesUp, StageOrder, Ends, Idle
    <3>3. CASE request[p].at # "bump"
      BY <1>3, <3>1, <3>2, <3>3
    <3>4. CASE request[p].at = "bump"
      <4>1. Continues(p)
        BY <1>7, <3>4 DEF Quiet, Starts, GivesUp, Idle
      <4>2. QED BY <2>2, <3>4, <4>1 DEF Continues, StageOrder
    <3>5. QED BY <3>3, <3>4
  <2>3. QED BY <2>1, <2>2
<1>8. ASSUME NEW p \in Requests, SendCheck(p) PROVE LatestInv'
  <2>1. /\ request[p] = Idle /\ Others(p) /\ request'[p].at = "insert"
        /\ request'[p].now = clock + 1
        /\ jumbled' = jumbled \cup {x \in {request'[p].room} :
                                      \E q \in Requests : Sending(q, request'[p].room)}
        /\ UNCHANGED <<messages, lastMessageAt>>
    BY <1>8, SendCheckEffect DEF tables
  <2>2. PICK r \in Rooms : r = request'[p].room
    BY <1>8, SendCheckEffect
  <2>3. /\ \A x \in Requests, s \in Rooms : Sending(x, s) => Sending(x, s)' /\ x # p
        /\ \A x \in Requests \ {p}, s \in Rooms : Sending(x, s)' =>
             Sending(x, s) /\ request'[x].now = request[x].now
        /\ \A s \in Rooms : Sending(p, s)' => s = r
    BY <2>1, <2>2 DEF Sending, Others, Idle
  <2>4. jumbled \subseteq jumbled' /\ (r \in jumbled' \/ \A x \in Requests : ~ Sending(x, r))
    BY <2>1, <2>2
  <2>5. ASSUME NEW m \in Ids, NEW s \in Rooms, messages'[m] # None, messages'[m].room = s
        PROVE  s \in jumbled' \/ (\E x \in Requests : Sending(x, s)') \/ lastMessageAt'[s] >= m
    <3>1. messages[m] # None /\ messages[m].room = s
      BY <2>1, <2>5
    <3>2. s \in jumbled \/ (\E x \in Requests : Sending(x, s)) \/ lastMessageAt[s] >= m
      BY <3>1 DEF LatestInv, LatestIn, Exists
    <3>3. QED BY <2>1, <2>3, <2>4, <3>1, <3>2
  <2>6. ASSUME NEW s \in Rooms \ jumbled', NEW q \in Requests, Sending(q, s)'
        PROVE  /\ \A x \in Requests : Sending(x, s)' => x = q
               /\ \A m \in Ids : messages'[m] # None /\ messages'[m].room = s =>
                    m <= request'[q].now
    <3>1. CASE q = p
      <4>1. s = r /\ \A x \in Requests : ~ Sending(x, s)
        BY <2>3, <2>4, <2>6, <3>1
      <4>2. \A x \in Requests : Sending(x, s)' => x = q
        BY <2>3, <3>1, <4>1
      <4>3. \A m \in Ids : messages'[m] # None => m <= request'[q].now
        BY <1>1, <2>1, <3>1
      <4>4. QED BY <4>2, <4>3
    <3>2. CASE q # p
      <4>1. Sending(q, s) /\ request'[q].now = request[q].now /\ s \in Rooms \ jumbled
        BY <2>3, <2>4, <2>6, <3>2
      <4>2. s # r
        BY <2>4, <2>6, <4>1
      <4>3. \A x \in Requests : Sending(x, s)' => Sending(x, s)
        BY <2>3, <4>2
      <4>4. QED BY <2>1, <4>1, <4>3 DEF LatestInv, Exists
    <3>3. QED BY <3>1, <3>2
  <2>7. QED BY <2>5, <2>6 DEF LatestInv, LatestIn, Exists
<1>9. ASSUME NEW p \in Requests, SendInsert(p) PROVE LatestInv'
  <2>1. request[p].at = "insert" /\ UNCHANGED <<lastMessageAt, jumbled, rooms>>
    BY <1>9 DEF SendInsert, notes
  <2>2. PICK r \in Rooms : r = request[p].room
    BY <2>1, RequestFields
  <2>3. Sending(p, r)
    BY <2>1, <2>2 DEF Sending
  <2>4. CASE Ends(p) /\ messages' = messages /\ request[p].room \notin rooms
    <3>1. \A m \in Ids : messages[m] # None => messages[m].room # r
      BY <1>1, <2>2, <2>4
    <3>2. /\ \A x \in Requests, s \in Rooms : Sending(x, s)' => Sending(x, s) /\ request'[x] = request[x]
          /\ \A x \in Requests, s \in Rooms \ {r} : Sending(x, s) => Sending(x, s)'
      BY <2>2, <2>4 DEF Ends, Others, Idle, Sending
    <3>3. \A m \in Ids, s \in Rooms : messages'[m] # None /\ messages[m].room = s =>
            /\ lastMessageAt'[s] = lastMessageAt[s]
            /\ \A x \in Requests : Sending(x, s) => Sending(x, s)'
      BY <1>1, <2>1, <2>4, <3>1, <3>2
    <3>4. QED BY <2>1, <2>4, <3>2, <3>3, LatestKept
  <2>5. ASSUME NEW m \in Ids, Tells(p, m, "bump"), messages' = messages PROVE LatestInv'
    <3>1. \A x \in Requests, s \in Rooms :
            /\ Sending(x, s)' <=> Sending(x, s)
            /\ request'[x].now = request[x].now
      BY <2>1, <2>5 DEF Tells, SameErrand, Others, Sending
    <3>2. \A n \in Ids, s \in Rooms : messages'[n] # None /\ messages[n].room = s =>
            /\ lastMessageAt'[s] = lastMessageAt[s]
            /\ \A x \in Requests : Sending(x, s) => Sending(x, s)'
      BY <1>1, <2>1, <2>5, <3>1
    <3>3. QED BY <2>1, <2>5, <3>1, <3>2, LatestKept
  <2>6. ASSUME NEW m \in Ids, Tells(p, m, "bump"), Inserted(p, m) PROVE LatestInv'
    <3>1. \A x \in Requests, s \in Rooms :
            /\ Sending(x, s)' <=> Sending(x, s)
            /\ request'[x].now = request[x].now
      BY <2>1, <2>6 DEF Tells, SameErrand, Others, Sending
    <3>2. /\ \A n \in Ids \ {m} : messages'[n] = messages[n]
          /\ messages'[m].room = r /\ m = request[p].now
      BY <2>1, <2>2, <2>6, RequestFields DEF Inserted, HasLocals
    <3>3. ASSUME NEW n \in Ids, NEW s \in Rooms, messages'[n] # None, messages'[n].room = s
          PROVE  s \in jumbled' \/ (\E x \in Requests : Sending(x, s)') \/ lastMessageAt'[s] >= n
      <4>1. CASE n = m
        <5>1. s = r
          BY <3>2, <3>3, <4>1
        <5>2. QED BY <2>3, <3>1, <5>1
      <4>2. CASE n # m
        <5>1. messages[n] # None /\ messages[n].room = s
          BY <3>2, <3>3, <4>2
        <5>2. s \in jumbled \/ (\E x \in Requests : Sending(x, s)) \/ lastMessageAt[s] >= n
          BY <5>1 DEF LatestInv, LatestIn, Exists
        <5>3. QED BY <2>1, <3>1, <5>1, <5>2
      <4>3. QED BY <4>1, <4>2
    <3>5. ASSUME NEW s \in Rooms \ jumbled', NEW q \in Requests, Sending(q, s)'
          PROVE  /\ \A x \in Requests : Sending(x, s)' => x = q
                 /\ \A n \in Ids : messages'[n] # None /\ messages'[n].room = s =>
                      n <= request'[q].now
      <4>1. s \in Rooms \ jumbled /\ Sending(q, s)
        BY <2>1, <3>1, <3>5
      <4>2. \A x \in Requests : Sending(x, s)' => x = q
        BY <3>1, <4>1 DEF LatestInv
      <4>3. ASSUME NEW n \in Ids, messages'[n] # None, messages'[n].room = s
            PROVE  n <= request'[q].now
        <5>1. CASE n = m
          <6>1. s = r /\ q = p
            BY <2>3, <3>2, <4>1, <4>3, <5>1 DEF LatestInv
          <6>2. QED BY <1>1, <3>1, <3>2, <5>1, <6>1
        <5>2. CASE n # m
          BY <3>1, <3>2, <4>1, <4>3, <5>2 DEF LatestInv, Exists
        <5>3. QED BY <5>1, <5>2
      <4>4. QED BY <4>2, <4>3
    <3>6. QED BY <3>3, <3>5 DEF LatestInv, LatestIn, Exists
  <2>7. QED BY <1>9, <2>4, <2>5, <2>6, SendInsertEffect
<1>10. ASSUME NEW p \in Requests, EditUpdate(p) \/ DeleteMark(p) PROVE LatestInv'
  <2>1. /\ request[p].at \in {"update", "softDelete"} /\ UNCHANGED <<lastMessageAt, jumbled>>
    BY <1>10, RewritesEffect
  <2>2. CASE Ends(p) /\ messages' = messages
    BY <1>3, <2>1, <2>2 DEF Ends, Idle
  <2>3. ASSUME NEW m \in Ids, NEW body, NEW deleted, Tells(p, m, "publish"),
               Rewritten(p, m, body, deleted)
        PROVE  LatestInv'
    <3>1. \A n \in Ids : messages'[n] # None =>
            messages[n] # None /\ messages'[n].room = messages[n].room
      BY <2>3 DEF Rewritten, Exists
    <3>2. QED BY <1>3, <2>1, <2>3, <3>1 DEF Tells
  <2>4. QED BY <1>10, <2>2, <2>3, RewritesEffect
<1>11. ASSUME NEW p \in Requests, Crash(p) PROVE LatestInv'
  <2>1. /\ Ends(p) /\ jumbled' = jumbled \cup {r \in Rooms : Sending(p, r)}
        /\ UNCHANGED <<messages, lastMessageAt>>
    BY <1>11, CrashEffect DEF tables
  <2>2. /\ \A x \in Requests, s \in Rooms : Sending(x, s)' => Sending(x, s) /\ request'[x] = request[x]
        /\ \A x \in Requests, s \in Rooms : Sending(x, s) => Sending(x, s)' \/ s \in jumbled'
    BY <2>1 DEF Ends, Others, Idle, Sending
  <2>3. \A m \in Ids, s \in Rooms : messages'[m] # None /\ messages[m].room = s =>
          \/ s \in jumbled'
          \/ /\ lastMessageAt'[s] = lastMessageAt[s]
             /\ \A x \in Requests : Sending(x, s) => Sending(x, s)'
    BY <1>1, <2>1, <2>2
  <2>4. QED BY <2>1, <2>2, <2>3, LatestKept
<1>12. ASSUME \/ UNCHANGED vars \/ LoadPage
              \/ \E r \in Rooms : Follow(r)
              \/ \E r \in Rooms, u \in Users : Leave(r, u)
       PROVE  LatestInv'
  <2>1. UNCHANGED <<messages, request, lastMessageAt, jumbled>>
    BY <1>12 DEF vars, tables, notes, LoadPage, Follow, Leave
  <2>2. QED BY <1>4, <2>1
<1>13. ASSUME NEW p \in Requests,
              Send(p) \/ Edit(p) \/ Delete(p) \/ MarkAsRead(p) \/ Publish(p) \/ Crash(p)
       PROVE  LatestInv'
  BY <1>7, <1>8, <1>9, <1>10, <1>11, <1>13, StartsEffect, ContinuesEffect
  DEF Send, Edit, Delete, MarkAsRead
<1>14. QED BY <1>5, <1>12, <1>13 DEF Next

\* Between sends that did not overlap, a room is listed by its latest message
\* (bumpLastMessageAt in pg-room-repository.ts).
THEOREM RoomsAreListedByLatest == Spec => []ListedByLatest
<1>1. Init => LatestInv
  BY DEF Init, Idle, LatestInv, Exists, Sending
<1>2. MessagesInv /\ LatestInv => ListedByLatest
  <2>1. SUFFICES ASSUME MessagesInv, LatestInv, NEW m \in Ids, Exists(m)
                 PROVE  LatestIn(m, messages[m].room)
    BY DEF ListedByLatest, LatestIn
  <2>2. messages[m].room \in Rooms
    BY <2>1, RowOfMessage DEF MessagesInv, Row
  <2>3. QED BY <2>1, <2>2 DEF LatestInv
<1>3. QED BY <1>1, <1>2, MessagesStayWhole, LatestNext, PTL DEF Spec

-----------------------------------------------------------------------------
(* Read pointers                                                           *)

LEMMA PointersNext == MessagesInv /\ ReadPointersInRoom /\ [Next]_vars => ReadPointersInRoom'
<1> SUFFICES ASSUME MessagesInv, ReadPointersInRoom, [Next]_vars PROVE ReadPointersInRoom'
  OBVIOUS
<1>0. /\ lastRead \in [Rooms \X Users -> Ids \cup {None}]
      /\ \A p \in Requests : request[p] \in Locals
  BY DEF MessagesInv, TypeOK
<1>1. ASSUME UNCHANGED lastRead,
             \A m \in Ids : Exists(m) => Exists(m)' /\ messages'[m].room = messages[m].room
      PROVE  ReadPointersInRoom'
  <2>1. \A r \in Rooms, u \in Users : lastRead[<<r, u>>] \in Ids \cup {None}
    BY <1>0
  <2>2. QED BY <1>1, <2>1 DEF ReadPointersInRoom, Exists
<1>2. CASE UNCHANGED <<messages, lastRead>>
  BY <1>1, <1>2 DEF Exists
<1>3. ASSUME NEW p \in Requests, ReadSet(p) PROVE ReadPointersInRoom'
  <2>1. /\ request[p].at = "setRead" /\ UNCHANGED messages
        /\ lastRead' = IF IsMember(request[p].room, request[p].user)
                       THEN [lastRead EXCEPT ![<<request[p].room, request[p].user>>] = request[p].id]
                       ELSE lastRead
    BY <1>3 DEF ReadSet
  <2>2. AboutItsRoom(p)
    BY RequestFields
  <2>3. CASE ~ IsMember(request[p].room, request[p].user)
    BY <1>2, <2>1, <2>3
  <2>4. CASE IsMember(request[p].room, request[p].user)
    <3>1. Exists(request[p].id) /\ messages[request[p].id].room = request[p].room
      BY <2>1, <2>2, <2>4 DEF AboutItsRoom
    <3>2. ASSUME NEW r \in Rooms, NEW u \in Users, lastRead'[<<r, u>>] # None
          PROVE  /\ messages'[lastRead'[<<r, u>>]] # None
                 /\ messages'[lastRead'[<<r, u>>]].room = r
      <4>1. CASE <<r, u>> = <<request[p].room, request[p].user>>
        BY <1>0, <2>1, <2>4, <3>1, <4>1 DEF Exists
      <4>2. CASE <<r, u>> # <<request[p].room, request[p].user>>
        BY <1>0, <2>1, <2>4, <3>2, <4>2 DEF ReadPointersInRoom, Exists
      <4>3. QED BY <4>1, <4>2
    <3>3. QED BY <3>2 DEF ReadPointersInRoom, Exists
  <2>5. QED BY <2>3, <2>4
<1>4. ASSUME NEW p \in Requests, Quiet(p) PROVE ReadPointersInRoom'
  BY <1>2, <1>3, <1>4 DEF Quiet, Starts, Continues, GivesUp
<1>5. ASSUME NEW p \in Requests, SendCheck(p) \/ Crash(p) PROVE ReadPointersInRoom'
  BY <1>2, <1>5, SendCheckEffect, CrashEffect DEF tables
<1>6. ASSUME NEW p \in Requests, SendInsert(p) PROVE ReadPointersInRoom'
  <2>1. UNCHANGED lastRead
    BY <1>6 DEF SendInsert
  <2>2. ASSUME NEW m \in Ids, Inserted(p, m) PROVE ReadPointersInRoom'
    BY <1>1, <2>1, <2>2 DEF Inserted, Exists
  <2>3. QED BY <1>2, <1>6, <2>1, <2>2, SendInsertEffect
<1>7. ASSUME NEW p \in Requests, EditUpdate(p) \/ DeleteMark(p) PROVE ReadPointersInRoom'
  <2>1. UNCHANGED lastRead
    BY <1>7, RewritesEffect
  <2>2. ASSUME NEW m \in Ids, NEW body, NEW deleted, Rewritten(p, m, body, deleted)
        PROVE  ReadPointersInRoom'
    BY <1>1, <2>1, <2>2 DEF Rewritten, Exists
  <2>3. QED BY <1>2, <1>7, <2>1, <2>2, RewritesEffect
<1>8. ASSUME NEW r \in Rooms, NEW u \in Users, Leave(r, u) PROVE ReadPointersInRoom'
  <2>1. UNCHANGED messages /\ lastRead' = [lastRead EXCEPT ![<<r, u>>] = None]
    BY <1>8 DEF Leave
  <2>2. \A s \in Rooms, v \in Users :
          lastRead'[<<s, v>>] = None \/ lastRead'[<<s, v>>] = lastRead[<<s, v>>]
    BY <1>0, <2>1
  <2>3. QED BY <2>1, <2>2 DEF ReadPointersInRoom, Exists
<1>9. ASSUME NEW r \in Rooms, DropRoom(r) PROVE ReadPointersInRoom'
  <2>1. /\ \A s \in Rooms, v \in Users :
             lastRead'[<<s, v>>] = IF s = r THEN None ELSE lastRead[<<s, v>>]
        /\ \A m \in Ids : Exists(m) /\ messages[m].room # r =>
             messages'[m] = messages[m]
    BY <1>9 DEF DropRoom
  <2>2. \A s \in Rooms, v \in Users : lastRead[<<s, v>>] \in Ids \cup {None}
    BY <1>0
  <2>3. QED BY <2>1, <2>2 DEF ReadPointersInRoom, Exists
<1>10. ASSUME \/ UNCHANGED vars \/ LoadPage \/ \E r \in Rooms : Follow(r)
       PROVE  ReadPointersInRoom'
  <2>1. UNCHANGED <<messages, lastRead>>
    BY <1>10 DEF vars, tables, LoadPage, Follow
  <2>2. QED BY <1>2, <2>1
<1>11. ASSUME NEW p \in Requests,
              Send(p) \/ Edit(p) \/ Delete(p) \/ MarkAsRead(p) \/ Publish(p) \/ Crash(p)
       PROVE  ReadPointersInRoom'
  BY <1>4, <1>5, <1>6, <1>7, <1>11, StartsEffect, ContinuesEffect
  DEF Send, Edit, Delete, MarkAsRead
<1>12. QED BY <1>8, <1>9, <1>10, <1>11 DEF Next

\* A read pointer is at a message of the room that exists (mark-as-read.ts;
\* setLastReadMessage, removeMember and deleteRoom in pg-room-repository.ts).
THEOREM PointersAreInTheRoom == Spec => []ReadPointersInRoom
<1>1. Init => ReadPointersInRoom
  BY DEF Init, ReadPointersInRoom
<1>2. QED BY <1>1, MessagesStayWhole, PointersNext, PTL DEF Spec

-----------------------------------------------------------------------------
(* The client that reads                                                   *)

LEMMA Latest ==
  ASSUME NEW N \in Nat, NEW T \in SUBSET (1 .. N), T # {}
  PROVE  \E x \in T : \A y \in T : y <= x
<1> DEFINE R == OpToRel(<, Nat)
<1> DEFINE D == {N - x : x \in T}
<1>1. IsWellFoundedOn(R, Nat)
  BY NatLessThanWellFounded
<1>2. \A x, y \in Nat : x < y => <<x, y>> \in R
  BY DEF OpToRel
<1>3. D \subseteq Nat /\ D # {}
  <2>1. \A x \in T : N - x \in Nat
    <3>1. TAKE x \in T
    <3>2. x \in 1 .. N
      OBVIOUS
    <3>3. QED BY <3>2
  <2>2. PICK x : x \in T
    OBVIOUS
  <2>3. N - x \in D
    BY <2>2
  <2>4. QED BY <2>1, <2>3
<1> HIDE DEF R
<1>4. PICK d \in D : \A y \in D : ~ (<<y, d>> \in R)
  <2> HIDE DEF D
  <2>1. QED BY <1>1, <1>3, WFMin
<1>5. PICK x \in T : d = N - x
  OBVIOUS
<1>6. ASSUME NEW y \in T PROVE y <= x
  <2>1. N - y \in D /\ N - y \in Nat /\ d \in Nat
    BY <1>3
  <2>2. ~ (N - y < d)
    BY <1>2, <1>4, <2>1
  <2>3. x \in 1 .. N /\ y \in 1 .. N
    OBVIOUS
  <2>4. QED BY <1>5, <2>2, <2>3
<1>7. QED BY <1>6

\* The k latest of a set: what is left out is older than all of them, and it is left
\* out only if they are at least k.
LEMMA LatestOnes ==
  ASSUME NEW N \in Nat, NEW S \in SUBSET (1 .. N), NEW k \in Nat, NEW top,
         top = {m \in S : Cardinality({n \in S : n > m}) < k},
         NEW m \in S \ top
  PROVE  /\ \A n \in top : m < n
         /\ ~ (Cardinality(top) < k)
<1>1. IsFiniteSet(S)
  <2>1. IsFiniteSet(1 .. N)
    BY FS_Interval
  <2>2. QED BY <2>1, FS_Subset
<1> DEFINE Above(x) == {n \in S : n > x}
<1>2. \A x \in S : IsFiniteSet(Above(x)) /\ Cardinality(Above(x)) \in Nat
  <2>1. \A x \in S : Above(x) \in SUBSET S
    OBVIOUS
  <2> HIDE DEF Above
  <2>2. \A x \in S : IsFiniteSet(Above(x))
    BY <1>1, <2>1, FS_Subset
  <2>3. QED BY <2>2, FS_CardinalityType
<1>3. top = {x \in S : Cardinality(Above(x)) < k}
  OBVIOUS
<1>4. ASSUME NEW n \in top PROVE m < n
  <2>1. SUFFICES ASSUME n < m PROVE FALSE
    OBVIOUS
  <2>2. Above(m) \in SUBSET Above(n) /\ n \in S
    <3>1. \A x \in S : x > m => x > n
      <4>1. TAKE x \in S
      <4>2. x \in Nat /\ m \in Nat /\ n \in Nat
        OBVIOUS
      <4>3. QED BY <2>1, <4>2
    <3>2. QED BY <3>1
  <2>3. Cardinality(Above(n)) < k /\ ~ (Cardinality(Above(m)) < k)
    BY <1>3
  <2> HIDE DEF Above
  <2>4. Cardinality(Above(m)) <= Cardinality(Above(n))
    BY <1>2, <2>2, FS_Subset
  <2>5. QED BY <1>2, <2>2, <2>3, <2>4
<1>5. ~ (Cardinality(top) < k)
  <2>1. S \ top \in SUBSET (1 .. N) /\ S \ top # {}
    OBVIOUS
  <2>2. PICK x \in S \ top : \A y \in S \ top : y <= x
    BY <2>1, Latest
  <2>3. Above(x) \in SUBSET top
    <3>1. \A y \in S : y > x => y \in top
      <4>1. TAKE y \in S
      <4>2. x \in Nat /\ y \in Nat
        OBVIOUS
      <4>3. QED BY <2>2, <4>2
    <3>2. QED BY <3>1
  <2>4. ~ (Cardinality(Above(x)) < k)
    BY <1>3
  <2>5. IsFiniteSet(top) /\ Cardinality(top) \in Nat
    <3>1. top \in SUBSET S
      OBVIOUS
    <3>2. QED BY <1>1, <3>1, FS_Subset, FS_CardinalityType
  <2> HIDE DEF Above
  <2>6. Cardinality(Above(x)) <= Cardinality(top)
    BY <2>3, <2>5, FS_Subset
  <2>7. QED BY <1>2, <2>4, <2>5, <2>6
<1>6. QED BY <1>4, <1>5

LEMMA WhatAPageLeavesOut ==
  ASSUME NEW r, NEW before, NEW page, page = Page(r, before), NEW m \in Listed(r, before) \ page
  PROVE  /\ \A n \in page : m < n
         /\ ~ (Cardinality(page) < PageSize)
<1> DEFINE S == Listed(r, before)
<1>1. S \in SUBSET (1 .. MaxSends) /\ MaxSends \in Nat /\ PageSize \in Nat
  BY NoneIsNothing DEF Listed, Ids
<1>2. page = {x \in S : Cardinality({n \in S : n > x}) < PageSize}
  BY DEF Page
<1> HIDE DEF S
<1>3. m \in S \ page
  BY DEF S
<1>4. QED BY <1>1, <1>2, <1>3, LatestOnes

\* A step that leaves the reader alone, announces what it forgets and says what it
\* writes.
LEMMA ReaderKept ==
  ASSUME ReaderInv, UNCHANGED reader, reader # Away,
         unsettled \subseteq unsettled',
         \A x \in Requests, m \in Ids \ unsettled' :
           Publishing(x, m)' /\ messages'[m] # None =>
             request'[x].says = ContentOf(messages'[m]),
         \A m \in Ids \ unsettled' :
           messages'[m] # None /\ messages'[m].room = reader.room =>
             \/ \E x \in Requests : Publishing(x, m)' /\ request'[x].room = reader.room
             \/ view'[m] = ContentOf(messages'[m])
             \/ view'[m] = None /\ ToCome(m)
  PROVE  ReaderInv'
<1>1. ASSUME NEW m \in Ids \ unsettled', messages'[m] # None, messages'[m].room = reader'.room,
             ~ \E x \in Requests : Publishing(x, m)' /\ request'[x].room = reader'.room
      PROVE  view'[m] = ContentOf(messages'[m]) \/ (view'[m] = None /\ ToCome(m)')
  BY <1>1 DEF ToCome
<1>2. reader' # Away /\ reader'.at # "away"
  BY DEF ReaderInv, Away
<1>3. QED BY <1>1, <1>2 DEF ReaderInv, Announced, Exists, ContentOf, Publishing, Away

LEMMA AwayKept ==
  ASSUME ReaderInv, UNCHANGED <<reader, view>>, reader = Away
  PROVE  ReaderInv'
BY DEF ReaderInv

\* A step that changes no message and no news.
LEMMA NewsKept ==
  ASSUME ReaderInv, NothingNew, UNCHANGED <<reader, view>>, unsettled \subseteq unsettled',
         \A x \in Requests, m \in Ids : Publishing(x, m)' =>
           Publishing(x, m) /\ request'[x].says = request[x].says,
         reader # Away => \A x \in Requests, m \in Ids \ unsettled' : Publishing(x, m) =>
           Publishing(x, m)' /\ request'[x].room = request[x].room
  PROVE  ReaderInv'
<1>1. CASE reader = Away
  BY <1>1, AwayKept
<1>2. CASE reader # Away
  <2>1. \A m \in Ids : messages'[m] # None => messages[m] # None /\ messages'[m] = messages[m]
    BY DEF NothingNew, Exists
  <2>2. ASSUME NEW x \in Requests, NEW m \in Ids \ unsettled', Publishing(x, m)',
               messages'[m] # None
        PROVE  request'[x].says = ContentOf(messages'[m])
    <3>1. request[x].says = ContentOf(messages[m])
      BY <1>2, <2>1, <2>2 DEF ReaderInv, Exists
    <3>2. QED BY <2>1, <2>2, <3>1
  <2>3. ASSUME NEW m \in Ids \ unsettled', messages'[m] # None, messages'[m].room = reader.room
        PROVE  \/ \E x \in Requests : Publishing(x, m)' /\ request'[x].room = reader.room
               \/ view'[m] = ContentOf(messages'[m])
               \/ view'[m] = None /\ ToCome(m)
    <3>1. \/ \E x \in Requests : Publishing(x, m) /\ request[x].room = reader.room
          \/ view[m] = ContentOf(messages[m])
          \/ view[m] = None /\ ToCome(m)
      BY <1>2, <2>1, <2>3 DEF ReaderInv, Exists, Announced
    <3>2. QED BY <1>2, <2>1, <2>3, <3>1
  <2>4. QED BY <1>2, <2>2, <2>3, ReaderKept
<1>3. QED BY <1>1, <1>2

\* A step that writes one row and publishes it next.
LEMMA ToldOf ==
  ASSUME ReaderInv, NEW p \in Requests, NEW m \in Ids, NEW stage \in {"bump", "publish"},
         Tells(p, m, stage), UNCHANGED <<reader, view>>, unsettled \subseteq unsettled',
         request[p].at \notin {"bump", "publish"},
         \A n \in Ids \ {m} : messages'[n] = messages[n],
         \/ messages'[m] = messages[m]
         \/ /\ messages'[m].room = request[p].room
            /\ reader # Away => m \in unsettled' \/ \A x \in Requests \ {p} : ~ Publishing(x, m)
  PROVE  ReaderInv'
<1>1. CASE reader = Away
  BY <1>1, AwayKept
<1>2. CASE reader # Away
  <2>1. /\ request'[p].at = stage /\ request'[p].id = m /\ request'[p].says # None
        /\ request'[p].says = ContentOf(messages'[m]) /\ request'[p].room = request[p].room
        /\ \A x \in Requests \ {p} : request'[x] = request[x]
    BY NoneIsNothing DEF Tells, SameErrand, Others
  <2>2. /\ \A x \in Requests \ {p}, n \in Ids : Publishing(x, n)' <=> Publishing(x, n)
        /\ \A n \in Ids : /\ Publishing(p, n)' <=> n = m
                          /\ ~ Publishing(p, n)
    BY <2>1 DEF Publishing
  <2>3. ASSUME NEW x \in Requests, NEW n \in Ids \ unsettled', Publishing(x, n)',
               messages'[n] # None
        PROVE  request'[x].says = ContentOf(messages'[n])
    <3>1. CASE x = p
      BY <2>1, <2>2, <2>3, <3>1
    <3>2. CASE x # p
      <4>1. Publishing(x, n) /\ request'[x] = request[x]
        BY <2>1, <2>2, <2>3, <3>2
      <4>2. messages'[n] = messages[n]
        BY <1>2, <2>3, <3>2, <4>1
      <4>3. QED BY <1>2, <2>3, <4>1, <4>2 DEF ReaderInv, Exists
    <3>3. QED BY <3>1, <3>2
  <2>4. ASSUME NEW n \in Ids \ unsettled', messages'[n] # None, messages'[n].room = reader.room
        PROVE  \/ \E x \in Requests : Publishing(x, n)' /\ request'[x].room = reader.room
               \/ view'[n] = ContentOf(messages'[n])
               \/ view'[n] = None /\ ToCome(n)
    <3>1. CASE messages'[n] = messages[n]
      <4>1. \/ \E x \in Requests : Publishing(x, n) /\ request[x].room = reader.room
            \/ view[n] = ContentOf(messages[n])
            \/ view[n] = None /\ ToCome(n)
        BY <1>2, <2>4, <3>1 DEF ReaderInv, Exists, Announced
      <4>2. QED BY <2>1, <2>2, <3>1, <4>1
    <3>2. CASE messages'[n] # messages[n]
      BY <2>1, <2>2, <2>4, <3>2
    <3>3. QED BY <3>1, <3>2
  <2>5. QED BY <1>2, <2>3, <2>4, ReaderKept
<1>3. QED BY <1>1, <1>2

LEMMA PublishKeepsReader ==
  ASSUME MessagesInv, ReaderInv, NEW p \in Requests, Publish(p)
  PROVE  ReaderInv'
<1>1. /\ request[p].at = "publish" /\ UNCHANGED <<tables, clock, reader, notes>>
      /\ view' = IF request[p].room = reader.room /\ request[p].says # None
                 THEN [view EXCEPT ![request[p].id] = request[p].says] ELSE view
  BY DEF Publish
<1>2. /\ request'[p] = Idle /\ \A x \in Requests \ {p} : request'[x] = request[x]
  BY FailEffect DEF Publish, MessagesInv, Ends, Others
<1>3. PICK m \in Ids : m = request[p].id
  BY <1>1, RequestFields
<1>4. /\ view \in [Ids -> Content \cup {None}] /\ reader \in Reader
      /\ messages' = messages /\ unsettled' = unsettled /\ reader' = reader
  BY <1>1 DEF MessagesInv, TypeOK, tables, notes
<1>5. CASE reader = Away
  <2>1. reader.room = None /\ request[p].room # None
    BY <1>1, <1>5, RequestFields, NoneIsNothing DEF Away
  <2>2. QED BY <1>1, <1>4, <1>5, <2>1, AwayKept
<1>6. CASE reader # Away
  <2>1. /\ \A x \in Requests \ {p}, n \in Ids : Publishing(x, n)' <=> Publishing(x, n)
        /\ \A n \in Ids : ~ Publishing(p, n)'
        /\ \A n \in Ids : Publishing(p, n) => n = m /\ request[p].says # None
    BY <1>2, <1>3 DEF Publishing, Idle
  <2>2. ASSUME NEW x \in Requests, NEW n \in Ids \ unsettled', Publishing(x, n)',
               messages'[n] # None
        PROVE  request'[x].says = ContentOf(messages'[n])
    BY <1>2, <1>4, <1>6, <2>1, <2>2 DEF ReaderInv, Exists
  <2>3. ASSUME NEW n \in Ids \ unsettled', messages'[n] # None, messages'[n].room = reader.room
        PROVE  \/ \E x \in Requests : Publishing(x, n)' /\ request'[x].room = reader.room
               \/ view'[n] = ContentOf(messages'[n])
               \/ view'[n] = None /\ ToCome(n)
    <3>1. \/ \E x \in Requests : Publishing(x, n) /\ request[x].room = reader.room
          \/ view[n] = ContentOf(messages[n])
          \/ view[n] = None /\ ToCome(n)
      BY <1>4, <1>6, <2>3 DEF ReaderInv, Exists, Announced
    <3>2. CASE n = m /\ request[p].room = reader.room /\ request[p].says # None
      <4>1. view'[n] = request[p].says
        BY <1>1, <1>3, <1>4, <3>2
      <4>2. Publishing(p, n)
        BY <1>1, <1>3, <3>2 DEF Publishing
      <4>3. request[p].says = ContentOf(messages[n])
        BY <1>4, <1>6, <2>3, <4>2 DEF ReaderInv, Exists
      <4>4. QED BY <1>4, <4>1, <4>3
    <3>3. CASE ~ (n = m /\ request[p].room = reader.room /\ request[p].says # None)
      <4>1. view'[n] = view[n]
        BY <1>1, <1>3, <1>4, <3>3
      <4>2. ASSUME NEW x \in Requests, Publishing(x, n), request[x].room = reader.room
            PROVE  Publishing(x, n)' /\ request'[x].room = reader.room
        <5>1. x # p
          BY <2>1, <3>3, <4>2
        <5>2. QED BY <1>2, <2>1, <4>2, <5>1
      <4>3. QED BY <1>4, <3>1, <4>1, <4>2
    <3>4. QED BY <3>2, <3>3
  <2>4. QED BY <1>4, <1>6, <2>2, <2>3, ReaderKept
<1>7. QED BY <1>5, <1>6

LEMMA FollowKeepsReader ==
  ASSUME MessagesInv, ReaderInv, NEW r \in Rooms, Follow(r)
  PROVE  ReaderInv'
<1>1. /\ reader = Away /\ reader' = [at |-> "paging", room |-> r, before |-> None]
      /\ unsettled' = {m \in Ids : \E p \in Requests :
           Publishing(p, m) /\ Exists(m) /\ request[p].says # ContentOf(messages[m])}
      /\ UNCHANGED <<messages, request, view>>
  BY DEF Follow, tables
<1>2. reader'.at = "paging" /\ reader'.before = None /\ reader' # Away
  BY <1>1 DEF Away
<1>3. \A m \in Ids : view'[m] = None /\ ToCome(m)'
  BY <1>1, <1>2 DEF ReaderInv, ToCome
<1>4. \A p \in Requests, m \in Ids \ unsettled' :
        Publishing(p, m)' /\ messages'[m] # None => request'[p].says = ContentOf(messages'[m])
  BY <1>1 DEF Publishing, Exists
<1>5. QED BY <1>2, <1>3, <1>4 DEF ReaderInv, Exists, ContentOf, Publishing

LEMMA LoadPageKeepsReader ==
  ASSUME MessagesInv, ReaderInv, LoadPage
  PROVE  ReaderInv'
<1>1. PICK page : page = Page(reader.room, reader.before)
  OBVIOUS
<1>2. /\ \A m \in Ids : view'[m] = IF m \in page /\ view[m] = None
                                   THEN ContentOf(messages[m]) ELSE view[m]
      /\ reader.at = "paging" /\ reader'.room = reader.room
      /\ \/ Cardinality(page) < PageSize /\ reader'.at = "done"
         \/ \E oldest \in page : /\ \A m \in page : oldest <= m
                                 /\ ~ Cardinality(page) < PageSize
                                 /\ reader'.at = "paging" /\ reader'.before = oldest
      /\ UNCHANGED <<messages, request, unsettled>>
  BY <1>1, LoadPageEffect DEF tables, notes
<1>3. reader # Away /\ reader' # Away /\ reader'.at # "away"
  BY <1>2 DEF Away
<1>4. \A p \in Requests, m \in Ids \ unsettled' :
        Publishing(p, m)' /\ messages'[m] # None => request'[p].says = ContentOf(messages'[m])
  BY <1>2, <1>3 DEF ReaderInv, Publishing, Exists
<1>5. ASSUME NEW m \in Ids \ unsettled', messages'[m] # None, messages'[m].room = reader'.room,
             ~ \E x \in Requests : Publishing(x, m)' /\ request'[x].room = reader'.room
      PROVE  view'[m] = ContentOf(messages'[m]) \/ (view'[m] = None /\ ToCome(m)')
  <2>1. view[m] = ContentOf(messages[m]) \/ (view[m] = None /\ ToCome(m))
    BY <1>2, <1>3, <1>5 DEF ReaderInv, Exists, Announced, Publishing
  <2>2. CASE view[m] # None
    BY <1>2, <2>1, <2>2
  <2>3. CASE view[m] = None /\ m \in page
    BY <1>2, <2>3
  <2>4. CASE view[m] = ContentOf(messages[m]) /\ m \notin page
    BY <1>2, <2>4
  <2>5. CASE view[m] = None /\ ToCome(m) /\ m \notin page
    <3>1. m \in Listed(reader.room, reader.before)
      BY <1>2, <1>5, <2>5 DEF Listed, ToCome, Exists
    <3>2. (\A n \in page : m < n) /\ ~ (Cardinality(page) < PageSize)
      BY <1>1, <2>5, <3>1, WhatAPageLeavesOut
    <3>3. reader'.at = "paging" /\ m < reader'.before
      BY <1>2, <3>2
    <3>4. ToCome(m)'
      BY <3>3 DEF ToCome
    <3>5. QED BY <1>2, <2>5, <3>4
  <2>6. QED BY <2>1, <2>2, <2>3, <2>4, <2>5
<1>6. QED BY <1>3, <1>4, <1>5 DEF ReaderInv, Announced, Exists, ContentOf, Publishing

LEMMA ReaderNext == MessagesInv /\ CarriesInv /\ ReaderInv /\ [Next]_vars => ReaderInv'
<1> SUFFICES ASSUME MessagesInv, CarriesInv, ReaderInv, [Next]_vars PROVE ReaderInv'
  OBVIOUS
<1>1. ASSUME NEW p \in Requests, NothingNew, Others(p), UNCHANGED <<reader, view, unsettled>>,
             \A m \in Ids : Publishing(p, m)' => Publishing(p, m) /\ request'[p].says = request[p].says,
             \A m \in Ids : Publishing(p, m) => Publishing(p, m)' /\ request'[p].room = request[p].room
      PROVE  ReaderInv'
  <2>1. \A x \in Requests \ {p} : request'[x] = request[x]
    BY <1>1 DEF Others
  <2>2. \A x \in Requests \ {p}, m \in Ids : Publishing(x, m)' <=> Publishing(x, m)
    BY <2>1 DEF Publishing
  <2>3. QED BY <1>1, <2>1, <2>2, NewsKept
<1>2. ASSUME NEW p \in Requests, Ends(p), messages' = messages,
             UNCHANGED <<reader, view, unsettled>>, request[p].at \notin {"bump", "publish"}
      PROVE  ReaderInv'
  <2>1. NothingNew /\ Others(p) /\ \A m \in Ids : ~ Publishing(p, m) /\ ~ Publishing(p, m)'
    BY <1>2 DEF Ends, NothingNew, Exists, Publishing, Idle
  <2>2. QED BY <1>1, <1>2, <2>1
<1>3. ASSUME NEW p \in Requests, Quiet(p), UNCHANGED <<reader, view, unsettled>>, ~ Publish(p)
      PROVE  ReaderInv'
  <2>1. Others(p) /\ messages' = messages
    BY <1>3 DEF Quiet, Starts, Continues, GivesUp
  <2>2. NothingNew /\ Carries(p)
    BY <2>1 DEF NothingNew, Exists, CarriesInv
  <2>3. CASE Starts(p)
    <3>1. \A m \in Ids : ~ Publishing(p, m) /\ ~ Publishing(p, m)'
      BY <2>3 DEF Starts, Publishing, Idle
    <3>2. QED BY <1>1, <1>3, <2>1, <2>2, <3>1
  <2>4. CASE Continues(p)
    <3>1. \A m \in Ids : Publishing(p, m)' <=> Publishing(p, m)
      BY <2>2, <2>4 DEF Continues, StageOrder, Publishing, Carries
    <3>2. QED BY <1>1, <1>3, <2>1, <2>2, <2>4, <3>1 DEF Continues, SameErrand
  <2>5. CASE GivesUp(p)
    BY <1>2, <1>3, <2>1, <2>5 DEF GivesUp
  <2>6. QED BY <1>3, <2>3, <2>4, <2>5 DEF Quiet
<1>4. ASSUME NEW p \in Requests, SendCheck(p) PROVE ReaderInv'
  <2>1. /\ Others(p) /\ UNCHANGED <<reader, view, unsettled>> /\ NothingNew
        /\ \A m \in Ids : ~ Publishing(p, m) /\ ~ Publishing(p, m)'
    BY <1>4, SendCheckEffect DEF tables, readerVars, NothingNew, Exists, Publishing, Idle
  <2>2. QED BY <1>1, <2>1
<1>5. ASSUME NEW p \in Requests, SendInsert(p) PROVE ReaderInv'
  <2>1. request[p].at = "insert" /\ UNCHANGED <<reader, view, unsettled>>
    BY <1>5 DEF SendInsert, readerVars, notes
  <2>2. CASE Ends(p) /\ messages' = messages
    BY <1>2, <2>1, <2>2
  <2>3. ASSUME NEW m \in Ids, Tells(p, m, "bump"), messages' = messages PROVE ReaderInv'
    BY <2>1, <2>3, ToldOf
  <2>4. ASSUME NEW m \in Ids, Tells(p, m, "bump"), Inserted(p, m) PROVE ReaderInv'
    <3>1. /\ messages'[m].room = request[p].room /\ m = request[p].id
          /\ \A n \in Ids \ {m} : messages'[n] = messages[n]
      BY <2>4 DEF Inserted
    <3>2. \A x \in Requests \ {p} : ~ Publishing(x, m)
      BY <2>1, <3>1, RequestFields DEF IsNew, Publishing
    <3>3. QED BY <2>1, <2>4, <3>1, <3>2, ToldOf
  <2>5. QED BY <1>5, <2>2, <2>3, <2>4, SendInsertEffect
<1>6. ASSUME NEW p \in Requests, EditUpdate(p) \/ DeleteMark(p) PROVE ReaderInv'
  <2>1. /\ request[p].at \in {"update", "softDelete"} /\ UNCHANGED <<reader, view>>
    BY <1>6, RewritesEffect DEF readerVars
  <2>2. CASE Ends(p) /\ messages' = messages /\ unsettled' = unsettled
    BY <1>2, <2>1, <2>2
  <2>3. ASSUME NEW m \in Ids, m = request[p].id, NEW body, NEW deleted,
               Tells(p, m, "publish"), Rewritten(p, m, body, deleted)
        PROVE  ReaderInv'
    <3>1. /\ messages'[m].room = messages[m].room /\ Exists(m)
          /\ \A n \in Ids \ {m} : messages'[n] = messages[n]
          /\ unsettled' = unsettled \cup
               {x \in {m} : reader # Away /\ \E q \in Requests \ {p} : Publishing(q, m)}
      BY <2>3 DEF Rewritten
    <3>2. messages[m].room = request[p].room
      BY <2>1, <2>3, <3>1, RequestFields DEF AboutItsRoom
    <3>3. reader # Away => m \in unsettled' \/ \A x \in Requests \ {p} : ~ Publishing(x, m)
      BY <3>1
    <3>4. unsettled \subseteq unsettled'
      BY <3>1
    <3>5. QED BY <2>1, <2>3, <3>1, <3>2, <3>3, <3>4, ToldOf
  <2>4. QED BY <1>6, <2>2, <2>3, RewritesEffect
<1>7. ASSUME NEW p \in Requests, Crash(p) PROVE ReaderInv'
  <2>1. /\ Ends(p) /\ UNCHANGED <<reader, view>> /\ NothingNew
        /\ unsettled' = unsettled \cup {m \in Ids : reader # Away /\ Publishing(p, m)}
    BY <1>7, CrashEffect DEF tables, readerVars, NothingNew, Exists
  <2>2. /\ \A x \in Requests \ {p} : request'[x] = request[x]
        /\ request'[p].at = "idle"
    BY <2>1 DEF Ends, Others, Idle
  <2>3. /\ \A x \in Requests \ {p}, m \in Ids : Publishing(x, m)' <=> Publishing(x, m)
        /\ \A m \in Ids : ~ Publishing(p, m)'
    BY <2>2 DEF Publishing
  <2>4. QED BY <2>1, <2>2, <2>3, NewsKept
<1>8. ASSUME \/ UNCHANGED vars
             \/ \E r \in Rooms : DropRoom(r)
             \/ \E r \in Rooms, u \in Users : Leave(r, u)
      PROVE  ReaderInv'
  <2>1. UNCHANGED <<request, reader, view, unsettled>> /\ NothingNew
    BY <1>8 DEF vars, tables, readerVars, notes, Leave, DropRoom, NothingNew, Exists
  <2>2. \A x \in Requests, m \in Ids : Publishing(x, m)' <=> Publishing(x, m)
    BY <2>1 DEF Publishing
  <2>3. QED BY <2>1, <2>2, NewsKept
<1>9. ASSUME NEW p \in Requests,
             \/ EditRead(p) \/ DeleteRead(p) \/ ReadCheck(p) \/ SendBump(p)
             \/ DeleteAuthorize(p) \/ ReadFind(p) \/ ReadSet(p)
      PROVE  ReaderInv'
  <2>1. Quiet(p)
    BY <1>9, StartsEffect, ContinuesEffect
  <2>2. UNCHANGED <<reader, view, unsettled>>
    BY <1>9 DEF EditRead, DeleteRead, ReadCheck, SendBump, DeleteAuthorize, ReadFind,
       ReadSet, readerVars, notes
  <2>3. CASE Publish(p)
    BY <2>3, PublishKeepsReader
  <2>4. QED BY <1>3, <2>1, <2>2, <2>3
<1>10. ASSUME NEW p \in Requests,
              Send(p) \/ Edit(p) \/ Delete(p) \/ MarkAsRead(p) \/ Publish(p) \/ Crash(p)
       PROVE  ReaderInv'
  BY <1>4, <1>5, <1>6, <1>7, <1>9, <1>10, PublishKeepsReader
  DEF Send, Edit, Delete, MarkAsRead
<1>11. QED BY <1>8, <1>10, FollowKeepsReader, LoadPageKeepsReader DEF Next

\* A client that subscribes and pages back to the beginning of a room misses no message
\* and no change, but for those the model names (list-messages.ts; listByRoom in
\* pg-message-repository.ts; the publications of the other use cases).
THEOREM ReadersMissNothing == Spec => []ReadersCatchUp
<1>1. Init => CarriesInv /\ ReaderInv
  BY DEF Init, Idle, Away, CarriesInv, Carries, ReaderInv
<1>2. ReaderInv => ReadersCatchUp
  BY DEF ReaderInv, ReadersCatchUp, ToCome, Announced, Away
<1>3. QED BY <1>1, <1>2, MessagesStayWhole, CarriesNext, ReaderNext, PTL DEF Spec
=============================================================================
