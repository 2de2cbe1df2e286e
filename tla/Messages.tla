------------------------------ MODULE Messages ------------------------------
(***************************************************************************)
(* Sending, editing, deleting, reading and listing messages                *)
(* (src/application/use-cases/messages) over the messages, rooms and       *)
(* room_members tables, and one client that reads a room: it subscribes    *)
(* and then pages back through the listing while events come in.           *)
(*                                                                         *)
(* As in RefreshTokens, a step is one statement, or one PUBLISH, together  *)
(* with the code that runs on its result.  Attachments and edited_at are   *)
(* left out: no decision depends on them but the refusal of an attachment  *)
(* that is not uploaded, which like every refusal leaves no trace.         *)
(***************************************************************************)
EXTENDS Naturals, FiniteSets

CONSTANTS
  Rooms, Users,
  Admins,     \* users who are owner or admin of every room they are in
  Keys,       \* clientMessageIds
  Bodies,     \* texts
  Blank,      \* the body of a deleted message
  Requests,   \* requests in flight at once
  None,       \* SQL NULL, and the absence of a row
  PageSize,   \* the limit of a listing
  MaxSends,   \* bound on the number of sends
  Operations  \* what happens in this instance, see below

\* "edit", "delete", "read": clients edit, delete, mark as read
\* "crash": a request may stop between two steps
\* "leave": members are removed; "drop": rooms are deleted
\* "list": a client reads a room
\* "rekey": a client uses one clientMessageId in more than one room
AllOperations == {"edit", "delete", "read", "list", "crash", "leave", "drop", "rekey"}

Ids == 1 .. MaxSends
Content == [body : Bodies \cup {Blank}, deleted : BOOLEAN]
Row == [room : Rooms, sender : Users, key : Keys \cup {None},
        body : Bodies \cup {Blank}, deleted : BOOLEAN]

ASSUME MessagesAssumption ==
  /\ Admins \subseteq Users
  /\ None \notin Users \cup Keys \cup Rooms \cup Row \cup Content
  /\ Blank \notin Bodies
  /\ PageSize \in Nat \ {0}
  /\ MaxSends \in Nat
  /\ None \notin Ids
  /\ Operations \subseteq AllOperations

VARIABLES
  rooms,         \* the rooms that have not been deleted
  members,       \* room_members, as pairs
  messages,      \* message id -> row, None if there is none
  lastMessageAt, \* rooms.last_message_at, 0 if NULL
  lastRead,      \* room_members.last_read_message_id
  clock,         \* the time, one tick per send; it is also the UUIDv7 of the send
  request,       \* what each request waits for, and the locals it carries
  reader,        \* the room a client reads, and the cursor of its next page
  view,          \* what that client knows of each message
  \* What the specification notes:
  unsettled,     \* messages changed while an older state was yet to be published, or
                 \* whose event a crash has prevented, for the client that reads
  raced,         \* messages deleted while an edit had passed its checks
  jumbled        \* rooms where sends overlapped, or one crashed before its bump

tables == <<rooms, members, messages, lastMessageAt, lastRead>>
readerVars == <<reader, view>>
notes == <<unsettled, raced, jumbled>>
vars == <<tables, clock, request, readerVars, notes>>

Stages == {"idle", "insert", "bump", "update", "authorize", "softDelete",
           "findRead", "setRead", "publish"}

\* "away" is a client that does not read yet; "done", one that has seen a last page.
Reader == [at : {"away", "paging", "done"}, room : Rooms \cup {None},
           before : Ids \cup {None}]
Away == [at |-> "away", room |-> None, before |-> None]

Locals == [at : Stages, user : Users \cup {None}, room : Rooms \cup {None},
           key : Keys \cup {None}, id : Ids \cup {None}, now : 0 .. MaxSends,
           body : Bodies \cup {Blank}, says : Content \cup {None}]
Idle == [at |-> "idle", user |-> None, room |-> None, key |-> None, id |-> None,
         now |-> 0, body |-> Blank, says |-> None]

TypeOK ==
  /\ rooms \in SUBSET Rooms
  /\ members \in SUBSET (Rooms \X Users)
  /\ messages \in [Ids -> Row \cup {None}]
  /\ lastMessageAt \in [Rooms -> 0 .. MaxSends]
  /\ lastRead \in [Rooms \X Users -> Ids \cup {None}]
  /\ clock \in 0 .. MaxSends
  /\ request \in [Requests -> Locals]
  /\ reader \in Reader
  /\ view \in [Ids -> Content \cup {None}]
  /\ unsettled \in SUBSET Ids
  /\ raced \in SUBSET Ids
  /\ jumbled \in SUBSET Rooms

Init ==
  /\ rooms = Rooms
  /\ members = Rooms \X Users
  /\ messages = [m \in Ids |-> None]
  /\ lastMessageAt = [r \in Rooms |-> 0]
  /\ lastRead = [x \in Rooms \X Users |-> None]
  /\ clock = 0
  /\ request = [p \in Requests |-> Idle]
  /\ reader = Away
  /\ view = [m \in Ids |-> None]
  /\ unsettled = {}
  /\ raced = {}
  /\ jumbled = {}

-----------------------------------------------------------------------------
Exists(m) == messages[m] # None
ContentOf(row) == [body |-> row.body, deleted |-> row.deleted]
IsMember(r, u) == <<r, u>> \in members

Start(p, r) == request[p] = Idle /\ request' = [request EXCEPT ![p] = r]
Goto(p, stage) == request' = [request EXCEPT ![p].at = stage]
Fail(p) == request' = [request EXCEPT ![p] = Idle]

\* p holds a state of m that it has not published yet.
Publishing(p, m) ==
  request[p].at \in {"bump", "publish"} /\ request[p].id = m /\ request[p].says # None

\* p is between the check and the bump of a send to r.
Sending(p, r) == request[p].at \in {"insert", "bump"} /\ request[p].room = r

\* What is published of a row after an update: the row returned.  The variant
\* publishes the row as it was read.
SaysAsRead(m, row) == ContentOf(messages[m])
Says(m, row) == ContentOf(row)

\* UPDATE messages SET ... WHERE id = m by p, which goes on to publish the outcome.
\* The row may be gone with its room; the mapping of the missing row throws.
Rewrite(p, body, deleted) ==
  LET m == request[p].id
      row == [messages[m] EXCEPT !.body = body, !.deleted = deleted]
  IN \/ /\ ~ Exists(m)
        /\ Fail(p)
        /\ UNCHANGED <<messages, unsettled>>
     \/ /\ Exists(m)
        /\ messages' = [messages EXCEPT ![m] = row]
        /\ request' = [request EXCEPT ![p].at = "publish", ![p].says = Says(m, row)]
        /\ unsettled' = unsettled \cup
             {x \in {m} : reader # Away /\ \E q \in Requests \ {p} : Publishing(q, m)}

-----------------------------------------------------------------------------
(* send-message.ts                                                         *)

\* A key names one message of its sender, unless the client reuses it elsewhere.
UsedElsewhere(u, k, r) ==
  /\ "rekey" \notin Operations
  /\ \/ \E m \in Ids : /\ Exists(m) /\ messages[m].sender = u
                       /\ messages[m].key = k /\ messages[m].room # r
     \/ \E q \in Requests : /\ request[q].at \in {"insert", "bump"}
                            /\ request[q].user = u /\ request[q].key = k
                            /\ request[q].room # r

\* getMember, and then the id and the time of the message.
SendCheck(p) ==
  \E r \in Rooms, u \in Users, k \in Keys \cup {None}, b \in Bodies :
    /\ IsMember(r, u)
    /\ k = None \/ ~ UsedElsewhere(u, k, r)
    /\ clock < MaxSends
    /\ clock' = clock + 1
    /\ Start(p, [Idle EXCEPT !.at = "insert", !.user = u, !.room = r, !.key = k,
                             !.id = clock + 1, !.now = clock + 1, !.body = b])
    /\ jumbled' = jumbled \cup {x \in {r} : \E q \in Requests : Sending(q, r)}
    /\ UNCHANGED <<tables, readerVars, unsettled, raced>>

\* The rows ON CONFLICT (sender_id, client_message_id) finds.  The variant
\* leaves the sender out.
ConflictingAnySender(u, k) ==
  {m \in Ids : Exists(m) /\ k # None /\ messages[m].key = k}
Conflicting(u, k) ==
  {m \in Ids : Exists(m) /\ k # None /\ messages[m].key = k /\ messages[m].sender = u}

\* insert: DO UPDATE returns the row in the way and changes nothing in it.
SendInsert(p) ==
  LET r == request[p]
      new == [room |-> r.room, sender |-> r.user, key |-> r.key, body |-> r.body,
              deleted |-> FALSE]
      Return(m, row) ==
        /\ messages' = [messages EXCEPT ![m] = row]
        /\ request' = [request EXCEPT ![p].at = "bump", ![p].id = m,
                                      ![p].says = ContentOf(row)]
  IN /\ r.at = "insert"
     /\ \/ \E m \in Conflicting(r.user, r.key) :
             Return(m, messages[m])
        \/ /\ Conflicting(r.user, r.key) = {}
           /\ r.room \in rooms
           /\ Return(r.id, new)
        \/ /\ Conflicting(r.user, r.key) = {}
           /\ r.room \notin rooms       \* the foreign key fails
           /\ Fail(p) /\ UNCHANGED messages
     /\ UNCHANGED <<rooms, members, lastMessageAt, lastRead, clock, readerVars, notes>>

\* bumpLastMessageAt.  The variant only fills in a missing time.
BumpedOnce(r) == IF lastMessageAt[r.room] = 0 THEN r.now ELSE lastMessageAt[r.room]
BumpedTo(r) == r.now

SendBump(p) ==
  LET r == request[p]
  IN /\ r.at = "bump"
     /\ lastMessageAt' = IF r.room \in rooms
                         THEN [lastMessageAt EXCEPT ![r.room] = BumpedTo(r)]
                         ELSE lastMessageAt
     /\ Goto(p, "publish")
     /\ UNCHANGED <<rooms, members, messages, lastRead, clock, readerVars, notes>>

-----------------------------------------------------------------------------
(* edit-message.ts, delete-message.ts                                      *)

\* findById and the checks on the row.  A message id can be learnt as soon as the
\* row is there, from the REST listing.
EditRead(p) ==
  /\ "edit" \in Operations
  /\ \E m \in Ids, b \in Bodies :
       /\ Exists(m) /\ ~ messages[m].deleted /\ messages[m].body # b
       /\ Start(p, [Idle EXCEPT !.at = "update", !.user = messages[m].sender,
                       !.room = messages[m].room, !.id = m, !.body = b])
  /\ UNCHANGED <<tables, clock, readerVars, notes>>

\* update: the body, whether the message is deleted by now or not.  Variant:
\* the update brings the message back.
UndeletedByEdit(m) == FALSE
DeletedAfterEdit(m) == Exists(m) /\ messages[m].deleted

EditUpdate(p) ==
  /\ request[p].at = "update"
  /\ Rewrite(p, request[p].body, DeletedAfterEdit(request[p].id))
  /\ UNCHANGED <<rooms, members, lastMessageAt, lastRead, clock, readerVars, raced, jumbled>>

DeleteRead(p) ==
  /\ "delete" \in Operations
  /\ \E m \in Ids, u \in Users :
       /\ Exists(m) /\ ~ messages[m].deleted
       /\ Start(p, [Idle EXCEPT !.user = u, !.room = messages[m].room, !.id = m,
              !.at = IF messages[m].sender = u THEN "softDelete" ELSE "authorize"])
  /\ UNCHANGED <<tables, clock, readerVars, notes>>

\* getMember: somebody else's message takes an owner or admin of the room.
DeleteAuthorize(p) ==
  /\ request[p].at = "authorize"
  /\ IF IsMember(request[p].room, request[p].user) /\ request[p].user \in Admins
     THEN Goto(p, "softDelete") ELSE Fail(p)
  /\ UNCHANGED <<tables, clock, readerVars, notes>>

\* The body softDelete leaves, that of a message without text.  The variant keeps it.
BodyKept(m) == IF Exists(m) THEN messages[m].body ELSE Blank
BodyDeleted(m) == Blank

DeleteMark(p) ==
  LET m == request[p].id
  IN /\ request[p].at = "softDelete"
     /\ Rewrite(p, BodyDeleted(m), TRUE)
     /\ raced' = raced \cup {x \in {m} : \E q \in Requests :
                              request[q].at = "update" /\ request[q].id = m}
     /\ UNCHANGED <<rooms, members, lastMessageAt, lastRead, clock, readerVars, jumbled>>

-----------------------------------------------------------------------------
(* mark-as-read.ts                                                         *)

\* getMember.
ReadCheck(p) ==
  /\ "read" \in Operations
  /\ \E r \in Rooms, u \in Users, m \in 1 .. clock :
       /\ IsMember(r, u)
       /\ Start(p, [Idle EXCEPT !.at = "findRead", !.user = u, !.room = r, !.id = m])
  /\ UNCHANGED <<tables, clock, readerVars, notes>>

\* findById: the message exists in the room.  The variant does not look at
\* the room.
ReadableAnywhere(m, r) == Exists(m)
Readable(m, r) == Exists(m) /\ messages[m].room = r

ReadFind(p) ==
  /\ request[p].at = "findRead"
  /\ IF Readable(request[p].id, request[p].room) THEN Goto(p, "setRead") ELSE Fail(p)
  /\ UNCHANGED <<tables, clock, readerVars, notes>>

\* setLastReadMessage: nothing is stored if the member has left.  The foreign key
\* to the message holds: its room can only go together with the member.
ReadSet(p) ==
  LET r == request[p]
  IN /\ r.at = "setRead"
     /\ lastRead' = IF IsMember(r.room, r.user)
                    THEN [lastRead EXCEPT ![<<r.room, r.user>>] = r.id] ELSE lastRead
     /\ Goto(p, "publish")
     /\ UNCHANGED <<rooms, members, messages, lastMessageAt, clock, readerVars, notes>>

-----------------------------------------------------------------------------
(* Every use case ends with an event in the channel of the room            *)

\* The client that reads the room hears it.  A read receipt says nothing about the
\* message.
Publish(p) ==
  LET r == request[p]
  IN /\ r.at = "publish"
     /\ view' = IF r.room = reader.room /\ r.says # None
                THEN [view EXCEPT ![r.id] = r.says] ELSE view
     /\ Fail(p)
     /\ UNCHANGED <<tables, clock, reader, notes>>

-----------------------------------------------------------------------------
(* list-messages.ts                                                        *)

\* getMember, for the user of the client.
MayList(r) == \E u \in Users : IsMember(r, u)

\* A client subscribes to the events of a room.
Follow(r) ==
  /\ "list" \in Operations
  /\ reader = Away /\ MayList(r)
  /\ reader' = [at |-> "paging", room |-> r, before |-> None]
  /\ unsettled' = {m \in Ids : \E p \in Requests :
                     Publishing(p, m) /\ Exists(m) /\ request[p].says # ContentOf(messages[m])}
  /\ UNCHANGED <<tables, clock, request, view, raced, jumbled>>

\* listByRoom: the PageSize latest messages of the room before the cursor.  The
\* variant takes the oldest ones.
Listed(r, before) ==
  {m \in Ids : Exists(m) /\ messages[m].room = r /\ (before = None \/ m < before)}
PageOldest(r, before) ==
  {m \in Listed(r, before) :
     Cardinality({n \in Listed(r, before) : n < m}) < PageSize}
Page(r, before) ==
  {m \in Listed(r, before) :
     Cardinality({n \in Listed(r, before) : n > m}) < PageSize}

\* The answer is merged into what the events have said, which is at least as new, so
\* that it does not matter how long it takes.  getMember and listByRoom are one step: a
\* user who leaves between them gets one page more.
LoadPage ==
  LET page == Page(reader.room, reader.before)
  IN /\ reader.at = "paging" /\ MayList(reader.room)
     /\ view' = [m \in Ids |-> IF m \in page /\ view[m] = None
                               THEN ContentOf(messages[m]) ELSE view[m]]
     /\ IF Cardinality(page) < PageSize
        THEN reader' = [reader EXCEPT !.at = "done", !.before = None]
        ELSE \E oldest \in page :
               /\ \A m \in page : oldest <= m
               /\ reader' = [reader EXCEPT !.before = oldest]
     /\ UNCHANGED <<tables, clock, request, notes>>

-----------------------------------------------------------------------------
(* Failures, and changes of the rooms                                      *)

Crash(p) ==
  /\ "crash" \in Operations
  /\ request[p] # Idle
  /\ Fail(p)
  /\ unsettled' = unsettled \cup {m \in Ids : reader # Away /\ Publishing(p, m)}
  /\ jumbled' = jumbled \cup {r \in Rooms : Sending(p, r)}
  /\ UNCHANGED <<tables, clock, readerVars, raced>>

\* removeMember and deleteRoom (pg-room-repository.ts): the members, the messages
\* and the read pointers go with the room.
Leave(r, u) ==
  /\ "leave" \in Operations
  /\ IsMember(r, u)
  /\ members' = members \ {<<r, u>>}
  /\ lastRead' = [lastRead EXCEPT ![<<r, u>>] = None]
  /\ UNCHANGED <<rooms, messages, lastMessageAt, clock, request, readerVars, notes>>

DropRoom(r) ==
  /\ "drop" \in Operations
  /\ r \in rooms
  /\ rooms' = rooms \ {r}
  /\ members' = {x \in members : x[1] # r}
  /\ messages' = [m \in Ids |-> IF Exists(m) /\ messages[m].room = r THEN None
                                                                     ELSE messages[m]]
  /\ lastRead' = [x \in Rooms \X Users |-> IF x[1] = r THEN None ELSE lastRead[x]]
  /\ lastMessageAt' = [lastMessageAt EXCEPT ![r] = 0]
  /\ UNCHANGED <<clock, request, readerVars, notes>>

Send(p) == SendCheck(p) \/ SendInsert(p) \/ SendBump(p)
Edit(p) == EditRead(p) \/ EditUpdate(p)
Delete(p) == DeleteRead(p) \/ DeleteAuthorize(p) \/ DeleteMark(p)
MarkAsRead(p) == ReadCheck(p) \/ ReadFind(p) \/ ReadSet(p)

Next ==
  \/ \E p \in Requests :
       Send(p) \/ Edit(p) \/ Delete(p) \/ MarkAsRead(p) \/ Publish(p) \/ Crash(p)
  \/ \E r \in Rooms : Follow(r) \/ DropRoom(r) \/ \E u \in Users : Leave(r, u)
  \/ LoadPage

Spec == Init /\ [][Next]_vars

-----------------------------------------------------------------------------
(* However the requests interleave                                         *)

\* A client that subscribes to a room and then pages back to its beginning knows
\* every message as the table has it, although ids are drawn before the insert, so
\* that a message may appear above the cursor: its event comes after the insert.  The
\* exceptions are messages two requests changed so closely that the second wrote
\* before the first had published (each publishes what its statement returned), and
\* messages whose event was lost in a crash.
ReadersCatchUp ==
  reader.at = "done" =>
    \A m \in Ids :
      /\ Exists(m) /\ messages[m].room = reader.room /\ m \notin unsettled
      /\ \A p \in Requests : ~ Publishing(p, m)
      => view[m] = ContentOf(messages[m])

\* The body of a deleted message is gone, unless an edit had passed its checks
\* when the message was deleted: update does not look at deleted_at
\* (edit-message.ts, 17-26; pg-message-repository.ts, 74-95).
DeletedIsBlank ==
  \A m \in Ids : Exists(m) /\ messages[m].deleted /\ messages[m].body # Blank
                 => m \in raced

\* Neither a late edit nor a retried send brings a deleted message back.
DeletedStaysDeleted ==
  [][\A m \in Ids : Exists(m) /\ messages[m].deleted /\ Exists(m)'
                    => messages'[m].deleted]_vars

\* "same clientMessageId returns same message" (send-message.test.ts): a send that
\* is to answer, first attempt or retry, answers with the one message its sender
\* stored under the key, as long as the room has not been deleted.
AnswersTheMessageOfTheKey ==
  \A p \in Requests : LET r == request[p] IN
    r.key # None /\ r.at \in {"bump", "publish"} /\ Exists(r.id) =>
      Conflicting(r.user, r.key) = {r.id} /\ messages[r.id].sender = r.user

\* Events about a message go to the room of the message, so those who hear them
\* are members of the room the message is in.
EventsStayInTheirRoom ==
  \A p \in Requests : LET r == request[p] IN
    r.at = "publish" /\ Exists(r.id) => messages[r.id].room = r.room

\* A read pointer is at an existing message of the room.
ReadPointersInRoom ==
  \A r \in Rooms, u \in Users : LET m == lastRead[<<r, u>>] IN
    m # None => Exists(m) /\ messages[m].room = r

\* The order of the room list: between sends, last_message_at of a room is not
\* older than any of its messages.  Overlapping sends are the exception, for
\* bumpLastMessageAt overwrites a later time with an earlier one.
ListedByLatest ==
  \A m \in Ids : Exists(m) =>
    LET r == messages[m].room
    IN r \in jumbled \/ (\E p \in Requests : Sending(p, r)) \/ lastMessageAt[r] >= m
=============================================================================
