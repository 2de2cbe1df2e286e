------------------------ MODULE ConnectionRegistry -------------------------
(***************************************************************************)
(* The WebSocket side of one instance: ConnectionRegistry                  *)
(* (src/infrastructure/ws/connection-registry.ts), the open and close      *)
(* callbacks of the gateway and the chat.subscribe / chat.unsubscribe      *)
(* handlers, over the bus of RedisMessageBus.                              *)
(*                                                                         *)
(* The sockets' callbacks and the continuations of their awaits interleave *)
(* on one JavaScript thread: each action below is what runs between two    *)
(* awaits on I/O.  A frame naming several rooms is the succession of       *)
(* frames naming one room each; the acknowledgements are left out.         *)
(***************************************************************************)
EXTENDS RedisMessageBus, FiniteSets

CONSTANTS
  Conns,      \* sockets; each opens and closes at most once
  Presence,   \* the channel "presence:global"; the others are rooms
  NoEntry     \* no entry in roomBusUnsub, and a null presenceUnsub

Rooms == Channels \ {Presence}

ASSUME RegistryAssumption ==
  /\ Presence \in Channels
  /\ NoEntry \notin Handlers
  /\ NoEntry \notin [unsub : Handlers, refCount : Nat \ {0}]
  /\ IsFiniteSet(Conns)

VARIABLES
  unopened,       \* sockets whose open callback has not run
  userConns,      \* registered sockets (the per-user grouping is left out)
  rooms,          \* ws.data.rooms of each socket
  roomLocalSubs,  \* room -> sockets the room's events are sent to
  roomBusUnsub,   \* room -> the unsub closure kept, and its refCount
  presenceUnsub,  \* the handler the kept presence closure removes
  lookups,        \* getMember calls in flight for chat.subscribe
  happened        \* what the specification notes, see below

regVars == <<unopened, userConns, rooms, roomLocalSubs, roomBusUnsub,
             presenceUnsub, lookups>>
vars == <<busVars, regVars, happened>>

\* "stray":   a client sent chat.unsubscribe for a room it does not hold
\* "overlap": bus.subscribe was called for a channel while another call for it
\*            awaited Redis
\* "leave":   a socket left a room, or closed, while one of its own lookups or a
\*            bus.subscribe of a channel it is in awaited an answer
\* "reject":  Redis rejected a SUBSCRIBE
\* The code excludes none of them; each makes the registry's bookkeeping err in
\* its own way, and a property says which ones it tolerates.
Disturbances == {"stray", "overlap", "leave", "reject"}

Entry == [unsub : Handlers, refCount : Nat \ {0}]

TypeOK ==
  /\ BusTypeOK
  /\ unopened \in SUBSET Conns
  /\ userConns \in SUBSET Conns
  /\ rooms \in [Conns -> SUBSET Rooms]
  /\ roomLocalSubs \in [Rooms -> SUBSET Conns]
  /\ roomBusUnsub \in [Rooms -> Entry \cup {NoEntry}]
  /\ presenceUnsub \in Handlers \cup {NoEntry}
  /\ lookups \in SUBSET (Conns \X Rooms)
  /\ happened \in SUBSET Disturbances

Init ==
  /\ BusInit
  /\ unopened = Conns
  /\ userConns = {}
  /\ rooms = [c \in Conns |-> {}]
  /\ roomLocalSubs = [r \in Rooms |-> {}]
  /\ roomBusUnsub = [r \in Rooms |-> NoEntry]
  /\ presenceUnsub = NoEntry
  /\ lookups = {}
  /\ happened = {}

-----------------------------------------------------------------------------
\* A handler closure for a new bus.subscribe call on ch.  Names that nothing refers
\* to are interchangeable: one of them is enough.
IsFreeName(ch, h) ==
  /\ Unreferenced(ch, h)
  /\ IF ch = Presence THEN presenceUnsub # h
     ELSE roomBusUnsub[ch] # NoEntry => roomBusUnsub[ch].unsub # h

IsNewHandler(ch, h) ==
  IsFreeName(ch, h) /\ h = CHOOSE name \in Handlers : IsFreeName(ch, name)

\* No bus.subscribe call for ch awaits Redis.
Settled(ch) == Awaiting(ch) = {}

\* What is noted of a bus.subscribe call for ch, and of c leaving the channels chs.
Overlap(ch) == IF Settled(ch) THEN {} ELSE {"overlap"}
Leaving(c, chs) ==
  IF (\A ch \in chs : Settled(ch)) /\ (\A r \in Rooms : <<c, r>> \notin lookups)
  THEN {} ELSE {"leave"}
Note(disturbances) == happened' = happened \cup disturbances

\* open: register the socket; without a presence closure, subscribe to the
\* presence channel and do not wait for it.
Open(c) ==
  /\ c \in unopened
  /\ unopened' = unopened \ {c}
  /\ userConns' = userConns \cup {c}
  /\ IF presenceUnsub # NoEntry
     THEN UNCHANGED <<busVars, presenceUnsub, happened>>
     ELSE /\ Note(Overlap(Presence))
          /\ \E h \in Handlers :
               /\ IsNewHandler(Presence, h)
               /\ \/ SubscribeFirst(Presence, h) /\ UNCHANGED presenceUnsub
                  \/ SubscribeMore(Presence, h) /\ presenceUnsub' = h
  /\ UNCHANGED <<rooms, roomLocalSubs, roomBusUnsub, lookups>>

\* A chat.subscribe frame: the handler asks Postgres whether the user is a
\* member.  An answer "no" skips the room and changes nothing, so only the
\* lookups that will answer "yes" are kept.
ChatSubscribe(c, r) ==
  /\ c \in userConns
  /\ lookups' = lookups \cup {<<c, r>>}
  /\ UNCHANGED <<busVars, unopened, userConns, rooms, roomLocalSubs,
                 roomBusUnsub, presenceUnsub, happened>>

\* if (!ws.data.rooms.has(roomId)) of the chat.subscribe handler; the variant is
\* the handler without the test.
HoldsNothing(c, r) == FALSE
HoldsRoom(c, r) == r \in rooms[c]

\* The bus side of subscribeRoom.  The variant does not look for the entry.
JoinBusUnshared(r) == \E h \in Handlers :
  /\ IsNewHandler(r, h)
  /\ \/ SubscribeFirst(r, h) /\ UNCHANGED roomBusUnsub
     \/ /\ SubscribeMore(r, h)
        /\ roomBusUnsub' = [roomBusUnsub EXCEPT ![r] = [unsub |-> h, refCount |-> 1]]

JoinBus(r) ==
  \/ /\ roomBusUnsub[r] # NoEntry
     /\ roomBusUnsub' = [roomBusUnsub EXCEPT ![r].refCount = @ + 1]
     /\ UNCHANGED busVars
  \/ /\ roomBusUnsub[r] = NoEntry
     /\ \E h \in Handlers :
          /\ IsNewHandler(r, h)
          /\ \/ SubscribeFirst(r, h) /\ UNCHANGED roomBusUnsub
             \/ /\ SubscribeMore(r, h)
                /\ roomBusUnsub' = [roomBusUnsub EXCEPT
                     ![r] = [unsub |-> h, refCount |-> 1]]

\* The membership lookup answers and the handler goes on, whatever has happened
\* to the socket meanwhile: unless it holds the room already, subscribeRoom.
SubscribeRoom(c, r) ==
  /\ <<c, r>> \in lookups
  /\ lookups' = lookups \ {<<c, r>>}
  /\ \/ /\ HoldsRoom(c, r)
        /\ UNCHANGED <<busVars, rooms, roomLocalSubs, roomBusUnsub, happened>>
     \/ /\ ~ HoldsRoom(c, r)
        /\ Note(Overlap(r))
        /\ roomLocalSubs' = [roomLocalSubs EXCEPT ![r] = @ \cup {c}]
        /\ rooms' = [rooms EXCEPT ![c] = @ \cup {r}]
        /\ JoinBus(r)
  /\ UNCHANGED <<unopened, userConns, presenceUnsub>>

\* The entries of rs whose refCount reaches zero when a socket leaves the rooms
\* rs.  Variants: the threshold of line 73 off by one, either way.
GoneBelowZero(rs) == {r \in rs : roomBusUnsub[r] # NoEntry /\ roomBusUnsub[r].refCount = 0}
GoneAtOne(rs) == {r \in rs : roomBusUnsub[r] # NoEntry /\ roomBusUnsub[r].refCount <= 2}
Gone(rs) == {r \in rs : roomBusUnsub[r] # NoEntry /\ roomBusUnsub[r].refCount = 1}

\* The socket's side of unsubscribeRoom; the variant leaves ws.data.rooms alone.
ForgetSocketOnly(c, rs) ==
  /\ roomLocalSubs' = [r \in Rooms |-> IF r \in rs THEN roomLocalSubs[r] \ {c}
                                                   ELSE roomLocalSubs[r]]
  /\ UNCHANGED rooms

ForgetSocket(c, rs) ==
  /\ roomLocalSubs' = [r \in Rooms |-> IF r \in rs THEN roomLocalSubs[r] \ {c}
                                                   ELSE roomLocalSubs[r]]
  /\ rooms' = [rooms EXCEPT ![c] = @ \ rs]

\* unsubscribeRoom for each room of rs, without asking whether c holds it.
UnsubscribeRooms(c, rs) ==
  /\ ForgetSocket(c, rs)
  /\ roomBusUnsub' = [r \in Rooms |->
       IF r \in Gone(rs) THEN NoEntry
       ELSE IF r \in rs /\ roomBusUnsub[r] # NoEntry
       THEN [roomBusUnsub[r] EXCEPT !.refCount = @ - 1]
       ELSE roomBusUnsub[r]]

ChatUnsubscribe(c, r) ==
  /\ c \in userConns
  /\ Note(Leaving(c, {r}) \cup (IF r \in rooms[c] THEN {} ELSE {"stray"}))
  /\ UnsubscribeRooms(c, {r})
  /\ Unsubscribe([x \in Gone({r}) |-> roomBusUnsub[x].unsub])
  /\ UNCHANGED <<unopened, userConns, presenceUnsub, lookups>>

\* unregister drops the presence closure with the last socket; the variant, never.
DropsPresenceNever(c) == FALSE
DropsPresence(c) == userConns = {c} /\ presenceUnsub # NoEntry

\* close: unregister.  The lookups of the socket stay in flight.
Close(c) ==
  LET dropped == Gone(rooms[c]) \cup (IF DropsPresence(c) THEN {Presence} ELSE {})
  IN /\ c \in userConns
     /\ Note(Leaving(c, rooms[c] \cup {Presence}))
     /\ userConns' = userConns \ {c}
     /\ UnsubscribeRooms(c, rooms[c])
     /\ Unsubscribe([x \in dropped |-> IF x = Presence THEN presenceUnsub
                                                       ELSE roomBusUnsub[x].unsub])
     /\ presenceUnsub' = IF DropsPresence(c) THEN NoEntry ELSE presenceUnsub
     /\ UNCHANGED <<unopened, lookups>>

\* Redis confirms a SUBSCRIBE: the bus call returns and its caller, in the same
\* run of the event loop, keeps the closure, over any other it may have kept.
SubscribeConfirmed(ch, h) ==
  /\ AnswerSubscribe(ch, h)
  /\ IF ch = Presence
     THEN presenceUnsub' = h /\ UNCHANGED roomBusUnsub
     ELSE /\ roomBusUnsub' = [roomBusUnsub EXCEPT
               ![ch] = [unsub |-> h, refCount |-> 1]]
          /\ UNCHANGED presenceUnsub
  /\ UNCHANGED <<unopened, userConns, rooms, roomLocalSubs, lookups, happened>>

SubscribeRejected(ch, h) ==
  /\ RejectSubscribe(ch, h)
  /\ Note({"reject"})
  /\ UNCHANGED regVars

UnsubscribeConfirmed(ch) == AnswerUnsubscribe(ch) /\ UNCHANGED <<regVars, happened>>

Next ==
  \/ \E c \in Conns : Open(c) \/ Close(c)
  \/ \E c \in Conns, r \in Rooms :
       ChatSubscribe(c, r) \/ SubscribeRoom(c, r) \/ ChatUnsubscribe(c, r)
  \/ \E ch \in Channels, h \in Handlers :
       SubscribeConfirmed(ch, h) \/ SubscribeRejected(ch, h)
  \/ \E ch \in Channels : UnsubscribeConfirmed(ch)

Spec == Init /\ [][Next]_vars

\* Redis answers every command: its connection is kept open and in order.
FairSpec ==
  /\ Spec
  /\ \A ch \in Channels : WF_vars(\E h \in Handlers : SubscribeConfirmed(ch, h))
  /\ \A ch \in Channels : WF_vars(UnsubscribeConfirmed(ch))

-----------------------------------------------------------------------------
\* The sockets an event of ch is written to, per live handler (the callbacks of
\* lines 25 and 55 call fanOutPresence and fanOutBusEvent).
Audience(ch) == IF ch = Presence THEN userConns ELSE roomLocalSubs[ch]

\* How many copies of one event of ch, arriving now, are written to c.
Copies(c, ch) ==
  IF c \in Audience(ch) /\ ch \in subscribed
  THEN Cardinality(LiveHandlers(ch)) ELSE 0

\* The sockets that asked for a room, maybe before their membership is known, and
\* those its events reach.
Asked == lookups \cup {x \in Conns \X Rooms : x[1] \in roomLocalSubs[x[2]]}
Hearing == {x \in Conns \X Rooms : Copies(x[1], x[2]) >= 1}

(* Whatever clients do                                                     *)

\* roomLocalSubs and the sockets' own ws.data.rooms are one relation kept
\* twice: close walks the second to clean the first (lines 31-33), so a pair
\* missing from either would leave a socket in a room for good.
SubsMirrorRooms ==
  \A c \in Conns, r \in Rooms : c \in roomLocalSubs[r] <=> r \in rooms[c]

\* As long as Redis rejects nothing, the map of the bus, the commands sent and
\* the subscriptions Redis holds agree, and no empty Set is left behind
\* (redis-message-bus.ts, 21-42): a channel is never subscribed without a key,
\* nor a key kept that makes later calls skip their SUBSCRIBE in vain.
BusInStep == "reject" \notin happened => MapMatchesWire /\ EmptySetIsAwaited

(* Delivery                                                                *)

\* "cada instancia con suscriptores locales para ese room entrega el evento a
\* sus conexiones WS" (README.md, Multi-instancia): with no command of a channel
\* outstanding, an event of it reaches every open socket in its audience.
EverySubscriberReached ==
  \A ch \in Channels : wire[ch] = <<>> =>
    \A c \in Audience(ch) \cap userConns : Copies(c, ch) >= 1

\* The registry implements an ideal feed, which fails once a subscription overlaps
\* another, is rejected or a socket leaves a room it is not in: whatever commands
\* are on the wire, a socket an event has reached is reached by all that follow
\* until it leaves (lines 45-78), and nobody is written to who has not asked.
Feed == INSTANCE RoomFeed WITH Rooms <- Rooms, asked <- Asked, hearing <- Hearing,
                               intact <- happened \subseteq {"leave"}
ImplementsFeed == Feed!Spec

\* It holds as long as nothing was rejected or stray and calls that overlapped did
\* not meet sockets that left: lines 51-58 and 70-76 survive either, but not both.
ReachedDespiteRaces ==
  happened \subseteq {"overlap"} \/ happened \subseteq {"leave"} => EverySubscriberReached

\* The same promise of the README, with the excuse that Redis rejected something
\* but without any other: a client may send chat.unsubscribe for a room it does not
\* hold, and calls may meet departures.
ReachedUnlessRejected == "reject" \notin happened => EverySubscriberReached

\* No socket is ever sent one event twice: however subscriptions and departures of
\* several sockets interleave, the instance keeps a single handler per channel.
\* Calls that overlap break it (lines 25 and 51-58 test what they only set after
\* an await).
NeverTwice ==
  "overlap" \notin happened => \A c \in Conns, ch \in Channels : Copies(c, ch) <= 1

\* refCount counts the local subscribers: the last one to leave, and only the last,
\* drops the bus subscription (lines 70-76).  Sockets that leave while a subscribe
\* is in flight make it too high, a leaked subscription, but never too low, which
\* would silence the room.
RefCountIsSubscribers ==
  \A r \in Rooms :
    /\ happened \subseteq {"leave"} /\ roomBusUnsub[r] # NoEntry =>
         roomBusUnsub[r].refCount >= Cardinality(roomLocalSubs[r])
    /\ happened = {} /\ Settled(r) =>
         IF roomBusUnsub[r] = NoEntry THEN roomLocalSubs[r] = {}
         ELSE roomBusUnsub[r].refCount = Cardinality(roomLocalSubs[r])

\* Nothing outlives its audience: a channel without local listeners is neither in
\* the map nor, once Redis has answered, subscribed to (lines 39-42 and 70-76).
NothingLeaks ==
  happened = {} =>
    \A ch \in Channels : Settled(ch) /\ Audience(ch) = {} =>
      /\ channelHandlers[ch] = NoSet
      /\ wire[ch] = <<>> => ch \notin subscribed

\* A subscription takes effect: a socket that joined a room, maybe while another
\* one's bus.subscribe was in flight, is eventually reached by its events, unless it
\* leaves or something worse than an overlap happens.
SubscriptionTakesEffect ==
  \A c \in Conns, r \in Rooms :
    c \in roomLocalSubs[r] ~>
      \/ Copies(c, r) >= 1 \/ c \notin roomLocalSubs[r]
      \/ ~ (happened \subseteq {"overlap"})
=============================================================================
