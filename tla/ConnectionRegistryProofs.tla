--------------------- MODULE ConnectionRegistryProofs ----------------------
(***************************************************************************)
(* Proofs about ConnectionRegistry and the bus it calls, for any sets of   *)
(* sockets, channels and handlers.                                         *)
(*                                                                         *)
(* Types and the agreement of the map with the wire come first, from what  *)
(* each call of the bus and each answer of Redis preserves.  Then a step   *)
(* is seen from one channel: ChannelStep and RoomStep list the few things  *)
(* that any action can be for a channel it may not even name.  The phases  *)
(* of a channel, the counting of its audience and what overlapping calls   *)
(* leave behind are invariants of those steps, and the theorems follow.    *)
(***************************************************************************)
EXTENDS ConnectionRegistry, FiniteSetTheorems, TLAPS

-----------------------------------------------------------------------------
(* The bus                                                                 *)

\* What a command appended to a wire changes.
LEMMA AppendLast ==
  ASSUME NEW S, NEW s \in Seq(S), NEW x \in S
  PROVE  /\ Append(s, x) # <<>> /\ Len(Append(s, x)) = Len(s) + 1 /\ Len(s) \in Nat
         /\ Append(s, x)[Len(s) + 1] = x
         /\ \A i \in 1..Len(s) : Append(s, x)[i] = s[i]
  OBVIOUS

\* Each operation of the bus keeps the types of its state.
LEMMA SubscribeFirstType ==
  ASSUME BusTypeOK, NEW ch \in Channels, NEW h \in Handlers, SubscribeFirst(ch, h)
  PROVE  BusTypeOK'
<1>1. channelHandlers' \in [Channels -> HandlerSet \cup {NoSet}]
  BY DEF BusTypeOK, SubscribeFirst, HandlerSet
<1>2. wire' \in [Channels -> Seq(Handlers \cup {UNSUBSCRIBE})]
  BY DEF BusTypeOK, SubscribeFirst
<1>3. QED BY <1>1, <1>2 DEF BusTypeOK, SubscribeFirst

LEMMA SubscribeMoreType ==
  ASSUME BusTypeOK, NEW ch \in Channels, NEW h \in Handlers, SubscribeMore(ch, h)
  PROVE  BusTypeOK'
<1>1. channelHandlers[ch] \in HandlerSet
  BY DEF BusTypeOK, SubscribeMore
<1>2. channelHandlers' \in [Channels -> HandlerSet \cup {NoSet}]
  BY <1>1 DEF BusTypeOK, SubscribeMore, HandlerSet
<1>3. QED BY <1>2 DEF BusTypeOK, SubscribeMore

LEMMA UnsubscribeType ==
  ASSUME BusTypeOK, NEW calls, DOMAIN calls \subseteq Channels,
         \A ch \in DOMAIN calls : calls[ch] \in Handlers, Unsubscribe(calls)
  PROVE  BusTypeOK'
<1>1. ASSUME NEW ch \in Channels, NEW h \in Handlers
      PROVE  WithoutHandler(ch, h) \in HandlerSet \cup {NoSet}
  BY DEF BusTypeOK, WithoutHandler, LiveHandlers, HandlerSet
<1>2. channelHandlers' \in [Channels -> HandlerSet \cup {NoSet}]
  BY <1>1 DEF BusTypeOK, Unsubscribe
<1>3. wire' \in [Channels -> Seq(Handlers \cup {UNSUBSCRIBE})]
  BY DEF BusTypeOK, Unsubscribe
<1>4. QED BY <1>2, <1>3 DEF BusTypeOK, Unsubscribe

LEMMA AnsweredType ==
  ASSUME BusTypeOK, NEW ch \in Channels, Answered(ch)
  PROVE  wire' \in [Channels -> Seq(Handlers \cup {UNSUBSCRIBE})]
  BY DEF BusTypeOK, Answered

LEMMA AnswerUnsubscribeType ==
  ASSUME BusTypeOK, NEW ch \in Channels, AnswerUnsubscribe(ch)
  PROVE  BusTypeOK'
  BY AnsweredType DEF BusTypeOK, AnswerUnsubscribe

LEMMA AnswerSubscribeType ==
  ASSUME BusTypeOK, NEW ch \in Channels, NEW h \in Handlers, AnswerSubscribe(ch, h)
  PROVE  BusTypeOK'
<1>1. wire' \in [Channels -> Seq(Handlers \cup {UNSUBSCRIBE})]
  BY AnsweredType DEF AnswerSubscribe
<1>2. channelHandlers' \in [Channels -> HandlerSet \cup {NoSet}]
  <2>1. CASE channelHandlers[ch] # NoSet /\ channelHandlers[ch].set = h
    <3>1. channelHandlers[ch] \in HandlerSet
      BY <2>1 DEF BusTypeOK
    <3>2. QED BY <2>1, <3>1 DEF BusTypeOK, AnswerSubscribe, HandlerSet
  <2>2. CASE ~(channelHandlers[ch] # NoSet /\ channelHandlers[ch].set = h)
    BY <2>2 DEF BusTypeOK, AnswerSubscribe
  <2>3. QED BY <2>1, <2>2
<1>3. QED BY <1>1, <1>2 DEF BusTypeOK, AnswerSubscribe

LEMMA RejectSubscribeType ==
  ASSUME BusTypeOK, NEW ch \in Channels, NEW h \in Handlers, RejectSubscribe(ch, h)
  PROVE  BusTypeOK'
  BY AnsweredType DEF BusTypeOK, RejectSubscribe

-----------------------------------------------------------------------------
\* The agreement of the map with the wire, and the awaiting of empty Sets, are
\* kept by every call and by every answer but a rejection.
BusInv == BusTypeOK /\ MapMatchesWire /\ EmptySetIsAwaited

LEMMA SubscribeFirstBus ==
  ASSUME BusInv, NEW ch \in Channels, NEW h \in Handlers, SubscribeFirst(ch, h)
  PROVE  MapMatchesWire' /\ EmptySetIsAwaited'
<1> USE DEF BusInv, BusTypeOK, SubscribeFirst
<1>1. /\ wire'[ch] = Append(wire[ch], h)
      /\ channelHandlers'[ch] = [set |-> h, handlers |-> {}]
      /\ \A x \in Channels \ {ch} : /\ wire'[x] = wire[x]
                                    /\ channelHandlers'[x] = channelHandlers[x]
  OBVIOUS
<1>2. channelHandlers'[ch] # NoSet
  BY <1>1, BusAssumption
<1>3. /\ Len(wire'[ch]) = Len(wire[ch]) + 1
      /\ wire'[ch][Len(wire'[ch])] = h
      /\ wire'[ch] # <<>>
  <2>1. wire[ch] \in Seq(Handlers \cup {UNSUBSCRIBE}) /\ h \in Handlers \cup {UNSUBSCRIBE}
    OBVIOUS
  <2>2. /\ Append(wire[ch], h) # <<>> /\ Len(Append(wire[ch], h)) = Len(wire[ch]) + 1
        /\ Append(wire[ch], h)[Len(wire[ch]) + 1] = h
    BY <2>1, AppendLast
  <2>3. QED BY ONLY <1>1, <2>2
<1>4. MapMatchesWire'
  BY <1>1, <1>2, <1>3, BusAssumption DEF MapMatchesWire
<1>5. h \in Awaiting(ch)'
  BY <1>3 DEF Awaiting
<1>6. EmptySetIsAwaited'
  <2>1. channelHandlers'[ch].set = h
    BY <1>1
  <2>2. \A x \in Channels \ {ch} : /\ Awaiting(x)' = Awaiting(x)
                                  /\ LiveHandlers(x)' = LiveHandlers(x)
    BY <1>1 DEF Awaiting, LiveHandlers
  <2>3. QED BY <1>1, <1>5, <2>1, <2>2 DEF EmptySetIsAwaited
<1>7. QED BY <1>4, <1>6

LEMMA SubscribeMoreBus ==
  ASSUME BusInv, NEW ch \in Channels, NEW h \in Handlers, SubscribeMore(ch, h)
  PROVE  MapMatchesWire' /\ EmptySetIsAwaited'
<1> USE DEF BusInv, BusTypeOK, SubscribeMore
<1>1. channelHandlers[ch] \in HandlerSet
  OBVIOUS
<1>2. /\ channelHandlers'[ch] \in HandlerSet
      /\ h \in channelHandlers'[ch].handlers
      /\ \A x \in Channels \ {ch} : channelHandlers'[x] = channelHandlers[x]
  BY <1>1 DEF HandlerSet
<1>3. channelHandlers'[ch] # NoSet
  BY <1>2, BusAssumption DEF HandlerSet
<1>4. MapMatchesWire'
  BY <1>2, <1>3 DEF MapMatchesWire
<1>5. EmptySetIsAwaited'
  BY <1>2 DEF EmptySetIsAwaited, LiveHandlers, Awaiting
<1>6. QED BY <1>4, <1>5

LEMMA UnsubscribeBus ==
  ASSUME BusInv, NEW calls, DOMAIN calls \subseteq Channels,
         \A ch \in DOMAIN calls : calls[ch] \in Handlers, Unsubscribe(calls)
  PROVE  MapMatchesWire' /\ EmptySetIsAwaited'
<1> USE DEF BusInv, BusTypeOK
<1>1. ASSUME NEW ch \in Channels
      PROVE  \/ /\ channelHandlers[ch] # NoSet /\ channelHandlers'[ch] = NoSet
                /\ wire'[ch] = Append(wire[ch], UNSUBSCRIBE)
             \/ /\ (channelHandlers[ch] = NoSet) <=> (channelHandlers'[ch] = NoSet)
                /\ wire'[ch] = wire[ch]
  BY DEF Unsubscribe, WithoutHandler
<1>2. subscribed' = subscribed
  BY DEF Unsubscribe
<1>3. MapMatchesWire'
  <2> SUFFICES ASSUME NEW ch \in Channels
      PROVE  (channelHandlers'[ch] # NoSet) <=>
               IF wire'[ch] = <<>> THEN ch \in subscribed'
               ELSE wire'[ch][Len(wire'[ch])] # UNSUBSCRIBE
    BY DEF MapMatchesWire
  <2>1. wire[ch] \in Seq(Handlers \cup {UNSUBSCRIBE})
    OBVIOUS
  <2>2. CASE wire'[ch] = Append(wire[ch], UNSUBSCRIBE) /\ channelHandlers'[ch] = NoSet
    <3>1. /\ Len(wire'[ch]) = Len(wire[ch]) + 1
          /\ wire'[ch][Len(wire[ch]) + 1] = UNSUBSCRIBE
      BY <2>1, <2>2
    <3>2. wire'[ch] # <<>>
      <4>1. Len(wire[ch]) \in Nat /\ Len(<<>>) = 0
        BY <2>1
      <4>2. QED BY <3>1, <4>1
    <3>3. QED BY <2>2, <3>1, <3>2
  <2>3. CASE wire'[ch] = wire[ch]
             /\ ((channelHandlers[ch] = NoSet) <=> (channelHandlers'[ch] = NoSet))
    BY <1>2, <2>3 DEF MapMatchesWire
  <2>4. QED BY <1>1, <2>2, <2>3
<1>4. EmptySetIsAwaited'
  <2> SUFFICES ASSUME NEW ch \in Channels, channelHandlers'[ch] # NoSet,
                      LiveHandlers(ch)' = {}
               PROVE  channelHandlers'[ch].set \in Awaiting(ch)'
    BY DEF EmptySetIsAwaited
  <2>1. wire'[ch] = wire[ch] /\ channelHandlers[ch] # NoSet
    BY <1>1
  <2>2. channelHandlers'[ch] = channelHandlers[ch]
    <3>1. channelHandlers[ch] \in HandlerSet
      BY <2>1
    <3>2. CASE ch \in DOMAIN calls
      <4>1. channelHandlers'[ch] = WithoutHandler(ch, calls[ch])
        BY <3>2 DEF Unsubscribe
      <4>2. /\ ~ (LiveHandlers(ch) \subseteq {calls[ch]})
            /\ channelHandlers'[ch] =
                 [channelHandlers[ch] EXCEPT !.handlers = @ \ {calls[ch]}]
        BY <2>1, <4>1 DEF WithoutHandler
      <4>3. LiveHandlers(ch)' = LiveHandlers(ch) \ {calls[ch]}
        BY <2>1, <3>1, <4>2 DEF LiveHandlers, HandlerSet
      <4>4. QED BY <4>2, <4>3
    <3>3. CASE ch \notin DOMAIN calls
      BY <3>3 DEF Unsubscribe
    <3>4. QED BY <3>2, <3>3
  <2>3. QED BY <2>1, <2>2 DEF EmptySetIsAwaited, LiveHandlers, Awaiting
<1>5. QED BY <1>3, <1>4

\* An answer shortens the wire of its channel by the head and leaves the rest.
LEMMA AnsweredWire ==
  ASSUME BusTypeOK, NEW ch \in Channels, Answered(ch)
  PROVE  /\ wire'[ch] = Tail(wire[ch])
         /\ \A x \in Channels \ {ch} : wire'[x] = wire[x]
         /\ wire[ch] # <<>>
         /\ wire[ch] \in Seq(Handlers \cup {UNSUBSCRIBE})
         /\ wire'[ch] # <<>> => wire'[ch][Len(wire'[ch])] = wire[ch][Len(wire[ch])]
         /\ wire'[ch] = <<>> => wire[ch][Len(wire[ch])] = Head(wire[ch])
         /\ \A h \in Awaiting(ch) : h # Head(wire[ch]) => h \in Awaiting(ch)'
<1> USE DEF BusTypeOK, Answered
<1>1. /\ wire'[ch] = Tail(wire[ch])
      /\ \A x \in Channels \ {ch} : wire'[x] = wire[x]
      /\ wire[ch] # <<>>
      /\ wire[ch] \in Seq(Handlers \cup {UNSUBSCRIBE})
  OBVIOUS
<1>2. /\ Len(wire[ch]) \in Nat \ {0}
      /\ Len(wire'[ch]) = Len(wire[ch]) - 1
      /\ \A i \in 1..Len(wire'[ch]) : wire'[ch][i] = wire[ch][i + 1]
      /\ Head(wire[ch]) = wire[ch][1]
  BY <1>1
<1>3. wire'[ch] # <<>> => wire'[ch][Len(wire'[ch])] = wire[ch][Len(wire[ch])]
  BY <1>1, <1>2
<1>4. wire'[ch] = <<>> => wire[ch][Len(wire[ch])] = Head(wire[ch])
  <2>1. SUFFICES ASSUME wire'[ch] = <<>>
                 PROVE  Len(wire[ch]) = 1
    BY <1>2
  <2>2. Len(wire'[ch]) = 0
    BY <2>1
  <2>3. QED BY <1>2, <2>2
<1>5. ASSUME NEW h \in Awaiting(ch), h # Head(wire[ch])
      PROVE  h \in Awaiting(ch)'
  <2>1. PICK i \in 1..Len(wire[ch]) : wire[ch][i] = h
    BY DEF Awaiting
  <2>2. i - 1 \in 1..Len(wire'[ch]) /\ wire'[ch][i - 1] = h
    BY <1>2, <1>5, <2>1
  <2>3. QED BY <1>5, <2>2 DEF Awaiting
<1>6. QED BY <1>1, <1>3, <1>4, <1>5

LEMMA AnswerUnsubscribeBus ==
  ASSUME BusInv, NEW ch \in Channels, AnswerUnsubscribe(ch)
  PROVE  MapMatchesWire' /\ EmptySetIsAwaited'
<1> USE DEF BusInv, AnswerUnsubscribe
<1>1. /\ channelHandlers' = channelHandlers
      /\ subscribed' = subscribed \ {ch}
      /\ Head(wire[ch]) = UNSUBSCRIBE
  OBVIOUS
<1>2. MapMatchesWire'
  <2> SUFFICES ASSUME NEW x \in Channels
      PROVE  (channelHandlers'[x] # NoSet) <=>
               IF wire'[x] = <<>> THEN x \in subscribed'
               ELSE wire'[x][Len(wire'[x])] # UNSUBSCRIBE
    BY DEF MapMatchesWire
  <2>1. CASE x # ch
    BY <1>1, <2>1, AnsweredWire DEF MapMatchesWire
  <2>2. CASE x = ch
    <3>1. channelHandlers[ch] # NoSet <=> wire[ch][Len(wire[ch])] # UNSUBSCRIBE
      BY AnsweredWire DEF MapMatchesWire
    <3>2. QED BY <1>1, <2>2, <3>1, AnsweredWire
  <2>3. QED BY <2>1, <2>2
<1>3. \A x \in Channels, h \in Handlers : h \in Awaiting(x) => h \in Awaiting(x)'
  <2>1. \A h \in Handlers : h \in Awaiting(ch) => h \in Awaiting(ch)'
    BY <1>1, AnsweredWire, BusAssumption
  <2>2. \A x \in Channels \ {ch} : Awaiting(x)' = Awaiting(x)
    BY AnsweredWire DEF Awaiting
  <2>3. QED BY <2>1, <2>2
<1>4. EmptySetIsAwaited'
  BY <1>1, <1>3 DEF EmptySetIsAwaited, LiveHandlers, Awaiting
<1>5. QED BY <1>2, <1>4

LEMMA AnswerSubscribeBus ==
  ASSUME BusInv, NEW ch \in Channels, NEW h \in Handlers, AnswerSubscribe(ch, h)
  PROVE  MapMatchesWire' /\ EmptySetIsAwaited'
<1> USE DEF BusInv, AnswerSubscribe
<1>1. /\ subscribed' = subscribed \cup {ch}
      /\ Head(wire[ch]) = h /\ h # UNSUBSCRIBE
  BY BusAssumption
<1>2. /\ \A x \in Channels \ {ch} : channelHandlers'[x] = channelHandlers[x]
      /\ (channelHandlers'[ch] = NoSet) <=> (channelHandlers[ch] = NoSet)
      /\ \/ channelHandlers'[ch] = channelHandlers[ch]
            /\ (channelHandlers[ch] # NoSet => channelHandlers[ch].set # h)
         \/ h \in channelHandlers'[ch].handlers
  <2>1. CASE channelHandlers[ch] # NoSet /\ channelHandlers[ch].set = h
    <3>1. channelHandlers[ch] \in HandlerSet
      BY <2>1 DEF BusTypeOK
    <3>2. channelHandlers'[ch] \in HandlerSet
      BY <2>1, <3>1 DEF BusTypeOK, HandlerSet
    <3>3. QED BY <2>1, <3>1, <3>2, BusAssumption DEF BusTypeOK, HandlerSet
  <2>2. CASE ~(channelHandlers[ch] # NoSet /\ channelHandlers[ch].set = h)
    BY <2>2
  <2>3. QED BY <2>1, <2>2
<1>3. MapMatchesWire'
  BY <1>1, <1>2, AnsweredWire DEF MapMatchesWire
<1>4. ASSUME NEW x \in Channels, channelHandlers'[x] # NoSet, LiveHandlers(x)' = {}
      PROVE  channelHandlers'[x].set \in Awaiting(x)'
  <2>1. CASE x # ch
    BY <1>2, <1>4, <2>1, AnsweredWire DEF EmptySetIsAwaited, LiveHandlers, Awaiting
  <2>2. CASE x = ch
    <3>1. channelHandlers'[ch] = channelHandlers[ch] /\ channelHandlers[ch].set # h
      BY <1>2, <1>4, <2>2 DEF LiveHandlers
    <3>2. channelHandlers[ch].set \in Awaiting(ch)
      BY <1>4, <2>2, <3>1 DEF EmptySetIsAwaited, LiveHandlers
    <3>3. QED BY <1>1, <2>2, <3>1, <3>2, AnsweredWire
  <2>3. QED BY <2>1, <2>2
<1>5. QED BY <1>3, <1>4 DEF EmptySetIsAwaited
-----------------------------------------------------------------------------
(* The registry                                                            *)

\* One step of the bus, whoever calls it.
BusStep ==
  \/ UNCHANGED busVars
  \/ \E ch \in Channels, h \in Handlers :
       \/ SubscribeFirst(ch, h) \/ SubscribeMore(ch, h) \/ AnswerSubscribe(ch, h)
  \/ \E ch \in Channels : AnswerUnsubscribe(ch)

\* What unregister and chat.unsubscribe pass to the bus are closures it keeps.
LEMMA GoneType ==
  ASSUME TypeOK, NEW rs \in SUBSET Rooms
  PROVE  /\ Gone(rs) \subseteq rs
         /\ \A r \in Gone(rs) : roomBusUnsub[r].unsub \in Handlers
  BY DEF TypeOK, Gone, Entry

LEMMA ChatUnsubscribeCalls ==
  ASSUME TypeOK, NEW r \in Rooms,
         NEW calls, calls = [x \in Gone({r}) |-> roomBusUnsub[x].unsub]
  PROVE  /\ DOMAIN calls \subseteq Channels
         /\ \A ch \in DOMAIN calls : calls[ch] \in Handlers
  BY GoneType DEF Rooms

LEMMA CloseCalls ==
  ASSUME TypeOK, NEW c \in Conns, NEW calls,
         calls = [x \in Gone(rooms[c]) \cup (IF DropsPresence(c) THEN {Presence} ELSE {})
                    |-> IF x = Presence THEN presenceUnsub ELSE roomBusUnsub[x].unsub]
  PROVE  /\ DOMAIN calls \subseteq Channels
         /\ \A ch \in DOMAIN calls : calls[ch] \in Handlers
<1>1. rooms[c] \in SUBSET Rooms
  BY DEF TypeOK
<1>2. /\ Gone(rooms[c]) \subseteq Channels
      /\ \A r \in Gone(rooms[c]) : roomBusUnsub[r].unsub \in Handlers
  BY <1>1, GoneType DEF Rooms
<1>3. DropsPresence(c) => presenceUnsub \in Handlers
  BY DEF DropsPresence, TypeOK
<1>4. DOMAIN calls \subseteq Gone(rooms[c]) \cup {Presence}
  OBVIOUS
<1>5. Presence \notin Gone(rooms[c])
  BY <1>1, GoneType DEF Rooms
<1>6. ASSUME NEW ch \in DOMAIN calls
      PROVE  calls[ch] \in Handlers
  <2>1. CASE ch = Presence
    <3>1. DropsPresence(c)
      BY <1>5, <1>6, <2>1
    <3>2. QED BY <1>3, <1>6, <2>1, <3>1
  <2>2. CASE ch # Presence
    BY <1>2, <1>6, <2>2
  <2>3. QED BY <2>1, <2>2
<1>7. QED BY <1>2, <1>4, <1>6, RegistryAssumption

\* A bus step keeps the types of the bus, and everything the bus promises.
LEMMA BusStepType ==
  ASSUME BusTypeOK, BusStep
  PROVE  BusTypeOK'
<1>1. CASE UNCHANGED busVars
  BY <1>1 DEF BusTypeOK, busVars
<1>2. QED
  BY <1>1, SubscribeFirstType, SubscribeMoreType, AnswerSubscribeType,
     AnswerUnsubscribeType DEF BusStep

LEMMA BusStepBus ==
  ASSUME BusInv, BusStep
  PROVE  MapMatchesWire' /\ EmptySetIsAwaited'
<1>1. CASE UNCHANGED busVars
  BY <1>1 DEF BusInv, MapMatchesWire, EmptySetIsAwaited, LiveHandlers, Awaiting, busVars
<1>2. QED
  BY <1>1, SubscribeFirstBus, SubscribeMoreBus, AnswerSubscribeBus,
     AnswerUnsubscribeBus DEF BusStep

-----------------------------------------------------------------------------
\* The registry's own state keeps its types.
RegTypeOK ==
  /\ unopened \in SUBSET Conns
  /\ userConns \in SUBSET Conns
  /\ rooms \in [Conns -> SUBSET Rooms]
  /\ roomLocalSubs \in [Rooms -> SUBSET Conns]
  /\ roomBusUnsub \in [Rooms -> Entry \cup {NoEntry}]
  /\ presenceUnsub \in Handlers \cup {NoEntry}
  /\ lookups \in SUBSET (Conns \X Rooms)

\* What the specification notes only grows.
LEMMA HappenedGrows ==
  ASSUME TypeOK, [Next]_vars
  PROVE  happened' \in SUBSET Disturbances /\ happened \subseteq happened'
<1>1. /\ \A ch : Overlap(ch) \subseteq Disturbances
      /\ \A c, chs : Leaving(c, chs) \subseteq Disturbances
      /\ "stray" \in Disturbances /\ "reject" \in Disturbances
  BY DEF Overlap, Leaving, Disturbances
<1>2. \A S : S \subseteq Disturbances /\ Note(S)
        => happened' \in SUBSET Disturbances /\ happened \subseteq happened'
  BY DEF Note, TypeOK
<1>3. happened' = happened => happened' \in SUBSET Disturbances /\ happened \subseteq happened'
  BY DEF TypeOK
<1>4. ASSUME NEW c \in Conns, Open(c)
      PROVE  happened' \in SUBSET Disturbances /\ happened \subseteq happened'
  BY <1>1, <1>2, <1>3, <1>4 DEF Open
<1>5. ASSUME NEW c \in Conns, Close(c)
      PROVE  happened' \in SUBSET Disturbances /\ happened \subseteq happened'
  BY <1>1, <1>2, <1>5 DEF Close
<1>6. ASSUME NEW c \in Conns, NEW r \in Rooms, SubscribeRoom(c, r)
      PROVE  happened' \in SUBSET Disturbances /\ happened \subseteq happened'
  BY <1>1, <1>2, <1>3, <1>6 DEF SubscribeRoom
<1>7. ASSUME NEW c \in Conns, NEW r \in Rooms, ChatUnsubscribe(c, r)
      PROVE  happened' \in SUBSET Disturbances /\ happened \subseteq happened'
  <2>1. Leaving(c, {r}) \cup (IF r \in rooms[c] THEN {} ELSE {"stray"}) \subseteq Disturbances
    BY <1>1
  <2>2. QED BY <1>2, <1>7, <2>1 DEF ChatUnsubscribe
<1>8. ASSUME NEW ch \in Channels, NEW h \in Handlers, SubscribeRejected(ch, h)
      PROVE  happened' \in SUBSET Disturbances /\ happened \subseteq happened'
  <2>1. {"reject"} \subseteq Disturbances
    BY <1>1
  <2>2. QED BY <1>2, <1>8, <2>1 DEF SubscribeRejected
<1>9. QED
  BY <1>3, <1>4, <1>5, <1>6, <1>7, <1>8
  DEF Next, ChatSubscribe, SubscribeConfirmed, UnsubscribeConfirmed, vars

LEMMA UnsubscribeRoomsType ==
  ASSUME TypeOK, NEW c \in Conns, NEW rs \in SUBSET Rooms, UnsubscribeRooms(c, rs)
  PROVE  /\ rooms' \in [Conns -> SUBSET Rooms]
         /\ roomLocalSubs' \in [Rooms -> SUBSET Conns]
         /\ roomBusUnsub' \in [Rooms -> Entry \cup {NoEntry}]
<1> USE DEF TypeOK, UnsubscribeRooms, ForgetSocket
<1>1. rooms' \in [Conns -> SUBSET Rooms]
  OBVIOUS
<1>2. roomLocalSubs' \in [Rooms -> SUBSET Conns]
  OBVIOUS
<1>3. ASSUME NEW r \in Rooms
      PROVE  roomBusUnsub'[r] \in Entry \cup {NoEntry}
  <2>1. CASE r \notin Gone(rs) /\ r \in rs /\ roomBusUnsub[r] # NoEntry
    <3>1. roomBusUnsub[r] \in Entry /\ roomBusUnsub[r].refCount # 1
      BY <2>1 DEF Gone
    <3>2. roomBusUnsub[r].refCount - 1 \in Nat \ {0}
      BY <3>1 DEF Entry
    <3>3. QED BY <2>1, <3>1, <3>2 DEF Entry
  <2>2. CASE ~ (r \notin Gone(rs) /\ r \in rs /\ roomBusUnsub[r] # NoEntry)
    BY <2>2
  <2>3. QED BY <2>1, <2>2
<1>4. QED BY <1>1, <1>2, <1>3

LEMMA JoinBusType ==
  ASSUME TypeOK, NEW r \in Rooms, JoinBus(r)
  PROVE  roomBusUnsub' \in [Rooms -> Entry \cup {NoEntry}] /\ BusStep
<1>1. r \in Channels
  BY DEF Rooms
<1>2. CASE roomBusUnsub[r] # NoEntry
  <2>1. roomBusUnsub[r] \in Entry
    BY <1>2 DEF TypeOK
  <2>2. /\ roomBusUnsub' = [roomBusUnsub EXCEPT ![r].refCount = @ + 1]
        /\ UNCHANGED busVars
    BY <1>2 DEF JoinBus
  <2>3. [roomBusUnsub[r] EXCEPT !.refCount = @ + 1] \in Entry
    BY <2>1 DEF Entry
  <2>4. QED BY <2>2, <2>3 DEF TypeOK, BusStep
<1>3. CASE roomBusUnsub[r] = NoEntry
  <2>1. PICK h \in Handlers :
          \/ SubscribeFirst(r, h) /\ UNCHANGED roomBusUnsub
          \/ /\ SubscribeMore(r, h)
             /\ roomBusUnsub' = [roomBusUnsub EXCEPT ![r] = [unsub |-> h, refCount |-> 1]]
    BY <1>3 DEF JoinBus
  <2>2. [unsub |-> h, refCount |-> 1] \in Entry
    BY DEF Entry
  <2>3. QED BY <1>1, <2>1, <2>2 DEF TypeOK, BusStep
<1>4. QED BY <1>2, <1>3

\* Every step is a step of the bus, a call of unsubscribe closures or the
\* rejection of a SUBSCRIBE, and keeps the registry's types.
LEMMA NextType ==
  ASSUME TypeOK, [Next]_vars
  PROVE  TypeOK'
<1> SUFFICES RegTypeOK' /\ BusTypeOK'
  BY HappenedGrows DEF TypeOK, RegTypeOK
<1>a. BusTypeOK
  BY DEF TypeOK
<1>1. ASSUME NEW c \in Conns, Open(c)
      PROVE  RegTypeOK' /\ BusTypeOK'
  <2>1. BusStep
    BY <1>1, RegistryAssumption DEF Open, BusStep, busVars
  <2>2. presenceUnsub' \in Handlers \cup {NoEntry}
    BY <1>1 DEF Open, TypeOK
  <2>3. QED BY <1>1, <1>a, <2>1, <2>2, BusStepType DEF Open, TypeOK, RegTypeOK
<1>2. ASSUME NEW c \in Conns, Close(c)
      PROVE  RegTypeOK' /\ BusTypeOK'
  <2> DEFINE dropped == Gone(rooms[c]) \cup (IF DropsPresence(c) THEN {Presence} ELSE {})
             calls == [x \in dropped |-> IF x = Presence THEN presenceUnsub
                                                         ELSE roomBusUnsub[x].unsub]
  <2>1. Unsubscribe(calls)
    BY <1>2 DEF Close
  <2>2. /\ DOMAIN calls \subseteq Channels
        /\ \A ch \in DOMAIN calls : calls[ch] \in Handlers
    BY CloseCalls
  <2>3. BusTypeOK'
    <3> HIDE DEF calls
    <3>1. QED BY <1>a, <2>1, <2>2, UnsubscribeType
  <2>4. rooms[c] \in SUBSET Rooms
    BY DEF TypeOK
  <2>5. QED BY <1>2, <2>3, <2>4, UnsubscribeRoomsType DEF Close, TypeOK, RegTypeOK
<1>3. ASSUME NEW c \in Conns, NEW r \in Rooms, ChatSubscribe(c, r)
      PROVE  RegTypeOK' /\ BusTypeOK'
  BY <1>3 DEF ChatSubscribe, TypeOK, RegTypeOK, BusTypeOK, busVars
<1>4. ASSUME NEW c \in Conns, NEW r \in Rooms, SubscribeRoom(c, r)
      PROVE  RegTypeOK' /\ BusTypeOK'
  <2>1. CASE UNCHANGED <<busVars, rooms, roomLocalSubs, roomBusUnsub>>
    BY <1>4, <2>1 DEF SubscribeRoom, TypeOK, RegTypeOK, BusTypeOK, busVars
  <2>2. CASE /\ roomLocalSubs' = [roomLocalSubs EXCEPT ![r] = @ \cup {c}]
             /\ rooms' = [rooms EXCEPT ![c] = @ \cup {r}]
             /\ JoinBus(r)
    BY <1>4, <1>a, <2>2, JoinBusType, BusStepType DEF SubscribeRoom, TypeOK, RegTypeOK
  <2>3. QED BY <1>4, <2>1, <2>2 DEF SubscribeRoom
<1>5. ASSUME NEW c \in Conns, NEW r \in Rooms, ChatUnsubscribe(c, r)
      PROVE  RegTypeOK' /\ BusTypeOK'
  <2> DEFINE calls == [x \in Gone({r}) |-> roomBusUnsub[x].unsub]
  <2>1. Unsubscribe(calls)
    BY <1>5 DEF ChatUnsubscribe
  <2>2. /\ DOMAIN calls \subseteq Channels
        /\ \A ch \in DOMAIN calls : calls[ch] \in Handlers
    BY ChatUnsubscribeCalls
  <2>3. BusTypeOK'
    <3> HIDE DEF calls
    <3>1. QED BY <1>a, <2>1, <2>2, UnsubscribeType
  <2>4. QED BY <1>5, <2>3, UnsubscribeRoomsType DEF ChatUnsubscribe, TypeOK, RegTypeOK
<1>6. ASSUME NEW ch \in Channels, NEW h \in Handlers, SubscribeConfirmed(ch, h)
      PROVE  RegTypeOK' /\ BusTypeOK'
  <2>1. [unsub |-> h, refCount |-> 1] \in Entry
    BY DEF Entry
  <2>2. roomBusUnsub' \in [Rooms -> Entry \cup {NoEntry}]
    BY <1>6, <2>1 DEF SubscribeConfirmed, TypeOK
  <2>3. QED
    BY <1>6, <1>a, <2>2, AnswerSubscribeType DEF SubscribeConfirmed, TypeOK, RegTypeOK
<1>7. ASSUME NEW ch \in Channels, NEW h \in Handlers, SubscribeRejected(ch, h)
      PROVE  RegTypeOK' /\ BusTypeOK'
  BY <1>7, <1>a, RejectSubscribeType DEF SubscribeRejected, TypeOK, RegTypeOK, regVars
<1>8. ASSUME NEW ch \in Channels, UnsubscribeConfirmed(ch)
      PROVE  RegTypeOK' /\ BusTypeOK'
  BY <1>8, <1>a, AnswerUnsubscribeType DEF UnsubscribeConfirmed, TypeOK, RegTypeOK, regVars
<1>9. CASE UNCHANGED vars
  BY <1>9 DEF TypeOK, RegTypeOK, BusTypeOK, vars, busVars, regVars
<1>10. QED BY <1>1, <1>2, <1>3, <1>4, <1>5, <1>6, <1>7, <1>8, <1>9 DEF Next

LEMMA InitType == Init => TypeOK
<1> SUFFICES ASSUME Init PROVE TypeOK
  OBVIOUS
<1>1. BusTypeOK
  BY DEF Init, BusInit, BusTypeOK
<1>2. QED BY <1>1 DEF Init, TypeOK

\* The registry's state is well typed in every reachable state: no refCount
\* ever reaches zero in an entry that is kept, whatever clients and Redis do
\* (lines 72-76 of connection-registry.ts).
THEOREM TypeCorrect == Spec => []TypeOK
<1>1. QED BY InitType, NextType, PTL DEF Spec

-----------------------------------------------------------------------------
\* The two records of who is in which room never disagree, whatever clients and
\* Redis do (lines 45-49 and 62-68 of connection-registry.ts).
THEOREM RoomsMirrored == Spec => []SubsMirrorRooms
<1>1. Init => SubsMirrorRooms
  BY DEF Init, SubsMirrorRooms
<1>2. ASSUME TypeOK, SubsMirrorRooms, [Next]_vars
      PROVE  SubsMirrorRooms'
  <2>1. ASSUME NEW c \in Conns, NEW rs \in SUBSET Rooms, UnsubscribeRooms(c, rs)
        PROVE  SubsMirrorRooms'
    BY <1>2, <2>1 DEF UnsubscribeRooms, ForgetSocket, SubsMirrorRooms, TypeOK
  <2>2. CASE UNCHANGED <<rooms, roomLocalSubs>>
    BY <1>2, <2>2 DEF SubsMirrorRooms
  <2>3. ASSUME NEW c \in Conns, NEW r \in Rooms, SubscribeRoom(c, r)
        PROVE  SubsMirrorRooms'
    <3>1. CASE /\ roomLocalSubs' = [roomLocalSubs EXCEPT ![r] = @ \cup {c}]
               /\ rooms' = [rooms EXCEPT ![c] = @ \cup {r}]
      BY <1>2, <3>1 DEF SubsMirrorRooms, TypeOK
    <3>2. QED BY <2>2, <2>3, <3>1 DEF SubscribeRoom
  <2>4. ASSUME NEW c \in Conns, Close(c)
        PROVE  SubsMirrorRooms'
    <3>1. rooms[c] \in SUBSET Rooms
      BY <1>2 DEF TypeOK
    <3>2. QED BY <2>1, <2>4, <3>1 DEF Close
  <2>5. ASSUME NEW c \in Conns, NEW r \in Rooms, ChatUnsubscribe(c, r)
        PROVE  SubsMirrorRooms'
    BY <2>1, <2>5 DEF ChatUnsubscribe
  <2>6. QED
    BY <1>2, <2>2, <2>3, <2>4, <2>5
    DEF Next, Open, ChatSubscribe, SubscribeConfirmed, SubscribeRejected,
        UnsubscribeConfirmed, vars, regVars
<1>3. QED BY <1>1, <1>2, TypeCorrect, PTL DEF Spec

-----------------------------------------------------------------------------
\* A step that is not a rejection keeps the map and the wire in agreement.
LEMMA NextBus ==
  ASSUME TypeOK, BusInv, "reject" \notin happened', [Next]_vars
  PROVE  MapMatchesWire' /\ EmptySetIsAwaited'
<1>1. ASSUME BusStep
      PROVE  MapMatchesWire' /\ EmptySetIsAwaited'
  BY <1>1, BusStepBus
<1>2. ASSUME NEW c \in Conns, Close(c)
      PROVE  MapMatchesWire' /\ EmptySetIsAwaited'
  <2> DEFINE dropped == Gone(rooms[c]) \cup (IF DropsPresence(c) THEN {Presence} ELSE {})
             calls == [x \in dropped |-> IF x = Presence THEN presenceUnsub
                                                         ELSE roomBusUnsub[x].unsub]
  <2>1. Unsubscribe(calls)
    BY <1>2 DEF Close
  <2>2. /\ DOMAIN calls \subseteq Channels
        /\ \A ch \in DOMAIN calls : calls[ch] \in Handlers
    BY CloseCalls
  <2> HIDE DEF calls
  <2>3. QED BY <2>1, <2>2, UnsubscribeBus
<1>3. ASSUME NEW c \in Conns, NEW r \in Rooms, ChatUnsubscribe(c, r)
      PROVE  MapMatchesWire' /\ EmptySetIsAwaited'
  <2> DEFINE calls == [x \in Gone({r}) |-> roomBusUnsub[x].unsub]
  <2>1. Unsubscribe(calls)
    BY <1>3 DEF ChatUnsubscribe
  <2>2. /\ DOMAIN calls \subseteq Channels
        /\ \A ch \in DOMAIN calls : calls[ch] \in Handlers
    BY ChatUnsubscribeCalls
  <2> HIDE DEF calls
  <2>3. QED BY <2>1, <2>2, UnsubscribeBus
<1>4. ASSUME NEW c \in Conns, NEW r \in Rooms, SubscribeRoom(c, r)
      PROVE  BusStep
  BY <1>4, JoinBusType DEF SubscribeRoom, BusStep
<1>5. ASSUME NEW c \in Conns, Open(c)
      PROVE  BusStep
  BY <1>5, RegistryAssumption DEF Open, BusStep
<1>6. ASSUME NEW ch \in Channels, NEW h \in Handlers, SubscribeConfirmed(ch, h)
      PROVE  BusStep
  BY <1>6 DEF SubscribeConfirmed, BusStep
<1>7. ASSUME NEW ch \in Channels, UnsubscribeConfirmed(ch)
      PROVE  BusStep
  BY <1>7 DEF UnsubscribeConfirmed, BusStep
<1>8. ASSUME NEW c \in Conns, NEW r \in Rooms, ChatSubscribe(c, r)
      PROVE  BusStep
  BY <1>8 DEF ChatSubscribe, BusStep
<1>9. CASE UNCHANGED vars
  BY <1>1, <1>9 DEF vars, BusStep
<1>10. ASSUME NEW ch \in Channels, NEW h \in Handlers
       PROVE  ~ SubscribeRejected(ch, h)
  BY DEF SubscribeRejected, Note
<1>11. QED
  BY <1>1, <1>2, <1>3, <1>4, <1>5, <1>6, <1>7, <1>8, <1>9, <1>10 DEF Next

\* As long as Redis rejects no SUBSCRIBE, the map of handlers and the commands
\* sent to Redis agree, and an empty Set always has a caller that will fill it,
\* however the sockets' calls interleave (redis-message-bus.ts, 17-44).
THEOREM BusConsistent == Spec => []BusInStep
<1>1. Init => BusInStep
  BY DEF Init, BusInit, BusInStep, MapMatchesWire, EmptySetIsAwaited
<1>2. TypeOK /\ BusInStep /\ [Next]_vars => BusInStep'
  BY NextBus, HappenedGrows DEF TypeOK, BusInv, BusInStep
<1>3. QED BY <1>1, <1>2, TypeCorrect, PTL DEF Spec

-----------------------------------------------------------------------------
(* A step, as one channel sees it                                          *)

\* The handler whose closure the registry keeps for a channel.
Kept(ch) ==
  IF ch = Presence THEN presenceUnsub
  ELSE IF roomBusUnsub[ch] = NoEntry THEN NoEntry ELSE roomBusUnsub[ch].unsub

\* The bus is not used on ch.
Untouched(ch) == wire'[ch] = wire[ch] /\ channelHandlers'[ch] = channelHandlers[ch]

\* The closure of h, kept for ch, is called.
Dropped(ch, h) ==
  /\ channelHandlers'[ch] = WithoutHandler(ch, h)
  /\ wire'[ch] = IF channelHandlers[ch] # NoSet /\ WithoutHandler(ch, h) = NoSet
                 THEN Append(wire[ch], UNSUBSCRIBE) ELSE wire[ch]

\* What a step does to the closure kept for a channel and to its handlers.
ChannelStep(ch) ==
  \/ Untouched(ch) /\ Kept(ch)' = Kept(ch)
  \/ \E h \in Handlers :
       /\ Kept(ch) = NoEntry /\ Unreferenced(ch, h)
       /\ Settled(ch) \/ "overlap" \in happened'
       /\ \/ SubscribeFirst(ch, h) /\ Kept(ch)' = NoEntry
          \/ SubscribeMore(ch, h) /\ Kept(ch)' = h
  \/ \E h \in Handlers :
       /\ Kept(ch) = h /\ Dropped(ch, h) /\ Kept(ch)' = NoEntry
       /\ Settled(ch) \/ "leave" \in happened'
  \/ \E h \in Handlers : AnswerSubscribe(ch, h) /\ Kept(ch)' = h
  \/ \E h \in Handlers : /\ RejectSubscribe(ch, h) /\ Kept(ch)' = Kept(ch)
                         /\ "reject" \in happened'
  \/ AnswerUnsubscribe(ch) /\ Kept(ch)' = Kept(ch)

\* A socket joins the room, or leaves it, as the bus and the entry see it.
EntryJoined(r) ==
  \/ /\ roomBusUnsub[r] # NoEntry /\ Untouched(r)
     /\ roomBusUnsub'[r] = [roomBusUnsub[r] EXCEPT !.refCount = @ + 1]
  \/ \E h \in Handlers :
       /\ roomBusUnsub[r] = NoEntry /\ Unreferenced(r, h)
       /\ \/ SubscribeFirst(r, h) /\ roomBusUnsub'[r] = NoEntry
          \/ SubscribeMore(r, h) /\ roomBusUnsub'[r] = [unsub |-> h, refCount |-> 1]

EntryLeft(r) ==
  \/ roomBusUnsub[r] = NoEntry /\ Untouched(r) /\ roomBusUnsub'[r] = NoEntry
  \/ /\ roomBusUnsub[r] # NoEntry /\ roomBusUnsub[r].refCount # 1 /\ Untouched(r)
     /\ roomBusUnsub'[r] = [roomBusUnsub[r] EXCEPT !.refCount = @ - 1]
  \/ /\ roomBusUnsub[r] # NoEntry /\ roomBusUnsub[r].refCount = 1
     /\ Dropped(r, roomBusUnsub[r].unsub) /\ roomBusUnsub'[r] = NoEntry

\* What a step does to a room: nothing, a socket joins, a socket leaves, or Redis
\* answers one of its commands.
RoomStep(r) ==
  \/ Untouched(r) /\ roomBusUnsub'[r] = roomBusUnsub[r] /\ roomLocalSubs'[r] = roomLocalSubs[r]
  \/ \E c \in Conns \ roomLocalSubs[r] :
       /\ roomLocalSubs'[r] = roomLocalSubs[r] \cup {c} /\ EntryJoined(r)
       /\ Settled(r) \/ "overlap" \in happened'
  \/ \E c \in Conns :
       /\ roomLocalSubs'[r] = roomLocalSubs[r] \ {c} /\ EntryLeft(r)
       /\ c \in roomLocalSubs[r] \/ "stray" \in happened'
       /\ Settled(r) \/ "leave" \in happened'
  \/ /\ roomLocalSubs'[r] = roomLocalSubs[r]
     /\ \/ \E h \in Handlers : /\ AnswerSubscribe(r, h)
                               /\ roomBusUnsub'[r] = [unsub |-> h, refCount |-> 1]
        \/ \E h \in Handlers : /\ RejectSubscribe(r, h) /\ "reject" \in happened'
                               /\ roomBusUnsub'[r] = roomBusUnsub[r]
        \/ AnswerUnsubscribe(r) /\ roomBusUnsub'[r] = roomBusUnsub[r]

\* What a step does to the presence channel and the open sockets.
PresenceStep ==
  \/ Untouched(Presence) /\ presenceUnsub' = presenceUnsub /\ userConns' = userConns
  \/ /\ \E c \in Conns : userConns' = userConns \cup {c}
     /\ \/ presenceUnsub # NoEntry /\ Untouched(Presence) /\ presenceUnsub' = presenceUnsub
        \/ \E h \in Handlers :
             /\ presenceUnsub = NoEntry /\ Unreferenced(Presence, h)
             /\ Settled(Presence) \/ "overlap" \in happened'
             /\ \/ SubscribeFirst(Presence, h) /\ presenceUnsub' = NoEntry
                \/ SubscribeMore(Presence, h) /\ presenceUnsub' = h
  \/ \E c \in userConns :
       /\ userConns' = userConns \ {c}
       /\ Settled(Presence) \/ "leave" \in happened'
       /\ IF userConns = {c} /\ presenceUnsub # NoEntry
          THEN Dropped(Presence, presenceUnsub) /\ presenceUnsub' = NoEntry
          ELSE Untouched(Presence) /\ presenceUnsub' = presenceUnsub
  \/ /\ userConns' = userConns
     /\ \/ \E h \in Handlers : AnswerSubscribe(Presence, h) /\ presenceUnsub' = h
        \/ \E h \in Handlers : /\ RejectSubscribe(Presence, h) /\ "reject" \in happened'
                               /\ presenceUnsub' = presenceUnsub
        \/ AnswerUnsubscribe(Presence) /\ presenceUnsub' = presenceUnsub

\* A call for one channel, or an answer to it, leaves the others alone.
LEMMA OneChannel ==
  ASSUME TypeOK, NEW ch \in Channels, NEW h \in Handlers, NEW x \in Channels, x # ch,
         \/ SubscribeFirst(ch, h) \/ SubscribeMore(ch, h) \/ AnswerSubscribe(ch, h)
         \/ RejectSubscribe(ch, h) \/ AnswerUnsubscribe(ch)
  PROVE  Untouched(x)
  BY DEF TypeOK, BusTypeOK, Untouched, SubscribeFirst, SubscribeMore, AnswerSubscribe,
         RejectSubscribe, AnswerUnsubscribe, Answered

\* Calling closures drops one handler of each channel called for.
LEMMA Calls ==
  ASSUME TypeOK, NEW calls, Unsubscribe(calls), NEW ch \in Channels
  PROVE  IF ch \in DOMAIN calls THEN Dropped(ch, calls[ch]) ELSE Untouched(ch)
  BY DEF Unsubscribe, Dropped, Untouched

\* Leaving the rooms rs, seen from a room: the entry of those in rs loses one.
LEMMA LeaveSeen ==
  ASSUME TypeOK, NEW c \in Conns, NEW rs \in SUBSET Rooms, UnsubscribeRooms(c, rs),
         NEW r \in Rooms,
         IF r \in Gone(rs) THEN Dropped(r, roomBusUnsub[r].unsub) ELSE Untouched(r)
  PROVE  IF r \in rs THEN roomLocalSubs'[r] = roomLocalSubs[r] \ {c} /\ EntryLeft(r)
         ELSE /\ Untouched(r) /\ roomBusUnsub'[r] = roomBusUnsub[r]
              /\ roomLocalSubs'[r] = roomLocalSubs[r]
<1>1. CASE r \notin rs
  BY <1>1 DEF UnsubscribeRooms, ForgetSocket, Gone
<1>2. CASE r \in rs
  <2>1. roomLocalSubs'[r] = roomLocalSubs[r] \ {c}
    BY <1>2 DEF UnsubscribeRooms, ForgetSocket
  <2>2. CASE roomBusUnsub[r] = NoEntry
    BY <1>2, <2>1, <2>2 DEF UnsubscribeRooms, Gone, EntryLeft
  <2>3. CASE roomBusUnsub[r] # NoEntry
    BY <1>2, <2>1, <2>3 DEF UnsubscribeRooms, Gone, EntryLeft
  <2>4. QED BY <1>2, <2>1, <2>2, <2>3
<1>3. QED BY <1>1, <1>2

\* Whatever the action, it is one of the steps listed for each room.
LEMMA RoomSteps ==
  ASSUME TypeOK, SubsMirrorRooms, [Next]_vars, NEW r \in Rooms
  PROVE  RoomStep(r)
<1>0. r \in Channels /\ r # Presence /\ Presence \in Channels
  BY RegistryAssumption DEF Rooms
<1> DEFINE Still == /\ Untouched(r) /\ roomBusUnsub'[r] = roomBusUnsub[r]
                    /\ roomLocalSubs'[r] = roomLocalSubs[r]
<1>a. Still => RoomStep(r)
  BY DEF RoomStep
<1>b. UNCHANGED busVars => Untouched(r)
  BY DEF busVars, Untouched
<1>1. ASSUME NEW c \in Conns, Open(c) PROVE RoomStep(r)
  <2>1. Untouched(r)
    BY <1>0, <1>1, <1>b, OneChannel DEF Open
  <2>2. QED BY <1>1, <1>a, <2>1 DEF Open
<1>2. ASSUME NEW c \in Conns, Close(c) PROVE RoomStep(r)
  <2> DEFINE dropped == Gone(rooms[c]) \cup (IF DropsPresence(c) THEN {Presence} ELSE {})
             calls == [x \in dropped |-> IF x = Presence THEN presenceUnsub
                                                         ELSE roomBusUnsub[x].unsub]
  <2>1. UnsubscribeRooms(c, rooms[c]) /\ Unsubscribe(calls) /\ rooms[c] \in SUBSET Rooms
    BY <1>2 DEF Close, TypeOK
  <2>2. (r \in DOMAIN calls <=> r \in Gone(rooms[c]))
        /\ (r \in Gone(rooms[c]) => calls[r] = roomBusUnsub[r].unsub)
    BY <1>0
  <2> HIDE DEF calls
  <2>3. IF r \in Gone(rooms[c]) THEN Dropped(r, roomBusUnsub[r].unsub) ELSE Untouched(r)
    BY <1>0, <2>1, <2>2, Calls
  <2>4. CASE r \notin rooms[c]
    BY <1>a, <2>1, <2>3, <2>4, LeaveSeen
  <2>5. CASE r \in rooms[c]
    <3>1. roomLocalSubs'[r] = roomLocalSubs[r] \ {c} /\ EntryLeft(r)
      BY <2>1, <2>3, <2>5, LeaveSeen
    <3>2. Settled(r) \/ "leave" \in happened'
      BY <1>2, <2>5 DEF Close, Note, Leaving
    <3>3. c \in roomLocalSubs[r]
      BY <2>5 DEF SubsMirrorRooms
    <3>4. QED BY <3>1, <3>2, <3>3 DEF RoomStep
  <2>6. QED BY <2>4, <2>5
<1>3. ASSUME NEW c \in Conns, NEW s \in Rooms, ChatSubscribe(c, s) PROVE RoomStep(r)
  BY <1>3, <1>a, <1>b DEF ChatSubscribe
<1>4. ASSUME NEW c \in Conns, NEW s \in Rooms, SubscribeRoom(c, s) PROVE RoomStep(r)
  <2>1. CASE HoldsRoom(c, s)
    BY <1>4, <1>a, <1>b, <2>1 DEF SubscribeRoom
  <2>2. CASE ~ HoldsRoom(c, s)
    <3>1. /\ roomLocalSubs' = [roomLocalSubs EXCEPT ![s] = @ \cup {c}]
          /\ JoinBus(s) /\ c \notin roomLocalSubs[s]
          /\ Settled(s) \/ "overlap" \in happened'
          /\ s \in Channels
      BY <1>4, <2>2 DEF SubscribeRoom, HoldsRoom, SubsMirrorRooms, Note, Overlap, Rooms
    <3>2. CASE r # s
      <4>1. roomLocalSubs'[r] = roomLocalSubs[r] /\ roomBusUnsub'[r] = roomBusUnsub[r]
        BY <3>1, <3>2 DEF JoinBus, TypeOK
      <4>2. Untouched(r)
        BY <1>0, <1>b, <3>1, <3>2, OneChannel DEF JoinBus
      <4>3. QED BY <1>a, <4>1, <4>2
    <3>3. CASE r = s
      <4>1. roomLocalSubs'[r] = roomLocalSubs[r] \cup {c}
        BY <3>1, <3>3 DEF TypeOK
      <4>2. EntryJoined(r)
        BY <1>b, <3>1, <3>3 DEF JoinBus, EntryJoined, IsNewHandler, IsFreeName, TypeOK
      <4>3. QED BY <3>1, <3>3, <4>1, <4>2 DEF RoomStep
    <3>4. QED BY <3>2, <3>3
  <2>3. QED BY <2>1, <2>2
<1>5. ASSUME NEW c \in Conns, NEW s \in Rooms, ChatUnsubscribe(c, s) PROVE RoomStep(r)
  <2> DEFINE calls == [x \in Gone({s}) |-> roomBusUnsub[x].unsub]
  <2>1. UnsubscribeRooms(c, {s}) /\ Unsubscribe(calls)
    BY <1>5 DEF ChatUnsubscribe
  <2>2. (r \in DOMAIN calls <=> r \in Gone({s}))
        /\ (r \in Gone({s}) => calls[r] = roomBusUnsub[r].unsub)
    OBVIOUS
  <2> HIDE DEF calls
  <2>3. IF r \in Gone({s}) THEN Dropped(r, roomBusUnsub[r].unsub) ELSE Untouched(r)
    BY <1>0, <2>1, <2>2, Calls
  <2>4. CASE r # s
    BY <1>a, <2>1, <2>3, <2>4, LeaveSeen
  <2>5. CASE r = s
    <3>1. roomLocalSubs'[r] = roomLocalSubs[r] \ {c} /\ EntryLeft(r)
      BY <2>1, <2>3, <2>5, LeaveSeen
    <3>2. /\ Settled(r) \/ "leave" \in happened'
          /\ c \in roomLocalSubs[r] \/ "stray" \in happened'
      BY <1>5, <2>5 DEF ChatUnsubscribe, Note, Leaving, SubsMirrorRooms
    <3>3. QED BY <3>1, <3>2 DEF RoomStep
  <2>6. QED BY <2>4, <2>5
<1>6. ASSUME NEW ch \in Channels, NEW h \in Handlers, SubscribeConfirmed(ch, h)
      PROVE  RoomStep(r)
  <2>1. CASE ch # r
    BY <1>0, <1>6, <1>a, <2>1, OneChannel DEF SubscribeConfirmed, TypeOK
  <2>2. CASE ch = r
    BY <1>0, <1>6, <2>2 DEF SubscribeConfirmed, RoomStep, TypeOK
  <2>3. QED BY <2>1, <2>2
<1>7. ASSUME NEW ch \in Channels, NEW h \in Handlers, SubscribeRejected(ch, h)
      PROVE  RoomStep(r)
  <2>1. RejectSubscribe(ch, h) /\ UNCHANGED regVars /\ "reject" \in happened'
    BY <1>7 DEF SubscribeRejected, Note
  <2>2. CASE ch # r
    BY <1>0, <1>a, <2>1, <2>2, OneChannel DEF regVars
  <2>3. CASE ch = r
    BY <2>1, <2>3 DEF RoomStep, regVars
  <2>4. QED BY <2>2, <2>3
<1>8. ASSUME NEW ch \in Channels, UnsubscribeConfirmed(ch) PROVE RoomStep(r)
  <2>1. AnswerUnsubscribe(ch) /\ UNCHANGED regVars
    BY <1>8 DEF UnsubscribeConfirmed
  <2>2. CASE ch # r
    <3>1. Untouched(r)
      BY <1>0, <2>1, <2>2 DEF AnswerUnsubscribe, Answered, Untouched, TypeOK, BusTypeOK
    <3>2. QED BY <1>a, <2>1, <3>1 DEF regVars
  <2>3. CASE ch = r
    BY <2>1, <2>3 DEF RoomStep, regVars
  <2>4. QED BY <2>2, <2>3
<1>9. CASE UNCHANGED vars
  BY <1>9, <1>a, <1>b DEF vars, regVars
<1>10. QED
  BY <1>1, <1>2, <1>3, <1>4, <1>5, <1>6, <1>7, <1>8, <1>9 DEF Next

LEMMA PresenceSteps ==
  ASSUME TypeOK, [Next]_vars
  PROVE  PresenceStep
<1>0. Presence \in Channels /\ Presence \notin Rooms
  BY RegistryAssumption DEF Rooms
<1>a. Untouched(Presence) /\ presenceUnsub' = presenceUnsub /\ userConns' = userConns
        => PresenceStep
  BY DEF PresenceStep
<1>b. UNCHANGED busVars => Untouched(Presence)
  BY DEF busVars, Untouched
<1>1. ASSUME NEW c \in Conns, Open(c) PROVE PresenceStep
  <2>1. CASE presenceUnsub # NoEntry
    BY <1>1, <1>b, <2>1 DEF Open, PresenceStep
  <2>2. CASE presenceUnsub = NoEntry
    <3>1. Settled(Presence) \/ "overlap" \in happened'
      BY <1>1, <2>2 DEF Open, Note, Overlap
    <3>2. PICK h \in Handlers :
            /\ Unreferenced(Presence, h)
            /\ \/ SubscribeFirst(Presence, h) /\ UNCHANGED presenceUnsub
               \/ SubscribeMore(Presence, h) /\ presenceUnsub' = h
      BY <1>1, <2>2 DEF Open, IsNewHandler, IsFreeName
    <3>3. userConns' = userConns \cup {c}
      BY <1>1 DEF Open
    <3>4. QED BY <2>2, <3>1, <3>2, <3>3 DEF PresenceStep
  <2>3. QED BY <2>1, <2>2
<1>2. ASSUME NEW c \in Conns, Close(c) PROVE PresenceStep
  <2> DEFINE dropped == Gone(rooms[c]) \cup (IF DropsPresence(c) THEN {Presence} ELSE {})
             calls == [x \in dropped |-> IF x = Presence THEN presenceUnsub
                                                         ELSE roomBusUnsub[x].unsub]
  <2>1. /\ Unsubscribe(calls) /\ c \in userConns
        /\ userConns' = userConns \ {c}
        /\ presenceUnsub' = IF DropsPresence(c) THEN NoEntry ELSE presenceUnsub
        /\ Settled(Presence) \/ "leave" \in happened'
    BY <1>2 DEF Close, Note, Leaving
  <2>2. Presence \notin Gone(rooms[c])
    BY <1>0 DEF Gone, TypeOK
  <2>3. (Presence \in DOMAIN calls <=> DropsPresence(c))
        /\ (DropsPresence(c) => calls[Presence] = presenceUnsub)
    BY <2>2
  <2> HIDE DEF calls
  <2>4. IF DropsPresence(c) THEN Dropped(Presence, presenceUnsub) ELSE Untouched(Presence)
    BY <1>0, <2>1, <2>3, Calls
  <2>5. DropsPresence(c) <=> userConns = {c} /\ presenceUnsub # NoEntry
    BY DEF DropsPresence
  <2>6. QED BY <2>1, <2>4, <2>5 DEF PresenceStep
<1>3. ASSUME NEW c \in Conns, NEW s \in Rooms, ChatSubscribe(c, s) PROVE PresenceStep
  BY <1>3, <1>a, <1>b DEF ChatSubscribe
<1>4. ASSUME NEW c \in Conns, NEW s \in Rooms, SubscribeRoom(c, s) PROVE PresenceStep
  <2>1. s \in Channels /\ s # Presence
    BY DEF Rooms
  <2>2. Untouched(Presence)
    BY <1>0, <1>4, <1>b, <2>1, OneChannel DEF SubscribeRoom, JoinBus
  <2>3. QED BY <1>4, <1>a, <2>2 DEF SubscribeRoom
<1>5. ASSUME NEW c \in Conns, NEW s \in Rooms, ChatUnsubscribe(c, s) PROVE PresenceStep
  <2> DEFINE calls == [x \in Gone({s}) |-> roomBusUnsub[x].unsub]
  <2>1. Unsubscribe(calls)
    BY <1>5 DEF ChatUnsubscribe
  <2>2. Presence \notin DOMAIN calls
    BY <1>0 DEF Gone
  <2> HIDE DEF calls
  <2>3. Untouched(Presence)
    BY <1>0, <2>1, <2>2, Calls
  <2>4. QED BY <1>5, <1>a, <2>3 DEF ChatUnsubscribe
<1>6. ASSUME NEW ch \in Channels, NEW h \in Handlers, SubscribeConfirmed(ch, h)
      PROVE  PresenceStep
  <2>1. CASE ch # Presence
    BY <1>0, <1>6, <1>a, <2>1, OneChannel DEF SubscribeConfirmed
  <2>2. CASE ch = Presence
    BY <1>6, <2>2 DEF SubscribeConfirmed, PresenceStep
  <2>3. QED BY <2>1, <2>2
<1>7. ASSUME NEW ch \in Channels, NEW h \in Handlers, SubscribeRejected(ch, h)
      PROVE  PresenceStep
  <2>1. RejectSubscribe(ch, h) /\ UNCHANGED regVars /\ "reject" \in happened'
    BY <1>7 DEF SubscribeRejected, Note
  <2>2. CASE ch # Presence
    BY <1>0, <1>a, <2>1, <2>2, OneChannel DEF regVars
  <2>3. CASE ch = Presence
    BY <2>1, <2>3 DEF PresenceStep, regVars
  <2>4. QED BY <2>2, <2>3
<1>8. ASSUME NEW ch \in Channels, UnsubscribeConfirmed(ch) PROVE PresenceStep
  <2>1. AnswerUnsubscribe(ch) /\ UNCHANGED regVars
    BY <1>8 DEF UnsubscribeConfirmed
  <2>2. CASE ch # Presence
    <3>1. Untouched(Presence)
      BY <1>0, <2>1, <2>2 DEF AnswerUnsubscribe, Answered, Untouched, TypeOK, BusTypeOK
    <3>2. QED BY <1>a, <2>1, <3>1 DEF regVars
  <2>3. CASE ch = Presence
    BY <2>1, <2>3 DEF PresenceStep, regVars
  <2>4. QED BY <2>2, <2>3
<1>9. CASE UNCHANGED vars
  BY <1>9, <1>a, <1>b DEF vars, regVars
<1>10. QED
  BY <1>1, <1>2, <1>3, <1>4, <1>5, <1>6, <1>7, <1>8, <1>9 DEF Next

\* The steps of a room and of the presence channel are steps of their channel.
LEMMA ChannelSteps ==
  ASSUME TypeOK, SubsMirrorRooms, [Next]_vars, NEW ch \in Channels
  PROVE  ChannelStep(ch)
<1>1. CASE ch = Presence
  <2>1. Kept(ch) = presenceUnsub /\ Kept(ch)' = presenceUnsub'
    BY <1>1 DEF Kept
  <2>2. presenceUnsub \in Handlers \cup {NoEntry}
    BY DEF TypeOK
  <2>3. QED BY <1>1, <2>1, <2>2, PresenceSteps DEF PresenceStep, ChannelStep
<1>2. CASE ch # Presence
  <2>1. ch \in Rooms
    BY <1>2 DEF Rooms
  <2> DEFINE now == roomBusUnsub[ch]
             next == roomBusUnsub'[ch]
  <2>2. /\ Kept(ch) = IF now = NoEntry THEN NoEntry ELSE now.unsub
        /\ Kept(ch)' = IF next = NoEntry THEN NoEntry ELSE next.unsub
    BY <1>2 DEF Kept
  <2>3. now # NoEntry => /\ now \in Entry /\ now.unsub \in Handlers
                         /\ now.refCount \in Nat \ {0}
    BY <2>1 DEF TypeOK, Entry
  <2>4. ASSUME NEW h \in Handlers, next = [unsub |-> h, refCount |-> 1]
        PROVE  Kept(ch)' = h
    <3>1. next \in [unsub : Handlers, refCount : Nat \ {0}]
      BY <2>4
    <3>2. QED BY <2>2, <2>4, <3>1, RegistryAssumption
  <2>5. ASSUME now # NoEntry,
               \/ next = [now EXCEPT !.refCount = @ + 1]
               \/ now.refCount # 1 /\ next = [now EXCEPT !.refCount = @ - 1]
        PROVE  Kept(ch)' = Kept(ch)
    <3>1. next.unsub = now.unsub /\ next \in [unsub : Handlers, refCount : Nat \ {0}]
      BY <2>3, <2>5 DEF Entry
    <3>2. QED BY <2>2, <2>5, <3>1, RegistryAssumption
  <2>6. next = now => Kept(ch)' = Kept(ch)
    BY <2>2
  <2>7. RoomStep(ch)
    BY <2>1, RoomSteps
  <2> HIDE DEF now, next
  <2>8. ASSUME EntryJoined(ch), Settled(ch) \/ "overlap" \in happened'
        PROVE  ChannelStep(ch)
    BY <2>2, <2>4, <2>5, <2>8 DEF EntryJoined, ChannelStep, now, next
  <2>9. ASSUME EntryLeft(ch), Settled(ch) \/ "leave" \in happened'
        PROVE  ChannelStep(ch)
    BY <2>2, <2>3, <2>5, <2>9 DEF EntryLeft, ChannelStep, now, next
  <2>10. QED
    BY <2>4, <2>6, <2>7, <2>8, <2>9 DEF RoomStep, ChannelStep, now, next
<1>3. QED BY <1>1, <1>2

-----------------------------------------------------------------------------
(* The phases of a channel                                                 *)

\* A channel is in one of three phases: idle, with no handler; joining, with one
\* SUBSCRIBE that is the last command sent, and no closure kept yet; joined, with
\* exactly the handler whose closure is kept.
OneSubscribeLast(ch) ==
  \A i \in 1..Len(wire[ch]) : i < Len(wire[ch]) => wire[ch][i] = UNSUBSCRIBE

Joining(ch) ==
  \A h \in Awaiting(ch) :
    Kept(ch) = NoEntry /\ channelHandlers[ch] = [set |-> h, handlers |-> {}]

IdleOrJoined(ch) ==
  Settled(ch) =>
    IF Kept(ch) = NoEntry THEN LiveHandlers(ch) = {}
    ELSE channelHandlers[ch] # NoSet /\ LiveHandlers(ch) = {Kept(ch)}

Phased(ch) == OneSubscribeLast(ch) /\ Joining(ch) /\ IdleOrJoined(ch)

\* A second bus.subscribe call for ch, while a first one awaits Redis.
Overlapping(ch) ==
  /\ ~ Settled(ch)
  /\ \E h \in Handlers : /\ Kept(ch) = NoEntry /\ Unreferenced(ch, h)
                         /\ SubscribeMore(ch, h) /\ Kept(ch)' = h

-----------------------------------------------------------------------------
\* What each step of the bus does to the wire and the handlers of its channel.
LEMMA UntouchedWire ==
  ASSUME NEW ch \in Channels, Untouched(ch)
  PROVE  /\ Awaiting(ch)' = Awaiting(ch) /\ LiveHandlers(ch)' = LiveHandlers(ch)
         /\ OneSubscribeLast(ch) => OneSubscribeLast(ch)'
  BY DEF Untouched, Awaiting, LiveHandlers, OneSubscribeLast

\* A settled channel has only UNSUBSCRIBE on its wire.
LEMMA SettledWire ==
  ASSUME BusTypeOK, NEW ch \in Channels, Settled(ch)
  PROVE  \A i \in 1..Len(wire[ch]) : wire[ch][i] = UNSUBSCRIBE
<1>1. wire[ch] \in Seq(Handlers \cup {UNSUBSCRIBE})
  BY DEF BusTypeOK
<1>2. QED BY <1>1 DEF Settled, Awaiting

LEMMA FirstWire ==
  ASSUME TypeOK, NEW ch \in Channels, NEW h \in Handlers, SubscribeFirst(ch, h), Settled(ch)
  PROVE  /\ OneSubscribeLast(ch)' /\ Awaiting(ch)' = {h}
         /\ channelHandlers'[ch] = [set |-> h, handlers |-> {}]
<1>1. /\ wire'[ch] = Append(wire[ch], h)
      /\ channelHandlers'[ch] = [set |-> h, handlers |-> {}]
      /\ wire[ch] \in Seq(Handlers \cup {UNSUBSCRIBE})
  BY DEF TypeOK, BusTypeOK, SubscribeFirst
<1>2. /\ Len(wire'[ch]) = Len(wire[ch]) + 1
      /\ Len(wire[ch]) \in Nat
      /\ wire'[ch][Len(wire[ch]) + 1] = h
      /\ \A i \in 1..Len(wire[ch]) : wire'[ch][i] = UNSUBSCRIBE
  BY <1>1, SettledWire DEF TypeOK
<1>3. OneSubscribeLast(ch)'
  BY <1>2 DEF OneSubscribeLast
<1>4. Awaiting(ch)' = {h}
  <2>1. h \in Awaiting(ch)'
    BY <1>2 DEF Awaiting
  <2>2. ASSUME NEW g \in Awaiting(ch)'
        PROVE  g = h
    BY <1>2, BusAssumption DEF Awaiting
  <2>3. QED BY <2>1, <2>2
<1>5. QED BY <1>1, <1>3, <1>4

LEMMA MoreWire ==
  ASSUME TypeOK, NEW ch \in Channels, NEW h \in Handlers, SubscribeMore(ch, h)
  PROVE  /\ Awaiting(ch)' = Awaiting(ch)
         /\ OneSubscribeLast(ch) => OneSubscribeLast(ch)'
         /\ channelHandlers[ch] # NoSet /\ channelHandlers'[ch] # NoSet
         /\ channelHandlers'[ch].set = channelHandlers[ch].set
         /\ LiveHandlers(ch)' = LiveHandlers(ch) \cup {h}
<1>1. /\ channelHandlers[ch] # NoSet /\ channelHandlers[ch] \in HandlerSet
      /\ channelHandlers'[ch] = [channelHandlers[ch] EXCEPT !.handlers = @ \cup {h}]
      /\ wire' = wire
  BY DEF TypeOK, BusTypeOK, SubscribeMore
<1>2. /\ channelHandlers'[ch] \in HandlerSet
      /\ channelHandlers'[ch].set = channelHandlers[ch].set
      /\ channelHandlers'[ch].handlers = channelHandlers[ch].handlers \cup {h}
  BY <1>1 DEF HandlerSet
<1>3. channelHandlers'[ch] # NoSet
  BY <1>2, BusAssumption DEF HandlerSet
<1>4. QED BY <1>1, <1>2, <1>3 DEF Awaiting, OneSubscribeLast, LiveHandlers

LEMMA DroppedWire ==
  ASSUME TypeOK, NEW ch \in Channels, NEW h \in Handlers, Dropped(ch, h), Settled(ch)
  PROVE  /\ OneSubscribeLast(ch)' /\ Awaiting(ch)' = {}
         /\ LiveHandlers(ch)' = LiveHandlers(ch) \ {h}
         /\ channelHandlers'[ch] # NoSet <=> ~ (LiveHandlers(ch) \subseteq {h})
<1>1. \/ wire'[ch] = wire[ch]
      \/ wire'[ch] = Append(wire[ch], UNSUBSCRIBE)
  BY DEF Dropped
<1>2. wire[ch] \in Seq(Handlers \cup {UNSUBSCRIBE})
  BY DEF TypeOK, BusTypeOK
<1>3. \A i \in 1..Len(wire'[ch]) : wire'[ch][i] = UNSUBSCRIBE
  <2>1. \A i \in 1..Len(wire[ch]) : wire[ch][i] = UNSUBSCRIBE
    BY SettledWire DEF TypeOK
  <2>2. CASE wire'[ch] = wire[ch]
    BY <2>1, <2>2
  <2>3. CASE wire'[ch] = Append(wire[ch], UNSUBSCRIBE)
    <3>1. /\ Len(wire'[ch]) = Len(wire[ch]) + 1 /\ Len(wire[ch]) \in Nat
          /\ wire'[ch][Len(wire[ch]) + 1] = UNSUBSCRIBE
          /\ \A i \in 1..Len(wire[ch]) : wire'[ch][i] = wire[ch][i]
      BY <1>2, <2>3, AppendLast
    <3>2. QED BY <2>1, <3>1
  <2>4. QED BY <1>1, <2>2, <2>3
<1>4. OneSubscribeLast(ch)' /\ Awaiting(ch)' = {}
  BY <1>3, BusAssumption DEF OneSubscribeLast, Awaiting
<1>5. CASE LiveHandlers(ch) \subseteq {h}
  <2>1. channelHandlers'[ch] = NoSet
    BY <1>5 DEF Dropped, WithoutHandler
  <2>2. QED BY <1>4, <1>5, <2>1 DEF LiveHandlers
<1>6. CASE ~ (LiveHandlers(ch) \subseteq {h})
  <2>1. /\ channelHandlers[ch] # NoSet /\ channelHandlers[ch] \in HandlerSet
        /\ channelHandlers'[ch] = [channelHandlers[ch] EXCEPT !.handlers = @ \ {h}]
    BY <1>6 DEF Dropped, WithoutHandler, LiveHandlers, TypeOK, BusTypeOK
  <2>2. /\ channelHandlers'[ch] \in HandlerSet
        /\ channelHandlers'[ch].handlers = channelHandlers[ch].handlers \ {h}
    BY <2>1 DEF HandlerSet
  <2>3. channelHandlers'[ch] # NoSet
    BY <2>2, BusAssumption DEF HandlerSet
  <2>4. QED BY <1>4, <1>6, <2>1, <2>2, <2>3 DEF LiveHandlers
<1>7. QED BY <1>5, <1>6

\* An answer to SUBSCRIBE finds it alone on the wire.
LEMMA AnsweredAlone ==
  ASSUME TypeOK, NEW ch \in Channels, NEW h \in Handlers, Answered(ch), Head(wire[ch]) = h,
         OneSubscribeLast(ch)
  PROVE  /\ OneSubscribeLast(ch)' /\ h \in Awaiting(ch) /\ Awaiting(ch)' = {}
<1>1. /\ wire[ch] \in Seq(Handlers \cup {UNSUBSCRIBE})
      /\ wire[ch] # <<>> /\ h # UNSUBSCRIBE
      /\ wire'[ch] = Tail(wire[ch])
  BY BusAssumption DEF TypeOK, BusTypeOK, Answered
<1>2. Len(wire[ch]) \in Nat \ {0} /\ wire[ch][1] = h
  BY <1>1
<1>3. Len(wire[ch]) = 1
  <2>1. 1 \in 1..Len(wire[ch])
    BY <1>2
  <2>2. 1 < Len(wire[ch]) => wire[ch][1] = UNSUBSCRIBE
    BY <2>1 DEF OneSubscribeLast
  <2>3. ~ (1 < Len(wire[ch]))
    BY <1>1, <1>2, <2>2
  <2>4. \A n \in Nat \ {0} : ~ (1 < n) => n = 1
    OBVIOUS
  <2>5. QED BY <1>2, <2>3, <2>4
<1>4. Len(wire'[ch]) = 0
  BY <1>1, <1>3
<1>5. h \in Awaiting(ch)
  BY <1>2 DEF Awaiting
<1>6. QED BY <1>4, <1>5 DEF OneSubscribeLast, Awaiting

\* The confirmed call fills the Set it made, if the map still has it.
LEMMA ConfirmedHandlers ==
  ASSUME TypeOK, NEW ch \in Channels, NEW h \in Handlers, AnswerSubscribe(ch, h),
         channelHandlers[ch] # NoSet, channelHandlers[ch].set = h
  PROVE  channelHandlers'[ch] # NoSet /\ LiveHandlers(ch)' = LiveHandlers(ch) \cup {h}
<1>1. /\ channelHandlers[ch] \in HandlerSet
      /\ channelHandlers'[ch] = [channelHandlers[ch] EXCEPT !.handlers = @ \cup {h}]
  BY DEF TypeOK, BusTypeOK, AnswerSubscribe
<1>2. /\ channelHandlers'[ch] \in HandlerSet
      /\ channelHandlers'[ch].handlers = channelHandlers[ch].handlers \cup {h}
  BY <1>1 DEF HandlerSet
<1>3. channelHandlers'[ch] # NoSet
  BY <1>2, BusAssumption DEF HandlerSet
<1>4. QED BY <1>2, <1>3 DEF LiveHandlers

LEMMA UnsubscribedWire ==
  ASSUME TypeOK, NEW ch \in Channels, AnswerUnsubscribe(ch)
  PROVE  /\ Awaiting(ch)' = Awaiting(ch) /\ channelHandlers'[ch] = channelHandlers[ch]
         /\ OneSubscribeLast(ch) => OneSubscribeLast(ch)'
<1>1. /\ wire[ch] \in Seq(Handlers \cup {UNSUBSCRIBE})
      /\ wire[ch] # <<>> /\ Head(wire[ch]) = UNSUBSCRIBE
      /\ wire'[ch] = Tail(wire[ch])
      /\ channelHandlers' = channelHandlers
  BY DEF TypeOK, BusTypeOK, AnswerUnsubscribe, Answered
<1>2. /\ Len(wire[ch]) \in Nat \ {0} /\ wire[ch][1] = UNSUBSCRIBE
      /\ Len(wire'[ch]) = Len(wire[ch]) - 1
      /\ \A i \in 1..Len(wire'[ch]) : wire'[ch][i] = wire[ch][i + 1]
  BY <1>1
<1>3. ASSUME OneSubscribeLast(ch) PROVE OneSubscribeLast(ch)'
  <2>1. ASSUME NEW i \in 1..Len(wire'[ch]), i < Len(wire'[ch])
        PROVE  wire'[ch][i] = UNSUBSCRIBE
    <3>1. i + 1 \in 1..Len(wire[ch]) /\ i + 1 < Len(wire[ch])
      BY <1>2, <2>1
    <3>2. QED BY <1>2, <1>3, <3>1 DEF OneSubscribeLast
  <2>2. QED BY <2>1 DEF OneSubscribeLast
<1>4. Awaiting(ch)' = Awaiting(ch)
  <2>1. ASSUME NEW h \in Awaiting(ch)
        PROVE  h \in Awaiting(ch)'
    <3>1. PICK i \in 1..Len(wire[ch]) : wire[ch][i] = h
      BY DEF Awaiting
    <3>2. h \in Handlers /\ h # UNSUBSCRIBE
      BY BusAssumption DEF Awaiting
    <3>3. i \in Nat /\ i # 1 /\ i # 0
      BY <1>2, <3>1, <3>2
    <3>4. i - 1 \in 1..Len(wire'[ch]) /\ wire'[ch][i - 1] = h
      BY <1>2, <3>1, <3>3
    <3>5. QED BY <3>2, <3>4 DEF Awaiting
  <2>2. ASSUME NEW h \in Awaiting(ch)'
        PROVE  h \in Awaiting(ch)
    <3>1. PICK i \in 1..Len(wire'[ch]) : wire'[ch][i] = h
      BY DEF Awaiting
    <3>2. i + 1 \in 1..Len(wire[ch]) /\ wire[ch][i + 1] = h
      BY <1>2, <3>1
    <3>3. QED BY <3>2, <2>2 DEF Awaiting
  <2>3. QED BY <2>1, <2>2
<1>5. QED BY <1>1, <1>3, <1>4

-----------------------------------------------------------------------------
\* Only a settled channel has no key, and so only there is a SUBSCRIBE sent.
LEMMA FirstSettled ==
  ASSUME NEW ch \in Channels, NEW h \in Handlers, Phased(ch), SubscribeFirst(ch, h)
  PROVE  Settled(ch)
<1>1. channelHandlers[ch] = NoSet
  BY DEF SubscribeFirst
<1>2. ASSUME NEW g \in Awaiting(ch) PROVE FALSE
  <2>1. g \in Handlers /\ channelHandlers[ch] = [set |-> g, handlers |-> {}]
    BY <1>2 DEF Awaiting, Phased, Joining
  <2>2. QED BY <1>1, <2>1, BusAssumption
<1>3. QED BY <1>2 DEF Settled

\* Unless bus.subscribe is called for a channel on which a call awaits Redis, the
\* channel keeps to its phases: departures, strays and rejections included.
LEMMA PhaseStep ==
  ASSUME TypeOK, NEW ch \in Channels, ChannelStep(ch), Phased(ch),
         "overlap" \notin happened' \/ ~ Overlapping(ch)
  PROVE  Phased(ch)'
<1> USE DEF Phased
<1>0. NoEntry \notin Handlers
  BY RegistryAssumption
<1>1. CASE Untouched(ch) /\ Kept(ch)' = Kept(ch)
  BY <1>1, UntouchedWire DEF Untouched, Joining, IdleOrJoined, Settled
<1>2. ASSUME NEW h \in Handlers, SubscribeFirst(ch, h), Settled(ch), Kept(ch)' = NoEntry
      PROVE  Phased(ch)'
  BY <1>2, FirstWire DEF Joining, IdleOrJoined, Settled
<1>3. ASSUME NEW h \in Handlers, SubscribeMore(ch, h), Settled(ch),
             Kept(ch) = NoEntry, Kept(ch)' = h
      PROVE  Phased(ch)'
  BY <1>0, <1>3, MoreWire DEF Joining, IdleOrJoined, Settled
<1>4. ASSUME NEW h \in Handlers, Dropped(ch, h), Kept(ch) = h, Kept(ch)' = NoEntry
      PROVE  Phased(ch)'
  <2>1. Settled(ch)
    BY <1>0, <1>4 DEF Joining, Settled
  <2>2. LiveHandlers(ch) = {h}
    BY <1>0, <1>4, <2>1 DEF IdleOrJoined
  <2>3. QED BY <1>4, <2>1, <2>2, DroppedWire DEF Joining, IdleOrJoined, Settled
<1>5. ASSUME NEW h \in Handlers, AnswerSubscribe(ch, h), Kept(ch)' = h
      PROVE  Phased(ch)'
  <2>1. h \in Awaiting(ch) /\ Awaiting(ch)' = {} /\ OneSubscribeLast(ch)'
    BY <1>5, AnsweredAlone DEF AnswerSubscribe
  <2>2. channelHandlers[ch] = [set |-> h, handlers |-> {}]
    BY <2>1 DEF Joining
  <2>3. channelHandlers[ch] # NoSet /\ channelHandlers[ch].set = h /\ LiveHandlers(ch) = {}
    BY <2>2, BusAssumption DEF LiveHandlers
  <2>4. QED
    BY <1>0, <1>5, <2>1, <2>3, ConfirmedHandlers DEF Joining, IdleOrJoined, Settled
<1>6. ASSUME NEW h \in Handlers, RejectSubscribe(ch, h), Kept(ch)' = Kept(ch)
      PROVE  Phased(ch)'
  <2>1. /\ h \in Awaiting(ch) /\ Awaiting(ch)' = {} /\ OneSubscribeLast(ch)'
        /\ channelHandlers' = channelHandlers
    BY <1>6, AnsweredAlone DEF RejectSubscribe
  <2>2. Kept(ch) = NoEntry /\ channelHandlers[ch] = [set |-> h, handlers |-> {}]
    BY <2>1 DEF Joining
  <2>3. LiveHandlers(ch) = {} /\ LiveHandlers(ch)' = LiveHandlers(ch)
    BY <2>1, <2>2 DEF LiveHandlers
  <2>4. QED BY <1>6, <2>1, <2>2, <2>3 DEF Joining, IdleOrJoined
<1>7. CASE AnswerUnsubscribe(ch) /\ Kept(ch)' = Kept(ch)
  BY <1>7, UnsubscribedWire DEF Joining, IdleOrJoined, Settled, LiveHandlers
<1>8. QED
  BY <1>0, <1>1, <1>2, <1>3, <1>4, <1>5, <1>6, <1>7, FirstSettled DEF ChannelStep, Overlapping

LEMMA InitPhased ==
  ASSUME Init, NEW ch \in Channels
  PROVE  Phased(ch) /\ Kept(ch) = NoEntry /\ Settled(ch) /\ channelHandlers[ch] = NoSet
<1>1. wire[ch] = <<>> /\ channelHandlers[ch] = NoSet /\ Kept(ch) = NoEntry
  BY DEF Init, BusInit, Kept, Rooms
<1>2. 1..Len(wire[ch]) = {}
  <2>1. Len(<<>>) = 0 /\ 1..0 = {}
    OBVIOUS
  <2>2. QED BY <1>1, <2>1
<1>3. Awaiting(ch) = {}
  BY <1>2 DEF Awaiting
<1>4. QED
  BY <1>1, <1>2, <1>3
  DEF Phased, OneSubscribeLast, Joining, IdleOrJoined, Settled, LiveHandlers

\* In its phases a channel has at most one handler.
LEMMA PhasedHandlers ==
  ASSUME NEW ch \in Channels, Phased(ch)
  PROVE  /\ LiveHandlers(ch) = IF Kept(ch) = NoEntry THEN {} ELSE {Kept(ch)}
         /\ Kept(ch) # NoEntry => Settled(ch) /\ channelHandlers[ch] # NoSet
         /\ ~ Settled(ch) => channelHandlers[ch] # NoSet
<1> USE DEF Phased
<1>1. CASE Settled(ch)
  BY <1>1 DEF IdleOrJoined
<1>2. CASE ~ Settled(ch)
  <2>1. PICK h \in Awaiting(ch) :
          Kept(ch) = NoEntry /\ channelHandlers[ch] = [set |-> h, handlers |-> {}]
    BY <1>2 DEF Joining, Settled
  <2>2. h \in Handlers
    BY DEF Awaiting
  <2>3. QED BY <1>2, <2>1, <2>2, BusAssumption DEF LiveHandlers
<1>3. QED BY <1>1, <1>2

\* No socket hears an event twice, for any number of sockets and rooms and whatever
\* clients and Redis do, as long as no bus.subscribe call overlaps another for its
\* channel: every channel keeps a single handler (connection-registry.ts, 18-78).
THEOREM NobodyHearsTwice == Spec => []NeverTwice
<1> DEFINE Inv == "overlap" \notin happened => \A ch \in Channels : Phased(ch)
<1>1. Init => Inv
  BY InitPhased
<1>2. TypeOK /\ SubsMirrorRooms /\ Inv /\ [Next]_vars => Inv'
  <2> SUFFICES ASSUME TypeOK, SubsMirrorRooms, Inv, [Next]_vars, "overlap" \notin happened',
                      NEW ch \in Channels
               PROVE  Phased(ch)'
    OBVIOUS
  <2>1. "overlap" \notin happened
    BY HappenedGrows
  <2>2. QED BY <2>1, ChannelSteps, PhaseStep
<1>3. Inv => NeverTwice
  <2> SUFFICES ASSUME "overlap" \notin happened, \A ch \in Channels : Phased(ch),
                      NEW c \in Conns, NEW ch \in Channels
               PROVE  Copies(c, ch) <= 1
    BY DEF NeverTwice
  <2>1. LiveHandlers(ch) = {} \/ \E x : LiveHandlers(ch) = {x}
    BY PhasedHandlers
  <2>2. Cardinality(LiveHandlers(ch)) = 0 \/ Cardinality(LiveHandlers(ch)) = 1
    BY <2>1, FS_EmptySet, FS_Singleton
  <2>3. QED BY <2>2 DEF Copies
<1> HIDE DEF Inv
<1>4. QED BY <1>1, <1>2, <1>3, TypeCorrect, RoomsMirrored, PTL DEF Spec

-----------------------------------------------------------------------------
(* The audience of a channel                                               *)

\* refCount is at least the number of local subscribers; without an entry a room
\* has at most the one subscriber that is joining.
RoomAudience(r) ==
  IF roomBusUnsub[r] # NoEntry
  THEN Cardinality(roomLocalSubs[r]) <= roomBusUnsub[r].refCount
  ELSE /\ Settled(r) => roomLocalSubs[r] = {}
       /\ Cardinality(roomLocalSubs[r]) <= 1

\* While sockets are open, the presence channel is joined or about to be.
PresenceAudience == presenceUnsub = NoEntry /\ Settled(Presence) => userConns = {}

ChannelInv == \A ch \in Channels : Phased(ch)
AudienceInv == (\A r \in Rooms : RoomAudience(r)) /\ PresenceAudience

\* If nothing disturbed the registry, both are exact: refCount is the number of
\* local subscribers, a room being joined has the one that joins it, and the presence
\* channel is left with the last socket.
RoomCounted(r) ==
  IF roomBusUnsub[r] # NoEntry THEN roomBusUnsub[r].refCount = Cardinality(roomLocalSubs[r])
  ELSE IF Settled(r) THEN roomLocalSubs[r] = {} ELSE Cardinality(roomLocalSubs[r]) = 1

PresenceCounted == presenceUnsub = NoEntry /\ Settled(Presence) <=> userConns = {}

CountedInv == (\A r \in Rooms : RoomCounted(r)) /\ PresenceCounted

\* The local subscribers of a room are finitely many, and counting them follows
\* one that joins or leaves.
LEMMA Subscribers ==
  ASSUME TypeOK, NEW r \in Rooms, NEW c \in Conns
  PROVE  /\ Cardinality(roomLocalSubs[r]) \in Nat
         /\ Cardinality(roomLocalSubs[r]) = 0 <=> roomLocalSubs[r] = {}
         /\ c \notin roomLocalSubs[r] =>
              Cardinality(roomLocalSubs[r] \cup {c}) = Cardinality(roomLocalSubs[r]) + 1
         /\ c \in roomLocalSubs[r] =>
              /\ Cardinality(roomLocalSubs[r] \ {c}) = Cardinality(roomLocalSubs[r]) - 1
              /\ Cardinality(roomLocalSubs[r]) <= 1 => roomLocalSubs[r] \ {c} = {}
<1>1. roomLocalSubs[r] \in SUBSET Conns
  BY DEF TypeOK
<1>2. IsFiniteSet(roomLocalSubs[r])
  BY <1>1, FS_Subset, RegistryAssumption
<1>3. Cardinality(roomLocalSubs[r]) \in Nat
  BY <1>2, FS_CardinalityType
<1>4. Cardinality(roomLocalSubs[r]) = 0 <=> roomLocalSubs[r] = {}
  BY <1>2, FS_EmptySet
<1>5. ASSUME c \notin roomLocalSubs[r]
      PROVE  Cardinality(roomLocalSubs[r] \cup {c}) = Cardinality(roomLocalSubs[r]) + 1
  BY <1>2, <1>5, FS_AddElement
<1>6. ASSUME c \in roomLocalSubs[r]
      PROVE  /\ Cardinality(roomLocalSubs[r] \ {c}) = Cardinality(roomLocalSubs[r]) - 1
             /\ Cardinality(roomLocalSubs[r]) <= 1 => roomLocalSubs[r] \ {c} = {}
  <2>1. /\ IsFiniteSet(roomLocalSubs[r] \ {c})
        /\ Cardinality(roomLocalSubs[r] \ {c}) = Cardinality(roomLocalSubs[r]) - 1
    BY <1>2, <1>6, FS_RemoveElement
  <2>2. Cardinality(roomLocalSubs[r] \ {c}) \in Nat
    BY <2>1, FS_CardinalityType
  <2>3. QED BY <1>3, <2>1, <2>2, FS_EmptySet
<1>7. QED BY <1>3, <1>4, <1>5, <1>6

\* A kept entry holds the closure kept for the room, and a count.
LEMMA KeptEntry ==
  ASSUME TypeOK, NEW r \in Rooms
  PROVE  /\ Kept(r) = NoEntry <=> roomBusUnsub[r] = NoEntry
         /\ roomBusUnsub[r] # NoEntry => /\ roomBusUnsub[r] \in Entry
                                         /\ roomBusUnsub[r].unsub = Kept(r)
                                         /\ roomBusUnsub[r].refCount \in Nat \ {0}
<1>1. roomBusUnsub[r] # NoEntry => /\ roomBusUnsub[r] \in Entry
                                   /\ roomBusUnsub[r].unsub \in Handlers
                                   /\ roomBusUnsub[r].refCount \in Nat \ {0}
  BY DEF TypeOK, Entry
<1>2. QED BY <1>1, RegistryAssumption DEF Kept, Rooms

\* The entry after a step.
LEMMA NextEntry ==
  ASSUME TypeOK, NEW r \in Rooms
  PROVE  /\ \A h \in Handlers : roomBusUnsub'[r] = [unsub |-> h, refCount |-> 1] =>
              /\ roomBusUnsub'[r] # NoEntry /\ roomBusUnsub'[r].refCount = 1
              /\ Kept(r)' = h
         /\ \A n \in {1, -1} :
              /\ roomBusUnsub[r] # NoEntry /\ roomBusUnsub[r].refCount + n # 0
              /\ roomBusUnsub'[r] = [roomBusUnsub[r] EXCEPT !.refCount = @ + n]
              => /\ roomBusUnsub'[r] # NoEntry
                 /\ roomBusUnsub'[r].refCount = roomBusUnsub[r].refCount + n
<1>1. ASSUME NEW h \in Handlers, roomBusUnsub'[r] = [unsub |-> h, refCount |-> 1]
      PROVE  /\ roomBusUnsub'[r] # NoEntry /\ roomBusUnsub'[r].refCount = 1
             /\ Kept(r)' = h
  <2>1. roomBusUnsub'[r] \in [unsub : Handlers, refCount : Nat \ {0}]
    BY <1>1
  <2>2. QED BY <1>1, <2>1, RegistryAssumption DEF Kept, Rooms
<1>2. ASSUME NEW n \in {1, -1},
             roomBusUnsub[r] # NoEntry, roomBusUnsub[r].refCount + n # 0,
             roomBusUnsub'[r] = [roomBusUnsub[r] EXCEPT !.refCount = @ + n]
      PROVE  /\ roomBusUnsub'[r] # NoEntry
             /\ roomBusUnsub'[r].refCount = roomBusUnsub[r].refCount + n
  <2>1. /\ roomBusUnsub[r] \in [unsub : Handlers, refCount : Nat \ {0}]
        /\ roomBusUnsub[r].refCount \in Nat \ {0}
    BY <1>2, KeptEntry DEF Entry
  <2>2. roomBusUnsub[r].refCount + n \in Nat \ {0}
    BY <1>2, <2>1
  <2>3. /\ roomBusUnsub'[r] \in [unsub : Handlers, refCount : Nat \ {0}]
        /\ roomBusUnsub'[r].refCount = roomBusUnsub[r].refCount + n
    BY <1>2, <2>1, <2>2
  <2>4. QED BY <2>3, RegistryAssumption
<1>3. QED BY <1>1, <1>2

\* Seen from its channel, a joining room that is not overlapping was settled.
LEMMA JoinSettled ==
  ASSUME TypeOK, NEW r \in Rooms, Phased(r), EntryJoined(r), roomBusUnsub[r] = NoEntry,
         Settled(r) \/ ~ Overlapping(r)
  PROVE  /\ Settled(r)
         /\ \/ roomBusUnsub'[r] = NoEntry /\ ~ Settled(r)'
            \/ roomBusUnsub'[r] # NoEntry /\ roomBusUnsub'[r].refCount = 1
<1>0. r \in Channels
  BY DEF Rooms
<1>1. PICK h \in Handlers :
        /\ Unreferenced(r, h)
        /\ \/ SubscribeFirst(r, h) /\ roomBusUnsub'[r] = NoEntry
           \/ SubscribeMore(r, h) /\ roomBusUnsub'[r] = [unsub |-> h, refCount |-> 1]
  BY DEF EntryJoined
<1>2. CASE SubscribeFirst(r, h) /\ roomBusUnsub'[r] = NoEntry
  <2>1. Settled(r)
    BY <1>0, <1>2, FirstSettled
  <2>2. Awaiting(r)' = {h}
    BY <1>0, <1>2, <2>1, FirstWire
  <2>3. QED BY <1>2, <2>1, <2>2 DEF Settled
<1>3. CASE SubscribeMore(r, h) /\ roomBusUnsub'[r] = [unsub |-> h, refCount |-> 1]
  <2>1. Kept(r) = NoEntry
    BY KeptEntry
  <2>2. /\ roomBusUnsub'[r] # NoEntry /\ roomBusUnsub'[r].refCount = 1
        /\ Kept(r)' = h
    BY <1>3, NextEntry
  <2>3. Settled(r)
    BY <1>1, <1>3, <2>1, <2>2 DEF Overlapping
  <2>4. QED BY <2>2, <2>3
<1>4. QED BY <1>1, <1>2, <1>3

\* The answer to a SUBSCRIBE comes for a room without an entry.
LEMMA ConfirmJoining ==
  ASSUME TypeOK, NEW r \in Rooms, NEW h \in Handlers, Phased(r), AnswerSubscribe(r, h)
  PROVE  ~ Settled(r) /\ roomBusUnsub[r] = NoEntry
<1>1. r \in Channels
  BY DEF Rooms
<1>2. h \in Awaiting(r)
  BY <1>1, AnsweredAlone DEF Phased, AnswerSubscribe
<1>3. QED BY <1>1, <1>2, KeptEntry DEF Phased, Joining, Settled

\* The audience of a room follows its subscribers, as long as Redis rejects nothing
\* and only sockets in the room leave it.
LEMMA RoomAudienceStep ==
  ASSUME TypeOK, NEW r \in Rooms, RoomStep(r), Phased(r), RoomAudience(r),
         "overlap" \notin happened' \/ ~ Overlapping(r),
         "stray" \notin happened', "reject" \notin happened'
  PROVE  RoomAudience(r)'
<1>0. r \in Channels
  BY DEF Rooms
<1> DEFINE subs == roomLocalSubs[r]
           entry == roomBusUnsub[r]
<1>1. CASE Untouched(r) /\ roomBusUnsub'[r] = entry /\ roomLocalSubs'[r] = subs
  BY <1>0, <1>1, UntouchedWire DEF RoomAudience, Settled
<1>2. ASSUME NEW c \in Conns \ subs, roomLocalSubs'[r] = subs \cup {c}, EntryJoined(r),
             Settled(r) \/ ~ Overlapping(r)
      PROVE  RoomAudience(r)'
  <2>1. /\ Cardinality(subs) \in Nat /\ Cardinality(roomLocalSubs'[r]) = Cardinality(subs) + 1
        /\ Cardinality(subs) = 0 <=> subs = {}
    <3>1. c \in Conns /\ c \notin subs
      BY <1>2
    <3>2. /\ Cardinality(subs) \in Nat /\ Cardinality(subs \cup {c}) = Cardinality(subs) + 1
          /\ Cardinality(subs) = 0 <=> subs = {}
      BY <3>1, Subscribers
    <3>3. QED BY <1>2, <3>2
  <2>2. CASE entry # NoEntry
    <3>1. /\ entry.refCount \in Nat \ {0}
          /\ roomBusUnsub'[r] # NoEntry /\ roomBusUnsub'[r].refCount = entry.refCount + 1
      <4>1. roomBusUnsub'[r] = [entry EXCEPT !.refCount = @ + 1]
        BY <1>2, <2>2 DEF EntryJoined
      <4>2. entry.refCount \in Nat \ {0} /\ entry.refCount + 1 # 0
        BY <2>2, KeptEntry
      <4>3. QED BY <2>2, <4>1, <4>2, NextEntry
    <3>2. QED BY <2>1, <2>2, <3>1 DEF RoomAudience
  <2>3. CASE entry = NoEntry
    <3>1. Settled(r) /\ (roomBusUnsub'[r] = NoEntry => ~ Settled(r)')
          /\ (roomBusUnsub'[r] # NoEntry => roomBusUnsub'[r].refCount = 1)
      BY <1>2, <2>3, JoinSettled
    <3>2. Cardinality(roomLocalSubs'[r]) = 1
      BY <2>1, <2>3, <3>1 DEF RoomAudience
    <3>3. QED BY <3>1, <3>2 DEF RoomAudience
  <2>4. QED BY <2>2, <2>3
<1>3. ASSUME NEW c \in subs, roomLocalSubs'[r] = subs \ {c}, EntryLeft(r)
      PROVE  RoomAudience(r)'
  <2>0. c \in Conns
    BY DEF TypeOK
  <2>1. /\ Cardinality(subs) \in Nat /\ Cardinality(roomLocalSubs'[r]) = Cardinality(subs) - 1
        /\ Cardinality(subs) <= 1 => roomLocalSubs'[r] = {}
    BY <1>3, <2>0, Subscribers
  <2>2. CASE entry = NoEntry
    <3>1. roomBusUnsub'[r] = NoEntry /\ Cardinality(subs) <= 1
      BY <1>3, <2>2 DEF EntryLeft, RoomAudience
    <3>2. QED BY <2>1, <3>1 DEF RoomAudience
  <2>3. CASE entry # NoEntry /\ entry.refCount # 1
    <3>1. entry.refCount \in Nat \ {0}
      BY <2>3, KeptEntry
    <3>2. roomBusUnsub'[r] # NoEntry /\ roomBusUnsub'[r].refCount = entry.refCount + (-1)
      <4>1. roomBusUnsub'[r] = [entry EXCEPT !.refCount = @ - 1]
        BY <1>3, <2>3 DEF EntryLeft
      <4>2. entry.refCount + (-1) = entry.refCount - 1 /\ entry.refCount + (-1) # 0
        BY <2>3, <3>1
      <4>3. QED BY <2>3, <4>1, <4>2, NextEntry
    <3>3. QED BY <2>1, <2>3, <3>1, <3>2 DEF RoomAudience
  <2>4. CASE entry # NoEntry /\ entry.refCount = 1
    <3>1. roomBusUnsub'[r] = NoEntry /\ Cardinality(subs) <= 1
      BY <1>3, <2>4 DEF EntryLeft, RoomAudience
    <3>2. QED BY <2>1, <3>1 DEF RoomAudience
  <2>5. QED BY <2>2, <2>3, <2>4
<1>4. ASSUME NEW h \in Handlers, AnswerSubscribe(r, h), roomLocalSubs'[r] = subs,
             roomBusUnsub'[r] = [unsub |-> h, refCount |-> 1]
      PROVE  RoomAudience(r)'
  <2>1. Cardinality(subs) <= 1
    BY <1>4, ConfirmJoining DEF RoomAudience
  <2>2. QED BY <1>4, <2>1, NextEntry DEF RoomAudience
<1>5. CASE AnswerUnsubscribe(r) /\ roomBusUnsub'[r] = entry /\ roomLocalSubs'[r] = subs
  BY <1>0, <1>5, UnsubscribedWire DEF RoomAudience, Settled
<1>6. QED BY <1>1, <1>2, <1>3, <1>4, <1>5 DEF RoomStep

\* So does the presence channel, whether or not calls overlap.
LEMMA PresenceAudienceStep ==
  ASSUME TypeOK, PresenceStep, Phased(Presence), PresenceAudience, "reject" \notin happened'
  PROVE  PresenceAudience'
<1>0. Presence \in Channels /\ NoEntry \notin Handlers
  BY RegistryAssumption
<1>1. CASE Untouched(Presence) /\ presenceUnsub' = presenceUnsub /\ userConns' \subseteq userConns
  BY <1>0, <1>1, UntouchedWire DEF PresenceAudience, Settled
<1>2. ASSUME NEW h \in Handlers, SubscribeFirst(Presence, h)
      PROVE  PresenceAudience'
  <2>1. Awaiting(Presence)' = {h}
    BY <1>0, <1>2, FirstSettled, FirstWire
  <2>2. QED BY <2>1 DEF PresenceAudience, Settled
<1>3. CASE AnswerUnsubscribe(Presence) /\ presenceUnsub' = presenceUnsub /\ userConns' = userConns
  BY <1>0, <1>3, UnsubscribedWire DEF PresenceAudience, Settled
<1>4. CASE presenceUnsub' # NoEntry \/ userConns' = {}
  BY <1>4 DEF PresenceAudience
<1>5. QED BY <1>0, <1>1, <1>2, <1>3, <1>4 DEF PresenceStep

-----------------------------------------------------------------------------
\* Nothing but departures of sockets has disturbed the registry.
Calm == happened \subseteq {"leave"}

DeliveryInv == TypeOK /\ SubsMirrorRooms /\ ChannelInv /\ AudienceInv

LEMMA InitDelivery == Init => DeliveryInv
<1> SUFFICES ASSUME Init PROVE DeliveryInv
  OBVIOUS
<1>1. TypeOK /\ SubsMirrorRooms
  BY InitType DEF Init, SubsMirrorRooms
<1>2. AudienceInv
  BY FS_EmptySet DEF Init, AudienceInv, RoomAudience, PresenceAudience
<1>3. QED BY <1>1, <1>2, InitPhased DEF DeliveryInv, ChannelInv

LEMMA NextDelivery ==
  ASSUME DeliveryInv, Calm', [Next]_vars
  PROVE  ChannelInv' /\ AudienceInv'
<1> USE DEF DeliveryInv
<1>1. /\ "overlap" \notin happened' /\ "stray" \notin happened' /\ "reject" \notin happened'
  BY DEF Calm
<1>2. ChannelInv'
  BY <1>1, ChannelSteps, PhaseStep DEF ChannelInv
<1>3. ASSUME NEW r \in Rooms PROVE RoomAudience(r)'
  <2>1. RoomStep(r) /\ Phased(r) /\ RoomAudience(r)
    BY RoomSteps DEF ChannelInv, AudienceInv, Rooms
  <2>2. QED BY <1>1, <2>1, RoomAudienceStep
<1>4. PresenceAudience'
  BY <1>1, PresenceSteps, PresenceAudienceStep, RegistryAssumption DEF ChannelInv, AudienceInv
<1>5. QED BY <1>2, <1>3, <1>4 DEF AudienceInv

\* Calm, every channel keeps to its phases and its audience is accounted for.
LEMMA CalmDelivery == Spec => [](Calm => ChannelInv /\ AudienceInv)
<1> DEFINE Inv == Calm => ChannelInv /\ AudienceInv
<1>1. Init => Inv
  BY InitDelivery DEF DeliveryInv
<1>2. TypeOK /\ SubsMirrorRooms /\ Inv /\ [Next]_vars => Inv'
  <2> SUFFICES ASSUME TypeOK, SubsMirrorRooms, Inv, [Next]_vars, Calm'
               PROVE  ChannelInv' /\ AudienceInv'
    OBVIOUS
  <2>1. Calm
    BY HappenedGrows DEF Calm
  <2>2. QED BY <2>1, NextDelivery DEF DeliveryInv
<1> HIDE DEF Inv
<1>3. Spec => []Inv
  BY <1>1, <1>2, TypeCorrect, RoomsMirrored, PTL DEF Spec
<1>4. QED BY <1>3 DEF Inv

\* With the map and the wire in agreement, a channel in its phases and with no command
\* outstanding carries each event to its whole audience.
ChannelAudience(ch) == IF ch = Presence THEN PresenceAudience ELSE RoomAudience(ch)

LEMMA NoCommand ==
  ASSUME NEW ch \in Channels, wire[ch] = <<>>
  PROVE  Settled(ch)
<1>1. Len(<<>>) = 0 /\ 1..0 = {}
  OBVIOUS
<1>2. QED BY <1>1 DEF Settled, Awaiting

LEMMA PhasedReaches ==
  ASSUME TypeOK, MapMatchesWire, NEW ch \in Channels, Phased(ch), ChannelAudience(ch),
         wire[ch] = <<>>, NEW c \in Audience(ch)
  PROVE  Copies(c, ch) >= 1
<1>1. Settled(ch)
  BY NoCommand
<1>2. Kept(ch) # NoEntry
  <2>1. CASE ch = Presence
    BY <1>1, <2>1 DEF ChannelAudience, PresenceAudience, Audience, Kept
  <2>2. CASE ch # Presence
    <3>1. ch \in Rooms /\ c \in roomLocalSubs[ch] /\ RoomAudience(ch)
      BY <2>2 DEF Rooms, Audience, ChannelAudience
    <3>2. roomBusUnsub[ch] # NoEntry
      BY <1>1, <3>1 DEF RoomAudience
    <3>3. QED BY <3>1, <3>2, KeptEntry
  <2>3. QED BY <2>1, <2>2
<1>3. LiveHandlers(ch) = {Kept(ch)} /\ channelHandlers[ch] # NoSet
  BY <1>2, PhasedHandlers
<1>4. ch \in subscribed
  BY <1>3 DEF MapMatchesWire
<1>5. Cardinality(LiveHandlers(ch)) = 1
  BY <1>3, FS_Singleton
<1>6. QED BY <1>4, <1>5 DEF Copies

-----------------------------------------------------------------------------
(* The count is exact while nothing disturbs the registry                  *)

LEMMA RoomCountedStep ==
  ASSUME TypeOK, NEW r \in Rooms, RoomStep(r), Phased(r), RoomCounted(r), happened' = {}
  PROVE  RoomCounted(r)'
<1>0. r \in Channels
  BY DEF Rooms
<1> DEFINE subs == roomLocalSubs[r]
           entry == roomBusUnsub[r]
<1>1. CASE Untouched(r) /\ roomBusUnsub'[r] = entry /\ roomLocalSubs'[r] = subs
  BY <1>0, <1>1, UntouchedWire DEF RoomCounted, Settled
<1>2. ASSUME NEW c \in Conns \ subs, roomLocalSubs'[r] = subs \cup {c}, EntryJoined(r),
             Settled(r)
      PROVE  RoomCounted(r)'
  <2>1. /\ Cardinality(subs) \in Nat /\ Cardinality(roomLocalSubs'[r]) = Cardinality(subs) + 1
        /\ Cardinality(subs) = 0 <=> subs = {}
    <3>1. c \in Conns /\ c \notin subs
      BY <1>2
    <3>2. /\ Cardinality(subs) \in Nat /\ Cardinality(subs \cup {c}) = Cardinality(subs) + 1
          /\ Cardinality(subs) = 0 <=> subs = {}
      BY <3>1, Subscribers
    <3>3. QED BY <1>2, <3>2
  <2>2. CASE entry # NoEntry
    <3>1. /\ entry.refCount \in Nat \ {0}
          /\ roomBusUnsub'[r] # NoEntry /\ roomBusUnsub'[r].refCount = entry.refCount + 1
      <4>1. roomBusUnsub'[r] = [entry EXCEPT !.refCount = @ + 1]
        BY <1>2, <2>2 DEF EntryJoined
      <4>2. entry.refCount \in Nat \ {0} /\ entry.refCount + 1 # 0
        BY <2>2, KeptEntry
      <4>3. QED BY <2>2, <4>1, <4>2, NextEntry
    <3>2. QED BY <2>1, <2>2, <3>1 DEF RoomCounted
  <2>3. CASE entry = NoEntry
    <3>1. (roomBusUnsub'[r] = NoEntry => ~ Settled(r)')
          /\ (roomBusUnsub'[r] # NoEntry => roomBusUnsub'[r].refCount = 1)
      BY <1>2, <2>3, JoinSettled
    <3>2. Cardinality(roomLocalSubs'[r]) = 1
      BY <1>2, <2>1, <2>3 DEF RoomCounted
    <3>3. QED BY <3>1, <3>2 DEF RoomCounted
  <2>4. QED BY <2>2, <2>3
<1>3. ASSUME NEW c \in subs, roomLocalSubs'[r] = subs \ {c}, EntryLeft(r), Settled(r)
      PROVE  RoomCounted(r)'
  <2>0. c \in Conns
    BY DEF TypeOK
  <2>1. /\ Cardinality(subs) \in Nat /\ Cardinality(roomLocalSubs'[r]) = Cardinality(subs) - 1
        /\ Cardinality(subs) <= 1 => roomLocalSubs'[r] = {}
    BY <1>3, <2>0, Subscribers
  <2>2. entry # NoEntry /\ entry.refCount = Cardinality(subs)
    BY <1>3 DEF RoomCounted
  <2>3. CASE entry.refCount # 1
    <3>1. entry.refCount \in Nat \ {0}
      BY <2>2, KeptEntry
    <3>2. roomBusUnsub'[r] # NoEntry /\ roomBusUnsub'[r].refCount = entry.refCount + (-1)
      <4>1. roomBusUnsub'[r] = [entry EXCEPT !.refCount = @ - 1]
        BY <1>3, <2>2, <2>3 DEF EntryLeft
      <4>2. entry.refCount + (-1) = entry.refCount - 1 /\ entry.refCount + (-1) # 0
        BY <2>3, <3>1
      <4>3. QED BY <2>2, <4>1, <4>2, NextEntry
    <3>3. QED BY <2>1, <2>2, <3>1, <3>2 DEF RoomCounted
  <2>4. CASE entry.refCount = 1
    <3>1. roomBusUnsub'[r] = NoEntry /\ Dropped(r, Kept(r)) /\ Kept(r) \in Handlers
      BY <1>3, <2>2, <2>4, KeptEntry DEF EntryLeft, Entry
    <3>2. Settled(r)'
      BY <1>0, <1>3, <3>1, DroppedWire DEF Settled
    <3>3. roomLocalSubs'[r] = {}
      BY <2>1, <2>2, <2>4
    <3>4. QED BY <3>1, <3>2, <3>3 DEF RoomCounted
  <2>5. QED BY <2>3, <2>4
<1>4. ASSUME NEW h \in Handlers, AnswerSubscribe(r, h), roomLocalSubs'[r] = subs,
             roomBusUnsub'[r] = [unsub |-> h, refCount |-> 1]
      PROVE  RoomCounted(r)'
  <2>1. Cardinality(subs) = 1
    BY <1>4, ConfirmJoining DEF RoomCounted
  <2>2. QED BY <1>4, <2>1, NextEntry DEF RoomCounted
<1>5. CASE AnswerUnsubscribe(r) /\ roomBusUnsub'[r] = entry /\ roomLocalSubs'[r] = subs
  BY <1>0, <1>5, UnsubscribedWire DEF RoomCounted, Settled
<1>6. QED BY <1>1, <1>2, <1>3, <1>4, <1>5 DEF RoomStep

LEMMA PresenceCountedStep ==
  ASSUME TypeOK, PresenceStep, Phased(Presence), PresenceCounted, happened' = {}
  PROVE  PresenceCounted'
<1>0. Presence \in Channels /\ NoEntry \notin Handlers
  BY RegistryAssumption
<1>1. CASE Untouched(Presence) /\ presenceUnsub' = presenceUnsub /\ userConns' = userConns
  BY <1>0, <1>1, UntouchedWire DEF PresenceCounted, Settled
<1>2. ASSUME NEW h \in Handlers, SubscribeFirst(Presence, h), NEW c \in Conns,
             userConns' = userConns \cup {c}
      PROVE  PresenceCounted'
  <2>1. Awaiting(Presence)' = {h}
    BY <1>0, <1>2, FirstSettled, FirstWire
  <2>2. QED BY <1>2, <2>1 DEF PresenceCounted, Settled
<1>3. CASE AnswerUnsubscribe(Presence) /\ presenceUnsub' = presenceUnsub /\ userConns' = userConns
  BY <1>0, <1>3, UnsubscribedWire DEF PresenceCounted, Settled
<1>4. ASSUME NEW c \in Conns, userConns' = userConns \cup {c}, presenceUnsub' # NoEntry
      PROVE  PresenceCounted'
  BY <1>4 DEF PresenceCounted
<1>5. ASSUME NEW c \in userConns, userConns' = userConns \ {c}, Settled(Presence),
             IF userConns = {c} /\ presenceUnsub # NoEntry
             THEN Dropped(Presence, presenceUnsub) /\ presenceUnsub' = NoEntry
             ELSE Untouched(Presence) /\ presenceUnsub' = presenceUnsub
      PROVE  PresenceCounted'
  <2>1. presenceUnsub # NoEntry
    BY <1>5 DEF PresenceCounted
  <2>2. CASE userConns = {c}
    <3>1. /\ presenceUnsub \in Handlers /\ Dropped(Presence, presenceUnsub)
          /\ presenceUnsub' = NoEntry /\ userConns' = {}
      BY <1>5, <2>1, <2>2 DEF TypeOK
    <3>2. Settled(Presence)'
      BY <1>0, <1>5, <3>1, DroppedWire DEF Settled
    <3>3. QED BY <3>1, <3>2 DEF PresenceCounted
  <2>3. CASE userConns # {c}
    BY <1>5, <2>1, <2>3 DEF PresenceCounted
  <2>4. QED BY <2>2, <2>3
<1>6. ASSUME NEW h \in Handlers, AnswerSubscribe(Presence, h), presenceUnsub' = h,
             userConns' = userConns
      PROVE  PresenceCounted'
  <2>1. h \in Awaiting(Presence)
    BY <1>0, <1>6, AnsweredAlone DEF Phased, AnswerSubscribe
  <2>2. userConns # {}
    BY <2>1 DEF PresenceCounted, Settled
  <2>3. QED BY <1>0, <1>6, <2>2 DEF PresenceCounted
<1>7. QED BY <1>0, <1>1, <1>2, <1>3, <1>4, <1>5, <1>6 DEF PresenceStep

LEMMA Counted == Spec => [](happened = {} => CountedInv)
<1> DEFINE Inv == happened = {} => CountedInv
<1>1. Init => Inv
  <2> SUFFICES ASSUME Init PROVE CountedInv
    OBVIOUS
  <2>1. \A ch \in Channels : Settled(ch)
    BY InitPhased
  <2>2. \A r \in Rooms : RoomCounted(r)
    BY <2>1 DEF Init, RoomCounted, Rooms
  <2>3. PresenceCounted
    BY <2>1, RegistryAssumption DEF Init, PresenceCounted
  <2>4. QED BY <2>2, <2>3 DEF CountedInv
<1>2. TypeOK /\ SubsMirrorRooms /\ (Calm => ChannelInv /\ AudienceInv) /\ Inv /\ [Next]_vars
        => Inv'
  <2> SUFFICES ASSUME TypeOK, SubsMirrorRooms, Calm => ChannelInv, Inv, [Next]_vars,
                      happened' = {}
               PROVE  CountedInv'
    OBVIOUS
  <2>1. CountedInv /\ ChannelInv
    BY HappenedGrows DEF Calm
  <2>2. \A r \in Rooms : RoomCounted(r)'
    BY <2>1, RoomSteps, RoomCountedStep DEF CountedInv, ChannelInv, Rooms
  <2>3. PresenceCounted'
    BY <2>1, PresenceSteps, PresenceCountedStep, RegistryAssumption DEF CountedInv, ChannelInv
  <2>4. QED BY <2>2, <2>3 DEF CountedInv
<1> HIDE DEF Inv
<1>3. Spec => []Inv
  BY <1>1, <1>2, TypeCorrect, RoomsMirrored, CalmDelivery, PTL DEF Spec
<1>4. QED BY <1>3 DEF Inv

\* refCount counts the local subscribers exactly while nothing disturbs the registry,
\* and is never too low even if sockets leave while a subscribe is in flight, for any
\* number of sockets (connection-registry.ts, 51-58 and 70-76).
THEOREM CountsAreExact == Spec => []RefCountIsSubscribers
<1>1. TypeOK /\ (Calm => ChannelInv /\ AudienceInv) /\ (happened = {} => CountedInv)
        => RefCountIsSubscribers
  <2> SUFFICES ASSUME TypeOK, Calm => AudienceInv, happened = {} => CountedInv,
                      NEW r \in Rooms
               PROVE  /\ happened \subseteq {"leave"} /\ roomBusUnsub[r] # NoEntry =>
                           roomBusUnsub[r].refCount >= Cardinality(roomLocalSubs[r])
                      /\ happened = {} /\ Settled(r) =>
                           IF roomBusUnsub[r] = NoEntry THEN roomLocalSubs[r] = {}
                           ELSE roomBusUnsub[r].refCount = Cardinality(roomLocalSubs[r])
    BY DEF RefCountIsSubscribers
  <2>1. ASSUME happened \subseteq {"leave"}, roomBusUnsub[r] # NoEntry
        PROVE  roomBusUnsub[r].refCount >= Cardinality(roomLocalSubs[r])
    <3>1. Cardinality(roomLocalSubs[r]) <= roomBusUnsub[r].refCount
      BY <2>1 DEF Calm, AudienceInv, RoomAudience
    <3>2. QED BY <3>1
  <2>2. ASSUME happened = {}, Settled(r)
        PROVE  IF roomBusUnsub[r] = NoEntry THEN roomLocalSubs[r] = {}
               ELSE roomBusUnsub[r].refCount = Cardinality(roomLocalSubs[r])
    BY <2>2 DEF CountedInv, RoomCounted
  <2>3. QED BY <2>1, <2>2
<1>2. QED BY <1>1, TypeCorrect, CalmDelivery, Counted, PTL

\* Undisturbed, a channel without local listeners has neither a key in the bus's map
\* nor, once Redis has answered, a subscription (connection-registry.ts, 39-42 and
\* 70-76; redis-message-bus.ts, 35-42).
THEOREM NothingIsLeftBehind == Spec => []NothingLeaks
<1>1. TypeOK /\ BusInStep /\ (Calm => ChannelInv /\ AudienceInv) /\ (happened = {} => CountedInv)
        => NothingLeaks
  <2> SUFFICES ASSUME TypeOK, MapMatchesWire, EmptySetIsAwaited, ChannelInv, CountedInv,
                      NEW ch \in Channels, Settled(ch), Audience(ch) = {}
               PROVE  channelHandlers[ch] = NoSet /\ (wire[ch] = <<>> => ch \notin subscribed)
    BY DEF NothingLeaks, BusInStep, Calm
  <2>1. Kept(ch) = NoEntry
    <3>1. CASE ch = Presence
      BY <3>1 DEF Audience, CountedInv, PresenceCounted, Kept
    <3>2. CASE ch # Presence
      <4>1. ch \in Rooms /\ roomLocalSubs[ch] = {}
        BY <3>2 DEF Rooms, Audience
      <4>2. Cardinality(roomLocalSubs[ch]) = 0
        BY <4>1, FS_EmptySet
      <4>3. QED BY <4>1, <4>2, KeptEntry DEF CountedInv, RoomCounted
    <3>3. QED BY <3>1, <3>2
  <2>2. LiveHandlers(ch) = {}
    BY <2>1, PhasedHandlers DEF ChannelInv
  <2>3. channelHandlers[ch] = NoSet
    BY <2>2 DEF EmptySetIsAwaited, Settled
  <2>4. QED BY <2>3 DEF MapMatchesWire
<1>2. QED BY <1>1, TypeCorrect, BusConsistent, CalmDelivery, Counted, PTL

-----------------------------------------------------------------------------
(* What overlapping calls leave behind                                     *)

\* A channel on which calls have overlapped: while the first call awaits Redis, the
\* second one's closure is kept; the answer puts the first one's in its place, and from
\* then on there is a handler nobody will ever remove.
Overlapped(ch) ==
  \E h \in Handlers :
    /\ Awaiting(ch) = {h}
    /\ channelHandlers[ch] # NoSet /\ channelHandlers[ch].set = h
    /\ h \notin LiveHandlers(ch)
    /\ Kept(ch) \in LiveHandlers(ch)

Orphaned(ch) ==
  Settled(ch) /\ channelHandlers[ch] # NoSet /\ LiveHandlers(ch) \ {Kept(ch)} # {}

Raced(ch) ==
  /\ OneSubscribeLast(ch)
  /\ \/ Phased(ch) /\ ChannelAudience(ch)
     \/ Overlapped(ch)
     \/ Orphaned(ch)

LEMMA HandlersLive ==
  ASSUME TypeOK, NEW ch \in Channels
  PROVE  LiveHandlers(ch) \subseteq Handlers
  BY DEF TypeOK, BusTypeOK, HandlerSet, LiveHandlers

LEMMA OverlappedStep ==
  ASSUME TypeOK, NEW ch \in Channels, ChannelStep(ch), OneSubscribeLast(ch), Overlapped(ch),
         happened' \subseteq {"overlap"}
  PROVE  OneSubscribeLast(ch)' /\ (Overlapped(ch)' \/ Orphaned(ch)')
<1>1. PICK h \in Handlers :
        /\ Awaiting(ch) = {h}
        /\ channelHandlers[ch] # NoSet /\ channelHandlers[ch].set = h
        /\ h \notin LiveHandlers(ch)
        /\ Kept(ch) \in LiveHandlers(ch)
  BY DEF Overlapped
<1>2. Kept(ch) # NoEntry /\ ~ Settled(ch)
  BY <1>1, HandlersLive, RegistryAssumption DEF Settled
<1>3. CASE Untouched(ch) /\ Kept(ch)' = Kept(ch)
  BY <1>1, <1>3, UntouchedWire DEF Untouched, Overlapped
<1>4. ASSUME NEW g \in Handlers, AnswerSubscribe(ch, g), Kept(ch)' = g
      PROVE  OneSubscribeLast(ch)' /\ Orphaned(ch)'
  <2>1. g \in Awaiting(ch) /\ Awaiting(ch)' = {} /\ OneSubscribeLast(ch)'
    BY <1>4, AnsweredAlone DEF AnswerSubscribe
  <2>2. g = h
    BY <1>1, <2>1
  <2>3. channelHandlers'[ch] # NoSet /\ LiveHandlers(ch)' = LiveHandlers(ch) \cup {h}
    BY <1>1, <1>4, <2>2, ConfirmedHandlers
  <2>4. Kept(ch) \in LiveHandlers(ch)' /\ Kept(ch) # Kept(ch)'
    BY <1>1, <1>4, <2>2, <2>3
  <2>5. QED BY <2>1, <2>3, <2>4 DEF Orphaned, Settled
<1>5. CASE AnswerUnsubscribe(ch) /\ Kept(ch)' = Kept(ch)
  BY <1>1, <1>5, UnsubscribedWire DEF Overlapped, LiveHandlers
<1>6. QED BY <1>2, <1>3, <1>4, <1>5 DEF ChannelStep

LEMMA OrphanedStep ==
  ASSUME TypeOK, NEW ch \in Channels, ChannelStep(ch), OneSubscribeLast(ch), Orphaned(ch),
         "reject" \notin happened'
  PROVE  OneSubscribeLast(ch)' /\ Orphaned(ch)'
<1>1. /\ Settled(ch) /\ channelHandlers[ch] # NoSet
      /\ \E orphan \in Handlers : orphan \in LiveHandlers(ch) \ {Kept(ch)}
  BY HandlersLive DEF Orphaned
<1>2. PICK orphan \in Handlers : orphan \in LiveHandlers(ch) /\ orphan # Kept(ch)
  BY <1>1
<1>3. orphan # NoEntry
  BY RegistryAssumption
<1>4. CASE Untouched(ch) /\ Kept(ch)' = Kept(ch)
  BY <1>4, UntouchedWire DEF Untouched, Orphaned, Settled
<1>5. ASSUME NEW h \in Handlers, Unreferenced(ch, h), SubscribeMore(ch, h), Kept(ch)' = h
      PROVE  OneSubscribeLast(ch)' /\ Orphaned(ch)'
  <2>1. h # orphan
    BY <1>2, <1>5 DEF Unreferenced
  <2>2. orphan \in LiveHandlers(ch)' \ {Kept(ch)'}
    BY <1>2, <1>5, <2>1, MoreWire
  <2>3. QED BY <1>1, <1>5, <2>2, MoreWire DEF Orphaned, Settled
<1>6. ASSUME NEW h \in Handlers, SubscribeFirst(ch, h)
      PROVE  FALSE
  BY <1>1, <1>6 DEF SubscribeFirst
<1>7. ASSUME NEW h \in Handlers, Kept(ch) = h, Dropped(ch, h), Kept(ch)' = NoEntry
      PROVE  OneSubscribeLast(ch)' /\ Orphaned(ch)'
  <2>1. orphan \in LiveHandlers(ch)' \ {Kept(ch)'}
    BY <1>1, <1>2, <1>3, <1>7, DroppedWire
  <2>2. channelHandlers'[ch] # NoSet
    BY <1>1, <1>2, <1>7, DroppedWire
  <2>3. QED BY <1>1, <1>7, <2>1, <2>2, DroppedWire DEF Orphaned, Settled
<1>8. ASSUME NEW h \in Handlers, AnswerSubscribe(ch, h)
      PROVE  FALSE
  <2>1. h \in Awaiting(ch)
    BY <1>8, AnsweredAlone DEF AnswerSubscribe
  <2>2. QED BY <1>1, <2>1 DEF Settled
<1>9. CASE AnswerUnsubscribe(ch) /\ Kept(ch)' = Kept(ch)
  BY <1>1, <1>2, <1>9, UnsubscribedWire DEF Orphaned, Settled, LiveHandlers
<1>10. QED BY <1>4, <1>5, <1>6, <1>7, <1>8, <1>9 DEF ChannelStep

\* Out of its phases a channel goes only by calls that overlap.
LEMMA OverlappingStep ==
  ASSUME TypeOK, NEW ch \in Channels, Phased(ch), Overlapping(ch)
  PROVE  OneSubscribeLast(ch)' /\ Overlapped(ch)'
<1>1. PICK h \in Handlers : /\ Unreferenced(ch, h) /\ SubscribeMore(ch, h) /\ Kept(ch)' = h
  BY DEF Overlapping
<1>2. PICK first \in Awaiting(ch) : TRUE
  BY DEF Overlapping, Settled
<1>3. first \in Handlers /\ channelHandlers[ch] = [set |-> first, handlers |-> {}]
  BY <1>2 DEF Awaiting, Phased, Joining
<1>4. Awaiting(ch) = {first}
  <2>1. ASSUME NEW g \in Awaiting(ch) PROVE g = first
    <3>1. channelHandlers[ch] = [set |-> g, handlers |-> {}]
      BY <2>1 DEF Phased, Joining
    <3>2. channelHandlers[ch].set = g /\ channelHandlers[ch].set = first
      BY <1>3, <3>1
    <3>3. QED BY <3>2
  <2>2. QED BY <1>2, <2>1
<1>5. first # h /\ LiveHandlers(ch) = {} /\ channelHandlers[ch].set = first
  BY <1>1, <1>2, <1>3 DEF Unreferenced, LiveHandlers
<1>6. QED BY <1>1, <1>3, <1>4, <1>5, MoreWire DEF Phased, Overlapped

LEMMA RacedStep ==
  ASSUME TypeOK, NEW ch \in Channels, ChannelStep(ch), ch \in Rooms => RoomStep(ch),
         PresenceStep, Raced(ch), happened' \subseteq {"overlap"}
  PROVE  Raced(ch)'
<1>1. CASE Phased(ch) /\ ChannelAudience(ch)
  <2>1. CASE Overlapping(ch)
    BY <1>1, <2>1, OverlappingStep DEF Raced
  <2>2. CASE ~ Overlapping(ch)
    <3>1. Phased(ch)'
      BY <1>1, <2>2, PhaseStep
    <3>2. ChannelAudience(ch)'
      <4>1. CASE ch = Presence
        BY <1>1, <4>1, PresenceAudienceStep DEF ChannelAudience
      <4>2. CASE ch # Presence
        BY <1>1, <2>2, <4>2, RoomAudienceStep DEF ChannelAudience, Rooms
      <4>3. QED BY <4>1, <4>2
    <3>3. QED BY <3>1, <3>2 DEF Raced, Phased
  <2>3. QED BY <2>1, <2>2
<1>2. CASE Overlapped(ch)
  BY <1>2, OverlappedStep DEF Raced
<1>3. CASE Orphaned(ch)
  BY <1>3, OrphanedStep DEF Raced
<1>4. QED BY <1>1, <1>2, <1>3 DEF Raced

\* Whatever the step, a channel gets at most one more handler, so that it has finitely
\* many and an event is written finitely often.
FinitelyHeard == \A ch \in Channels : IsFiniteSet(LiveHandlers(ch))

LEMMA OneMoreHandler ==
  ASSUME TypeOK, NEW ch \in Channels, ChannelStep(ch)
  PROVE  \E h : LiveHandlers(ch)' \subseteq LiveHandlers(ch) \cup {h}
<1>1. ASSUME channelHandlers'[ch] = channelHandlers[ch]
      PROVE  LiveHandlers(ch)' = LiveHandlers(ch)
  BY <1>1 DEF LiveHandlers
<1>2. ASSUME NEW h \in Handlers, SubscribeFirst(ch, h)
      PROVE  LiveHandlers(ch)' \subseteq LiveHandlers(ch) \cup {h}
  BY <1>2 DEF SubscribeFirst, LiveHandlers, TypeOK, BusTypeOK
<1>3. ASSUME NEW h \in Handlers, Dropped(ch, h)
      PROVE  LiveHandlers(ch)' \subseteq LiveHandlers(ch) \cup {h}
  <2>1. CASE channelHandlers'[ch] = NoSet
    BY <2>1 DEF LiveHandlers
  <2>2. CASE channelHandlers'[ch] # NoSet
    <3>1. /\ channelHandlers[ch] # NoSet /\ channelHandlers[ch] \in HandlerSet
          /\ channelHandlers'[ch] = [channelHandlers[ch] EXCEPT !.handlers = @ \ {h}]
      BY <1>3, <2>2 DEF Dropped, WithoutHandler, TypeOK, BusTypeOK
    <3>2. channelHandlers'[ch].handlers = channelHandlers[ch].handlers \ {h}
      BY <3>1 DEF HandlerSet
    <3>3. QED BY <2>2, <3>1, <3>2 DEF LiveHandlers
  <2>3. QED BY <2>1, <2>2
<1>4. ASSUME NEW h \in Handlers, AnswerSubscribe(ch, h)
      PROVE  LiveHandlers(ch)' \subseteq LiveHandlers(ch) \cup {h}
  <2>1. CASE channelHandlers[ch] # NoSet /\ channelHandlers[ch].set = h
    BY <1>4, <2>1, ConfirmedHandlers
  <2>2. CASE ~ (channelHandlers[ch] # NoSet /\ channelHandlers[ch].set = h)
    BY <1>1, <1>4, <2>2 DEF AnswerSubscribe
  <2>3. QED BY <2>1, <2>2
<1>5. QED
  BY <1>1, <1>2, <1>3, <1>4, MoreWire
  DEF ChannelStep, Untouched, RejectSubscribe, AnswerUnsubscribe

LEMMA FiniteHandlers == Spec => []FinitelyHeard
<1>1. Init => FinitelyHeard
  BY FS_EmptySet DEF Init, BusInit, FinitelyHeard, LiveHandlers
<1>2. TypeOK /\ SubsMirrorRooms /\ FinitelyHeard /\ [Next]_vars => FinitelyHeard'
  <2> SUFFICES ASSUME TypeOK, SubsMirrorRooms, FinitelyHeard, [Next]_vars,
                      NEW ch \in Channels
               PROVE  IsFiniteSet(LiveHandlers(ch)')
    BY DEF FinitelyHeard
  <2>1. PICK h : LiveHandlers(ch)' \subseteq LiveHandlers(ch) \cup {h}
    BY ChannelSteps, OneMoreHandler
  <2>2. IsFiniteSet(LiveHandlers(ch) \cup {h})
    BY FS_AddElement DEF FinitelyHeard
  <2>3. QED BY <2>1, <2>2, FS_Subset
<1>3. QED BY <1>1, <1>2, TypeCorrect, RoomsMirrored, PTL DEF Spec

\* An event of a channel with no command outstanding reaches every open subscriber, for
\* any number of sockets, rooms and interleavings, if calls overlap, or if sockets leave
\* and close while calls are in flight, as long as not both (connection-registry.ts,
\* 18-78): calls that overlap leave too many handlers, and never too few.
THEOREM EverybodyIsReached == Spec => []ReachedDespiteRaces
<1> DEFINE Races == happened \subseteq {"overlap"} => \A ch \in Channels : Raced(ch)
<1>1. Init => Races
  BY InitPhased, InitDelivery DEF Raced, Phased, DeliveryInv, AudienceInv, ChannelAudience, Rooms
<1>2. TypeOK /\ SubsMirrorRooms /\ Races /\ [Next]_vars => Races'
  <2> SUFFICES ASSUME TypeOK, SubsMirrorRooms, Races, [Next]_vars,
                      happened' \subseteq {"overlap"}, NEW ch \in Channels
               PROVE  Raced(ch)'
    OBVIOUS
  <2>1. Raced(ch)
    BY HappenedGrows
  <2>2. QED BY <2>1, ChannelSteps, RoomSteps, PresenceSteps, RacedStep
<1>3. TypeOK /\ BusInStep /\ FinitelyHeard /\ Races /\ (Calm => ChannelInv /\ AudienceInv)
        => ReachedDespiteRaces
  <2> SUFFICES ASSUME TypeOK, MapMatchesWire, FinitelyHeard, NEW ch \in Channels,
                      (Phased(ch) /\ ChannelAudience(ch)) \/ Raced(ch),
                      wire[ch] = <<>>, NEW c \in Audience(ch)
               PROVE  Copies(c, ch) >= 1
    BY DEF ReachedDespiteRaces, EverySubscriberReached, BusInStep, Calm, ChannelInv,
           AudienceInv, ChannelAudience, Rooms
  <2>1. CASE Phased(ch) /\ ChannelAudience(ch)
    BY <2>1, PhasedReaches
  <2>2. CASE Overlapped(ch)
    BY <2>2, NoCommand DEF Overlapped, Settled
  <2>3. CASE Orphaned(ch)
    <3>1. ch \in subscribed
      BY <2>3 DEF Orphaned, MapMatchesWire
    <3>2. LiveHandlers(ch) # {} /\ IsFiniteSet(LiveHandlers(ch))
      BY <2>3 DEF Orphaned, FinitelyHeard
    <3>3. Cardinality(LiveHandlers(ch)) \in Nat /\ Cardinality(LiveHandlers(ch)) # 0
      BY <3>2, FS_EmptySet, FS_CardinalityType
    <3>4. Copies(c, ch) = Cardinality(LiveHandlers(ch))
      BY <3>1 DEF Copies
    <3>5. QED BY <3>3, <3>4
  <2>4. QED BY <2>1, <2>2, <2>3 DEF Raced
<1> HIDE DEF Races
<1>4. QED
  BY <1>1, <1>2, <1>3, TypeCorrect, RoomsMirrored, BusConsistent, CalmDelivery, FiniteHandlers,
     PTL DEF Spec
-----------------------------------------------------------------------------
(* The registry implements the feed                                        *)

\* As long as the registry is calm, a room is heard by its local subscribers exactly
\* while a closure is kept for it.
HeardWhileKept == {x \in Conns \X Rooms : x[1] \in roomLocalSubs[x[2]] /\ Kept(x[2]) # NoEntry}

LEMMA HearingIsKept == DeliveryInv /\ MapMatchesWire => Hearing = HeardWhileKept
<1> SUFFICES ASSUME DeliveryInv, MapMatchesWire PROVE Hearing = HeardWhileKept
  OBVIOUS
<1> USE DEF DeliveryInv
<1>0. \A r \in Rooms : r \in Channels /\ r # Presence /\ Phased(r)
  BY DEF Rooms, ChannelInv
<1>1. ASSUME NEW r \in Rooms, NEW c \in roomLocalSubs[r], Kept(r) # NoEntry
      PROVE  Copies(c, r) >= 1
  <2>1. Settled(r) /\ LiveHandlers(r) = {Kept(r)} /\ channelHandlers[r] # NoSet
    BY <1>0, <1>1, PhasedHandlers
  <2>2. wire[r] = <<>>
    <3>1. \A i \in 1..Len(wire[r]) : wire[r][i] = UNSUBSCRIBE
      BY <1>0, <2>1, SettledWire DEF TypeOK
    <3>2. wire[r] \in Seq(Handlers \cup {UNSUBSCRIBE})
      BY <1>0 DEF TypeOK, BusTypeOK
    <3>3. wire[r] # <<>> => Len(wire[r]) \in 1..Len(wire[r])
      BY <3>2
    <3>4. QED BY <1>0, <2>1, <3>1, <3>3 DEF MapMatchesWire
  <2>3. r \in subscribed
    BY <1>0, <2>1, <2>2 DEF MapMatchesWire
  <2>4. Cardinality(LiveHandlers(r)) = 1
    BY <2>1, FS_Singleton
  <2>5. QED BY <1>0, <1>1, <2>3, <2>4 DEF Copies, Audience
<1>2. ASSUME NEW r \in Rooms, NEW c \in Conns, Copies(c, r) >= 1
      PROVE  c \in roomLocalSubs[r] /\ Kept(r) # NoEntry
  <2>1. c \in roomLocalSubs[r] /\ Cardinality(LiveHandlers(r)) >= 1
    BY <1>0, <1>2 DEF Copies, Audience
  <2>2. LiveHandlers(r) # {}
    BY <2>1, FS_EmptySet
  <2>3. QED BY <1>0, <2>1, <2>2, PhasedHandlers
<1>3. QED BY <1>1, <1>2 DEF Hearing, HeardWhileKept

\* What leaving the rooms rs does to the closure kept for a room.
LEMMA LeaveKept ==
  ASSUME TypeOK, NEW c \in Conns, NEW rs \in SUBSET Rooms, UnsubscribeRooms(c, rs),
         NEW r \in Rooms
  PROVE  IF r \in Gone(rs) THEN Kept(r) = roomBusUnsub[r].unsub /\ Kept(r) # NoEntry
                                /\ Kept(r)' = NoEntry
                           ELSE Kept(r)' = Kept(r)
<1>1. r # Presence
  BY DEF Rooms
<1>2. CASE r \in Gone(rs)
  <2>1. roomBusUnsub[r] # NoEntry /\ roomBusUnsub[r] \in Entry /\ roomBusUnsub'[r] = NoEntry
    BY <1>2 DEF Gone, UnsubscribeRooms, TypeOK
  <2>2. QED BY <1>1, <1>2, <2>1, RegistryAssumption DEF Kept, Entry
<1>3. CASE r \notin Gone(rs) /\ r \in rs /\ roomBusUnsub[r] # NoEntry
  <2>1. /\ roomBusUnsub[r] \in Entry /\ roomBusUnsub[r].refCount # 1
        /\ roomBusUnsub'[r] = [roomBusUnsub[r] EXCEPT !.refCount = @ - 1]
    BY <1>3 DEF Gone, UnsubscribeRooms, TypeOK
  <2>2. roomBusUnsub'[r].unsub = roomBusUnsub[r].unsub /\ roomBusUnsub'[r] \in Entry
    BY <2>1 DEF Entry
  <2>3. roomBusUnsub'[r] # NoEntry
    BY <2>2, RegistryAssumption DEF Entry
  <2>4. QED BY <1>1, <1>3, <2>2, <2>3 DEF Kept
<1>4. CASE r \notin Gone(rs) /\ ~ (r \in rs /\ roomBusUnsub[r] # NoEntry)
  BY <1>1, <1>4 DEF Kept, UnsubscribeRooms
<1>5. QED BY <1>2, <1>3, <1>4

\* Leaving the rooms rs, all of which the socket holds, silences nobody else.
LEMMA LeaveHeard ==
  ASSUME DeliveryInv, NEW c \in Conns, NEW rs \in SUBSET Rooms, UnsubscribeRooms(c, rs),
         rs \subseteq rooms[c], UNCHANGED lookups
  PROVE  /\ HeardWhileKept' = HeardWhileKept \ ({c} \X rs)
         /\ \E late \in SUBSET ({c} \X rs) :
              Asked' = (Asked \ ({c} \X rs)) \cup (Asked \cap late)
<1> USE DEF DeliveryInv
<1>1. /\ \A r \in rs : roomLocalSubs'[r] = roomLocalSubs[r] \ {c}
      /\ \A r \in Rooms \ rs : roomLocalSubs'[r] = roomLocalSubs[r]
  BY DEF UnsubscribeRooms, ForgetSocket
<1>2. \A r \in Rooms : IF r \in Gone(rs) THEN Kept(r)' = NoEntry ELSE Kept(r)' = Kept(r)
  BY LeaveKept
<1>3. ASSUME NEW r \in Gone(rs) PROVE r \in rs /\ roomLocalSubs[r] \ {c} = {}
  <2>1. r \in rs /\ roomBusUnsub[r] # NoEntry /\ roomBusUnsub[r].refCount = 1
    BY DEF Gone
  <2>2. c \in roomLocalSubs[r] /\ r \in Rooms
    BY <2>1 DEF SubsMirrorRooms
  <2>3. Cardinality(roomLocalSubs[r]) <= 1
    BY <2>1, <2>2 DEF AudienceInv, RoomAudience
  <2>4. QED BY <2>1, <2>2, <2>3, Subscribers
<1>4. ASSUME NEW x \in Conns, NEW r \in Rooms
      PROVE  x \in roomLocalSubs'[r] /\ Kept(r)' # NoEntry <=>
               x \in roomLocalSubs[r] /\ Kept(r) # NoEntry /\ ~ (x = c /\ r \in rs)
  <2>1. CASE r \in Gone(rs)
    BY <1>1, <1>2, <1>3, <2>1
  <2>2. CASE r \notin Gone(rs)
    BY <1>1, <1>2, <2>2
  <2>3. QED BY <2>1, <2>2
<1>5. HeardWhileKept' = HeardWhileKept \ ({c} \X rs)
  BY <1>4 DEF HeardWhileKept
<1>6. Asked' = (Asked \ ({c} \X rs)) \cup (Asked \cap (lookups \cap ({c} \X rs)))
  <2>1. \A x \in Conns, r \in Rooms :
          x \in roomLocalSubs'[r] <=> x \in roomLocalSubs[r] /\ ~ (x = c /\ r \in rs)
    BY <1>1
  <2>2. lookups \subseteq Conns \X Rooms
    BY DEF TypeOK
  <2>3. QED BY <2>1, <2>2 DEF Asked
<1>7. QED BY <1>5, <1>6

\* A calm step, as the feed sees it.
LEMMA CalmFeedStep ==
  ASSUME DeliveryInv, Calm', [Next]_vars
  PROVE  \/ Asked' = Asked /\ HeardWhileKept \subseteq HeardWhileKept'
         \/ \E c \in Conns, r \in Rooms :
              Asked' = Asked \cup {<<c, r>>} /\ HeardWhileKept' = HeardWhileKept
         \/ \E c \in Conns, rs \in SUBSET Rooms :
              /\ HeardWhileKept' = HeardWhileKept \ ({c} \X rs)
              /\ \E late \in SUBSET ({c} \X rs) :
                   Asked' = (Asked \ ({c} \X rs)) \cup (Asked \cap late)
<1> USE DEF DeliveryInv
<1>0. \A r \in Rooms : r \in Channels /\ r # Presence
  BY DEF Rooms
<1>1. ASSUME UNCHANGED <<roomLocalSubs, roomBusUnsub>>
      PROVE  HeardWhileKept' = HeardWhileKept
  <2>1. \A r \in Rooms : Kept(r)' = Kept(r)
    BY <1>0, <1>1 DEF Kept
  <2>2. QED BY <1>1, <2>1 DEF HeardWhileKept
<1>2. ASSUME UNCHANGED vars
      PROVE  Asked' = Asked /\ HeardWhileKept' = HeardWhileKept
  BY <1>1, <1>2 DEF vars, regVars, Asked
<1>3. ASSUME NEW c \in Conns, Open(c)
      PROVE  Asked' = Asked /\ HeardWhileKept' = HeardWhileKept
  BY <1>1, <1>3 DEF Open, Asked
<1>4. ASSUME NEW c \in Conns, NEW r \in Rooms, ChatSubscribe(c, r)
      PROVE  Asked' = Asked \cup {<<c, r>>} /\ HeardWhileKept' = HeardWhileKept
  BY <1>1, <1>4 DEF ChatSubscribe, Asked
<1>5. ASSUME NEW c \in Conns, NEW r \in Rooms, SubscribeRoom(c, r)
      PROVE  Asked' = Asked /\ HeardWhileKept \subseteq HeardWhileKept'
  <2>1. <<c, r>> \in lookups /\ lookups' = lookups \ {<<c, r>>}
    BY <1>5 DEF SubscribeRoom
  <2>2. CASE HoldsRoom(c, r)
    <3>1. UNCHANGED <<roomLocalSubs, roomBusUnsub>> /\ c \in roomLocalSubs[r]
      BY <1>5, <2>2 DEF SubscribeRoom, HoldsRoom, SubsMirrorRooms
    <3>2. Asked' = Asked
      BY <2>1, <3>1 DEF Asked
    <3>3. QED BY <1>1, <3>1, <3>2
  <2>3. CASE ~ HoldsRoom(c, r)
    <3>1. roomLocalSubs' = [roomLocalSubs EXCEPT ![r] = @ \cup {c}] /\ JoinBus(r)
      BY <1>5, <2>3 DEF SubscribeRoom
    <3>2. /\ roomLocalSubs'[r] = roomLocalSubs[r] \cup {c}
          /\ \A s \in Rooms \ {r} : roomLocalSubs'[s] = roomLocalSubs[s]
      BY <3>1 DEF TypeOK
    <3>3. Asked' = Asked
      BY <2>1, <3>2 DEF Asked
    <3>4. ASSUME NEW s \in Rooms, Kept(s) # NoEntry PROVE Kept(s)' # NoEntry
      <4>1. roomBusUnsub[s] # NoEntry /\ roomBusUnsub[s] \in Entry
        BY <1>0, <3>4 DEF Kept, TypeOK
      <4>2. CASE s # r
        <5>1. roomBusUnsub'[s] = roomBusUnsub[s]
          BY <3>1, <4>2 DEF JoinBus, TypeOK
        <5>2. QED BY <1>0, <3>4, <5>1 DEF Kept
      <4>3. CASE s = r
        <5>1. roomBusUnsub' = [roomBusUnsub EXCEPT ![r].refCount = @ + 1]
          BY <3>1, <4>1, <4>3 DEF JoinBus
        <5>2. roomBusUnsub'[s] \in Entry
          BY <4>1, <4>3, <5>1 DEF Entry, TypeOK
        <5>3. QED BY <1>0, <5>2, RegistryAssumption DEF Kept, Entry
      <4>4. QED BY <4>2, <4>3
    <3>5. \A s \in Rooms : roomLocalSubs[s] \subseteq roomLocalSubs'[s]
      BY <3>2
    <3>6. HeardWhileKept \subseteq HeardWhileKept'
      BY <3>4, <3>5 DEF HeardWhileKept
    <3>7. QED BY <3>3, <3>6
  <2>4. QED BY <2>2, <2>3
<1>6. ASSUME NEW c \in Conns, NEW r \in Rooms, ChatUnsubscribe(c, r)
      PROVE  /\ HeardWhileKept' = HeardWhileKept \ ({c} \X {r})
             /\ \E late \in SUBSET ({c} \X {r}) :
                  Asked' = (Asked \ ({c} \X {r})) \cup (Asked \cap late)
  <2>1. UnsubscribeRooms(c, {r}) /\ {r} \subseteq rooms[c] /\ UNCHANGED lookups
    BY <1>6 DEF ChatUnsubscribe, Note, Calm
  <2>2. QED BY <2>1, LeaveHeard
<1>7. ASSUME NEW c \in Conns, Close(c)
      PROVE  /\ HeardWhileKept' = HeardWhileKept \ ({c} \X rooms[c])
             /\ \E late \in SUBSET ({c} \X rooms[c]) :
                  Asked' = (Asked \ ({c} \X rooms[c])) \cup (Asked \cap late)
             /\ rooms[c] \in SUBSET Rooms
  <2>1. UnsubscribeRooms(c, rooms[c]) /\ UNCHANGED lookups /\ rooms[c] \in SUBSET Rooms
    BY <1>7 DEF Close, TypeOK
  <2>2. QED BY <2>1, LeaveHeard
<1>8. ASSUME NEW ch \in Channels, NEW h \in Handlers, SubscribeConfirmed(ch, h)
      PROVE  Asked' = Asked /\ HeardWhileKept \subseteq HeardWhileKept'
  <2>1. UNCHANGED <<lookups, roomLocalSubs>>
    BY <1>8 DEF SubscribeConfirmed
  <2>2. ASSUME NEW s \in Rooms, Kept(s) # NoEntry PROVE Kept(s)' # NoEntry
    <3>1. CASE s # ch
      <4>1. roomBusUnsub'[s] = roomBusUnsub[s]
        BY <1>8, <3>1 DEF SubscribeConfirmed, TypeOK
      <4>2. QED BY <1>0, <2>2, <4>1 DEF Kept
    <3>2. CASE s = ch
      <4>1. roomBusUnsub'[s] = [unsub |-> h, refCount |-> 1]
        BY <1>0, <1>8, <3>2 DEF SubscribeConfirmed, TypeOK
      <4>2. roomBusUnsub'[s] \in [unsub : Handlers, refCount : Nat \ {0}]
        BY <4>1
      <4>3. QED BY <1>0, <4>1, <4>2, RegistryAssumption DEF Kept
    <3>3. QED BY <3>1, <3>2
  <2>3. QED BY <2>1, <2>2 DEF HeardWhileKept, Asked
<1>9. ASSUME NEW ch \in Channels, UnsubscribeConfirmed(ch)
      PROVE  Asked' = Asked /\ HeardWhileKept' = HeardWhileKept
  BY <1>1, <1>9 DEF UnsubscribeConfirmed, regVars, Asked
<1>10. ASSUME NEW ch \in Channels, NEW h \in Handlers PROVE ~ SubscribeRejected(ch, h)
  BY DEF SubscribeRejected, Note, Calm
<1> DEFINE Grew  == Asked' = Asked /\ HeardWhileKept \subseteq HeardWhileKept'
           Added(c, r) == Asked' = Asked \cup {<<c, r>>} /\ HeardWhileKept' = HeardWhileKept
           Left(c, rs) == /\ HeardWhileKept' = HeardWhileKept \ ({c} \X rs)
                          /\ \E late \in SUBSET ({c} \X rs) :
                               Asked' = (Asked \ ({c} \X rs)) \cup (Asked \cap late)
<1>11. \A c \in Conns, r \in Rooms : ChatUnsubscribe(c, r) => {r} \in SUBSET Rooms /\ Left(c, {r})
  BY <1>6
<1>12. \A c \in Conns : Close(c) => rooms[c] \in SUBSET Rooms /\ Left(c, rooms[c])
  BY <1>7
<1>13. /\ UNCHANGED vars => Grew
       /\ \A c \in Conns : Open(c) => Grew
       /\ \A c \in Conns, r \in Rooms : SubscribeRoom(c, r) => Grew
       /\ \A ch \in Channels, h \in Handlers : SubscribeConfirmed(ch, h) => Grew
       /\ \A ch \in Channels : UnsubscribeConfirmed(ch) => Grew
  BY <1>2, <1>3, <1>5, <1>8, <1>9
<1>14. \A c \in Conns, r \in Rooms : ChatSubscribe(c, r) => Added(c, r)
  BY <1>4
<1>15. Grew \/ (\E c \in Conns, r \in Rooms : Added(c, r))
            \/ (\E c \in Conns, rs \in SUBSET Rooms : Left(c, rs))
  <2> HIDE DEF Grew, Added, Left
  <2>1. QED BY <1>10, <1>11, <1>12, <1>13, <1>14 DEF Next
<1>16. QED BY <1>15

\* The registry is the feed that RoomFeed describes, for any number of sockets, rooms
\* and interleavings: as long as only departures disturb it, an event reaches who has
\* asked and been reached before until it leaves, and it never reaches anybody who has
\* not asked (connection-registry.ts, 45-78).
THEOREM RegistryIsFeed == Spec => ImplementsFeed
<1> DEFINE Inv == TypeOK /\ SubsMirrorRooms /\ BusInStep /\ (Calm => ChannelInv /\ AudienceInv)
<1>1. Spec => []Inv
  BY TypeCorrect, RoomsMirrored, BusConsistent, CalmDelivery, PTL
<1>2. Inv /\ Calm => Hearing = HeardWhileKept
  BY HearingIsKept DEF DeliveryInv, BusInStep, Calm
<1>3. TypeOK => Asked \in SUBSET (Conns \X Rooms) /\ Hearing \in SUBSET Asked
  <2> SUFFICES ASSUME TypeOK
               PROVE  Asked \in SUBSET (Conns \X Rooms) /\ Hearing \in SUBSET Asked
    OBVIOUS
  <2>1. Asked \in SUBSET (Conns \X Rooms)
    BY DEF TypeOK, Asked
  <2>2. ASSUME NEW c \in Conns, NEW r \in Rooms, Copies(c, r) >= 1
        PROVE  c \in roomLocalSubs[r]
    BY <2>2 DEF Copies, Audience, Rooms
  <2>3. QED BY <2>1, <2>2 DEF Hearing, Asked
<1>4. Init => Feed!Init
  <2> SUFFICES ASSUME Init PROVE Feed!Init
    OBVIOUS
  <2>1. Asked = {} /\ Hearing = {}
    BY InitType, <1>3 DEF Init, Asked
  <2>2. QED BY <2>1 DEF Init, Feed!Init
<1>5. /\ Inv /\ Inv' /\ [Next]_vars
      /\ (Calm => Hearing = HeardWhileKept) /\ (Calm => Hearing = HeardWhileKept)'
      /\ (Asked \in SUBSET (Conns \X Rooms) /\ Hearing \in SUBSET Asked)'
      => [Feed!Next]_(Feed!vars)
  <2> SUFFICES ASSUME Inv, Inv', [Next]_vars,
                      Calm => Hearing = HeardWhileKept, Calm' => Hearing' = HeardWhileKept',
                      Asked' \in SUBSET (Conns \X Rooms), Hearing' \in SUBSET Asked'
               PROVE  [Feed!Next]_(Feed!vars)
    OBVIOUS
  <2>1. CASE ~ Calm'
    BY <2>1 DEF Feed!Next, Feed!Fail, Calm
  <2>2. CASE Calm'
    <3>1. Calm
      BY <2>2, HappenedGrows DEF Calm
    <3>2. /\ (happened \subseteq {"leave"})' = (happened \subseteq {"leave"})
          /\ Hearing = HeardWhileKept /\ Hearing' = HeardWhileKept'
      BY <2>2, <3>1 DEF Calm
    <3>3. CASE Asked' = Asked /\ HeardWhileKept \subseteq HeardWhileKept'
      <4>1. Hearing' = Hearing \cup Hearing' /\ Hearing' \in SUBSET Asked
        BY <3>2, <3>3
      <4>2. QED BY <3>2, <3>3, <4>1 DEF Feed!Next, Feed!Reach
    <3>4. ASSUME NEW c \in Conns, NEW r \in Rooms,
                 Asked' = Asked \cup {<<c, r>>}, HeardWhileKept' = HeardWhileKept
          PROVE  Feed!Next
      BY <3>2, <3>4 DEF Feed!Next, Feed!Ask
    <3>5. ASSUME NEW c \in Conns, NEW rs \in SUBSET Rooms,
                 HeardWhileKept' = HeardWhileKept \ ({c} \X rs),
                 \E late \in SUBSET ({c} \X rs) :
                   Asked' = (Asked \ ({c} \X rs)) \cup (Asked \cap late)
          PROVE  Feed!Next
      BY <3>2, <3>5 DEF Feed!Next, Feed!Leave
    <3>6. QED BY <2>2, <3>1, <3>3, <3>4, <3>5, CalmFeedStep DEF DeliveryInv
  <2>3. QED BY <2>1, <2>2
<1>6. Inv => TypeOK
  OBVIOUS
<1> HIDE DEF Inv
<1>7. QED BY <1>1, <1>2, <1>3, <1>4, <1>5, <1>6, PTL DEF Spec, ImplementsFeed, Feed!Spec
=============================================================================
