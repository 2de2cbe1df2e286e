-------------------------- MODULE RedisMessageBus --------------------------
(***************************************************************************)
(* The subscriber side of RedisMessageBus                                  *)
(* (src/infrastructure/redis/redis-message-bus.ts) on one instance: the    *)
(* in-memory map from a channel to the Set of its handlers, and the Redis  *)
(* connection that carries SUBSCRIBE and UNSUBSCRIBE.                      *)
(*                                                                         *)
(* The module holds the bus's state and what one call does to it; the      *)
(* component that calls the bus (ConnectionRegistry) builds its actions    *)
(* from these operators.  JavaScript runs a call without interruption up   *)
(* to its first await on I/O, so a call is one step and its continuation,  *)
(* when the reply arrives, another.                                        *)
(***************************************************************************)
EXTENDS Sequences, Naturals

CONSTANTS
  Channels,      \* the channels of the instance
  Handlers,      \* identities of handler closures, one per bus.subscribe call
  NoSet,         \* the map has no key for the channel
  UNSUBSCRIBE    \* the command that leaves a channel

ASSUME BusAssumption == /\ NoSet \notin [set : Handlers, handlers : SUBSET Handlers]
                        /\ UNSUBSCRIBE \notin Handlers

VARIABLES
  \* this.channelHandlers: channel -> Set.  A subscribe call keeps a reference
  \* to the Set it found or made, so a Set needs an identity: it is named after
  \* the handler whose call made it.
  channelHandlers,
  \* The commands sent for a channel and not yet answered, oldest first: the
  \* handler whose subscribe call awaits the answer, or UNSUBSCRIBE.
  wire,
  \* The channels Redis has this connection subscribed to.
  subscribed

busVars == <<channelHandlers, wire, subscribed>>

HandlerSet == [set : Handlers, handlers : SUBSET Handlers]

BusTypeOK ==
  /\ channelHandlers \in [Channels -> HandlerSet \cup {NoSet}]
  /\ wire \in [Channels -> Seq(Handlers \cup {UNSUBSCRIBE})]
  /\ subscribed \in SUBSET Channels

BusInit ==
  /\ channelHandlers = [ch \in Channels |-> NoSet]
  /\ wire = [ch \in Channels |-> <<>>]
  /\ subscribed = {}

-----------------------------------------------------------------------------
\* The handlers an event arriving now on ch is given to.
LiveHandlers(ch) ==
  IF channelHandlers[ch] = NoSet THEN {} ELSE channelHandlers[ch].handlers

\* The subscribe calls on ch that await Redis.
Awaiting(ch) == {h \in Handlers : \E i \in 1..Len(wire[ch]) : wire[ch][i] = h}

\* A closure nothing refers to on ch: a new subscribe call may take its name.
Unreferenced(ch, h) ==
  /\ h \notin Awaiting(ch)
  /\ h \notin LiveHandlers(ch)
  /\ channelHandlers[ch] # NoSet => channelHandlers[ch].set # h

\* subscribe on a channel the map has no key for: the key appears, with an
\* empty Set, before the SUBSCRIBE is even sent.
SubscribeFirst(ch, h) ==
  /\ channelHandlers[ch] = NoSet
  /\ channelHandlers' = [channelHandlers EXCEPT ![ch] = [set |-> h, handlers |-> {}]]
  /\ wire' = [wire EXCEPT ![ch] = Append(@, h)]
  /\ UNCHANGED subscribed

\* subscribe on a channel with a key: the handler joins the Set at once and the
\* call returns without asking Redis.
SubscribeMore(ch, h) ==
  /\ channelHandlers[ch] # NoSet
  /\ channelHandlers' = [channelHandlers EXCEPT ![ch].handlers = @ \cup {h}]
  /\ UNCHANGED <<wire, subscribed>>

\* What calling the closure that removes h leaves under the key ch.
WithoutHandler(ch, h) ==
  IF channelHandlers[ch] = NoSet \/ LiveHandlers(ch) \subseteq {h}
  THEN NoSet
  ELSE [channelHandlers[ch] EXCEPT !.handlers = @ \ {h}]

\* Variant of Unsubscribe that never tells Redis.
UnsubscribeSilently(calls) ==
  /\ channelHandlers' = [ch \in Channels |->
       IF ch \in DOMAIN calls THEN WithoutHandler(ch, calls[ch])
                              ELSE channelHandlers[ch]]
  /\ UNCHANGED <<wire, subscribed>>

\* Calling unsubscribe closures: calls is a function from a set of channels to
\* the handler each closure removes.  A key whose Set becomes empty is deleted
\* and UNSUBSCRIBE is sent, both before the closure first awaits.
Unsubscribe(calls) ==
  LET left(ch) == IF ch \in DOMAIN calls THEN WithoutHandler(ch, calls[ch])
                                         ELSE channelHandlers[ch]
  IN /\ channelHandlers' = [ch \in Channels |-> left(ch)]
     /\ wire' = [ch \in Channels |->
                   IF channelHandlers[ch] # NoSet /\ left(ch) = NoSet
                   THEN Append(wire[ch], UNSUBSCRIBE) ELSE wire[ch]]
     /\ UNCHANGED subscribed

-----------------------------------------------------------------------------
\* Redis answers the oldest command for ch (external).  Redis answers in order,
\* and an event published between two commands arrives between their answers,
\* so executing a command and receiving its answer is one step.
Answered(ch) ==
  /\ wire[ch] # <<>>
  /\ wire' = [wire EXCEPT ![ch] = Tail(@)]

AnswerUnsubscribe(ch) ==
  /\ Answered(ch)
  /\ Head(wire[ch]) = UNSUBSCRIBE
  /\ subscribed' = subscribed \ {ch}
  /\ UNCHANGED channelHandlers

\* Variant of AnswerSubscribe that does not add the handler.
AnswerSubscribeUnheard(ch, h) ==
  /\ Answered(ch)
  /\ Head(wire[ch]) = h
  /\ subscribed' = subscribed \cup {ch}
  /\ UNCHANGED channelHandlers

\* The answer to the SUBSCRIBE of h resumes the call, which adds its handler to
\* the Set it captured.  That Set may no longer be the one in the map: then the
\* handler is added to a Set that no event will ever reach.
AnswerSubscribe(ch, h) ==
  /\ Answered(ch)
  /\ Head(wire[ch]) = h
  /\ subscribed' = subscribed \cup {ch}
  /\ channelHandlers' =
       IF channelHandlers[ch] # NoSet /\ channelHandlers[ch].set = h
       THEN [channelHandlers EXCEPT ![ch].handlers = @ \cup {h}]
       ELSE channelHandlers

\* The SUBSCRIBE of h is rejected: the call throws, the key it made stays.
RejectSubscribe(ch, h) ==
  /\ Answered(ch)
  /\ Head(wire[ch]) = h
  /\ UNCHANGED <<channelHandlers, subscribed>>

-----------------------------------------------------------------------------
(* What the bus owes its caller as long as no SUBSCRIBE is rejected.       *)

\* The map and the wire agree: a channel has a key exactly when the last
\* command sent for it was SUBSCRIBE or, with no command outstanding, when
\* Redis has it subscribed.  Otherwise a channel would stay subscribed with
\* nobody to tell, or the map would promise events Redis does not send
\* (lines 21-32 and 35-42 keep the two in step across their awaits).
MapMatchesWire ==
  \A ch \in Channels :
    (channelHandlers[ch] # NoSet) <=>
      IF wire[ch] = <<>> THEN ch \in subscribed
                         ELSE wire[ch][Len(wire[ch])] # UNSUBSCRIBE

\* A key with an empty Set is never forgotten: the call that made the Set is
\* still waiting for Redis and will fill it.  An abandoned empty Set would make
\* every later subscribe skip its SUBSCRIBE (isNew, line 19).
EmptySetIsAwaited ==
  \A ch \in Channels :
    channelHandlers[ch] # NoSet /\ LiveHandlers(ch) = {}
      => channelHandlers[ch].set \in Awaiting(ch)
=============================================================================
