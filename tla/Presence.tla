------------------------------ MODULE Presence ------------------------------
(***************************************************************************)
(* The presence of one user: mark-user-online.ts, mark-user-offline.ts and *)
(* heartbeat.ts over the Redis hash presence:<userId>                      *)
(* (redis-presence-store.ts), driven by the open, close and heartbeat      *)
(* callbacks of the user's sockets (gateway.ts).                           *)
(*                                                                         *)
(* An instance sends all of this over one Redis connection, redisPublisher,*)
(* which carries commands in the order sent; Redis runs the commands of    *)
(* different instances in any order.  A command and the code that runs on  *)
(* its reply are one step: the next command of a use case is sent when the *)
(* previous one is answered.                                               *)
(***************************************************************************)
EXTENDS Naturals, Sequences

CONSTANTS
  Conns,      \* connIds of the user's sockets
  Instances,  \* server instances
  None        \* a connId that is not in use

ASSUME PresenceAssumption == None \notin Instances

VARIABLES
  home,      \* the instance each open socket is connected to
  wire,      \* the commands of each instance on their way to Redis
  fields,    \* the hash: the connIds it holds
  ttl,       \* whether the key has a time to live
  announced, \* the last event published: is the user online
  happened   \* what the specification notes, see below

vars == <<home, wire, fields, ttl, announced, happened>>

\* "silence": the key expired although a socket was open or a command under way
\* "crash":   an instance crashed
\* "move":    a socket opened or closed while commands of another instance were
\*            under way
\* The code excludes none of them; a property says which ones it tolerates.
Disturbances == {"silence", "crash", "move"}

Commands == {"online.hset", "online.expire", "online.publish", "beat.hset", "beat.expire",
             "offline.hdel", "offline.hlen", "offline.publish"}

TypeOK ==
  /\ home \in [Conns -> Instances \cup {None}]
  /\ wire \in [Instances -> Seq([op : Commands, conn : Conns])]
  /\ fields \in SUBSET Conns
  /\ ttl \in BOOLEAN
  /\ announced \in BOOLEAN
  /\ happened \in SUBSET Disturbances

Init ==
  /\ home = [c \in Conns |-> None]
  /\ wire = [i \in Instances |-> <<>>]
  /\ fields = {}
  /\ ttl = FALSE
  /\ announced = FALSE
  /\ happened = {}

-----------------------------------------------------------------------------
Open == {c \in Conns : home[c] # None}
Underway(c) == \E i \in Instances : \E n \in DOMAIN wire[i] : wire[i][n].conn = c
Quiet == \A i \in Instances : wire[i] = <<>>

Note(condition, disturbance) ==
  happened' = IF condition THEN happened \cup {disturbance} ELSE happened
Elsewhere(i) == \E j \in Instances \ {i} : wire[j] # <<>>

Command(op, c) == [op |-> op, conn |-> c]
SendCommand(i, op, c) == wire' = [wire EXCEPT ![i] = Append(@, Command(op, c))]

\* Redis runs the oldest command of i, an op of c, and its reply sends next.
Run(i, op, c, next) ==
  /\ wire[i] # <<>>
  /\ Head(wire[i]) = Command(op, c)
  /\ wire' = [wire EXCEPT ![i] = Tail(@) \o next]

\* A hash without fields is no key, and has no time to live.
SetFields(fs) == fields' = fs /\ ttl' = (ttl /\ fs # {})

-----------------------------------------------------------------------------
(* The callbacks of the gateway                                            *)

\* open: a socket has a connId of its own.
Connect(c) ==
  /\ home[c] = None /\ c \notin fields /\ ~ Underway(c)
  /\ \E i \in Instances :
       /\ home' = [home EXCEPT ![c] = i]
       /\ SendCommand(i, "online.hset", c)
       /\ Note(Elsewhere(i), "move")
  /\ UNCHANGED <<fields, ttl, announced>>

\* close.
Disconnect(c) ==
  /\ home[c] # None
  /\ home' = [home EXCEPT ![c] = None]
  /\ SendCommand(home[c], "offline.hdel", c)
  /\ Note(Elsewhere(home[c]), "move")
  /\ UNCHANGED <<fields, ttl, announced>>

\* A presence.heartbeat message, for the connId of its socket.  Bound: one at a time.
SendBeat(c) ==
  /\ home[c] # None
  /\ \A i \in Instances : \A n \in DOMAIN wire[i] :
       wire[i][n].op \notin {"beat.hset", "beat.expire"}
  /\ SendCommand(home[c], "beat.hset", c)
  /\ UNCHANGED <<home, fields, ttl, announced, happened>>

-----------------------------------------------------------------------------
(* RedisPresenceStore.markOnline and heartbeat, MarkUserOnline             *)

HSet(i, c) ==
  /\ \/ Run(i, "online.hset", c, <<Command("online.expire", c)>>)
     \/ Run(i, "beat.hset", c, <<Command("beat.expire", c)>>)
  /\ SetFields(fields \cup {c})
  /\ UNCHANGED <<home, announced, happened>>

\* EXPIRE of a key that is gone does nothing.
Expire(i, c) ==
  /\ \/ Run(i, "online.expire", c, <<Command("online.publish", c)>>)
     \/ Run(i, "beat.expire", c, <<>>)
  /\ ttl' = (fields # {})
  /\ UNCHANGED <<home, fields, announced, happened>>

PublishOnline(i, c) ==
  /\ Run(i, "online.publish", c, <<>>)
  /\ announced' = TRUE
  /\ UNCHANGED <<home, fields, ttl, happened>>

(* RedisPresenceStore.markOffline and isOnline, MarkUserOffline            *)

\* What HDEL leaves.  Variants: the whole key is deleted; nothing is.
WithoutAll(c) == {}
WithoutNone(c) == fields
Without(c) == fields \ {c}

\* Only who removed a field goes on.
HDel(i, c) ==
  /\ Run(i, "offline.hdel", c,
         IF c \in fields THEN <<Command("offline.hlen", c)>> ELSE <<>>)
  /\ SetFields(Without(c))
  /\ UNCHANGED <<home, announced, happened>>

\* Whether to announce the end.  Variants: always; never.
AnnouncesAlways == TRUE
AnnouncesNever == FALSE
Announces == fields = {}

HLen(i, c) ==
  /\ Run(i, "offline.hlen", c,
         IF Announces THEN <<Command("offline.publish", c)>> ELSE <<>>)
  /\ UNCHANGED <<home, fields, ttl, announced, happened>>

PublishOffline(i, c) ==
  /\ Run(i, "offline.publish", c, <<>>)
  /\ announced' = FALSE
  /\ UNCHANGED <<home, fields, ttl, happened>>

(* Redis and the instances                                                 *)

\* The key expires.  Clients that send their heartbeats in time prevent it as long
\* as one of them is connected, if no command takes as long as the TTL.
Lapse ==
  /\ ttl
  /\ Note(Open # {} \/ ~ Quiet, "silence")
  /\ fields' = {} /\ ttl' = FALSE
  /\ UNCHANGED <<home, wire, announced>>

\* No close callback runs, and commands that have not been sent are lost.
CrashInstance(i) ==
  /\ Note(TRUE, "crash")
  /\ wire' = [wire EXCEPT ![i] = <<>>]
  /\ home' = [c \in Conns |-> IF home[c] = i THEN None ELSE home[c]]
  /\ wire[i] # <<>> \/ home' # home
  /\ UNCHANGED <<fields, ttl, announced>>

Redis(i) == \E c \in Conns :
  HSet(i, c) \/ Expire(i, c) \/ PublishOnline(i, c)
  \/ HDel(i, c) \/ HLen(i, c) \/ PublishOffline(i, c)

Next ==
  \/ \E c \in Conns : Connect(c) \/ Disconnect(c) \/ SendBeat(c)
  \/ \E i \in Instances : Redis(i) \/ CrashInstance(i)
  \/ Lapse

Spec == Init /\ [][Next]_vars

\* Redis answers every command.
FairSpec == Spec /\ \A i \in Instances : WF_vars(Redis(i))

-----------------------------------------------------------------------------
\* Between commands, a socket that is open is in the hash, whatever becomes of other
\* instances and sockets: no close or crash takes the fields of others along.  It
\* takes heartbeats in time.
OpenSocketsAreOnline == "silence" \notin happened /\ Quiet => Open \subseteq fields

\* Between commands, a socket that was closed is not in the hash: no heartbeat or
\* markOnline that comes late revives it (gateway.ts, 56-71), even if the key expired
\* in between.  It takes instances that do not crash.
NoGhosts == "crash" \notin happened /\ Quiet => fields \subseteq Open

\* Between commands, the last event tells whether the user is online: "presence.online:
\* Usuario conectado", "presence.offline: Usuario desconectado" (README.md).  Each of
\* the disturbances breaks it: a key that expires is not announced, nor is a crash,
\* and the events of two instances may come in either order.
AnnouncedIsTrue == happened = {} /\ Quiet => announced = (Open # {})

\* The end of a user's last socket is announced (mark-user-offline.ts, 12-22).
LastCloseIsAnnounced ==
  (Open = {} /\ announced) ~> (~ announced \/ Open # {} \/ happened # {})
=============================================================================
