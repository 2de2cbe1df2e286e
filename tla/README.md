# A verification of the chat backend

This directory holds TLA+ models of `backend_messages_chat`, the chat backend in
`src/`: a REST and WebSocket server in TypeScript on Bun, of which several
instances share one Postgres and one Redis. The models are checked with TLC on
small instances, and the theorems about them with TLAPS. Paths below are
relative to the repository; line numbers are in `PROJECT.json`, which maps every
definition to the lines it stands for.

## 1. The system

| Component | State | Operations | What is hard |
|---|---|---|---|
| Redis message bus, `infrastructure/redis/redis-message-bus.ts` | per instance: map channel → Set of handlers; subscriptions in Redis | `subscribe`, the closure it returns, `publish` | the Set is made before an await and filled after it; commands of one channel are under way together; SUBSCRIBE may be rejected |
| Connection registry and gateway, `infrastructure/ws/` | per instance: sockets by user, sockets by room, bus subscription and reference count by room, presence subscription; per socket: its rooms | open, close, `chat.subscribe`, `chat.unsubscribe`, fan-out | callbacks interleave with the continuations of awaits; reference counts |
| Sessions, `use-cases/auth`, `pg-refresh-token-repository.ts` | table `refresh_tokens`: families of tokens linked by `parent_id` and `replaced_by_id` | login, refresh with rotation, replay detection and grace window, logout, password reset | several statements without a transaction; concurrent requests; lost answers |
| Accounts, `use-cases/auth`, `pg-email-token-repository.ts` | tables `users`, `email_tokens` | register, verify e-mail, reset password | check then insert; a token used up before its effect |
| WebSocket tickets, `redis-ws-ticket-store.ts` | one Redis key per ticket | issue, consume at the upgrade | GET and DEL are two commands |
| Rooms, `use-cases/rooms`, `room-authorizer.ts` | tables `rooms`, `room_members` | create direct room or group, add and remove members, delete | room and members in separate statements; roles checked before the change |
| Messages, `use-cases/messages` | tables `messages`, `rooms.last_message_at`, `room_members.last_read_message_id`; events published | send (idempotent by `clientMessageId`), edit, delete, mark as read, list | order of statements and events; checks that are stale when used; retries |
| Presence, `use-cases/presence`, `redis-presence-store.ts` | a Redis hash per user: connId → time, with a TTL; events published | online, heartbeat, offline | several instances; expiry; crashes; last socket |
| Rate limiter, `redis-rate-limiter.ts` | a Redis sorted set per subject | `consume` | four commands that interleave; window borders |
| Migrator, `db/migrator.ts` | table `_migrations` and the schema | `migrate` | several processes and releases at once |
| HTTP layer, event router, attachments, profiles, listings of rooms and users, configuration, cryptography | none of their own | | not modelled, or in part; see section 7 |

The components interact in three ways. *Calls*: the event router and the HTTP
controllers call the use cases, the use cases the repositories. *Messages*: the
use cases publish on `room:<id>` and `presence:global`; the bus of every instance
hands an event to the registry, which writes it to its sockets. *Callbacks*:
opening and closing a socket calls the registry and, without waiting for it, the
presence use cases.

What makes each component correct, in a sentence: the registry writes every
event to every subscribed socket once; a refresh token is exchanged once and a
replayed one ends its family; mailed tokens and tickets are used once; a direct
room is for its two users, and roles decide who changes a group; who follows a
room ends up with what the tables say; presence tells who is connected; the
limiter admits no more than its limit and refuses only for cause; the database
has executed each migration once, in order.

`PROJECT.json` lists under `hazards` each place where this may go wrong, with the
properties that would notice.

## 2. The modules

| Module | Models | Steps |
|---|---|---|
| `RedisMessageBus` | the bus of one instance: its state and what each call does to it, as operators | |
| `ConnectionRegistry` (extends it; implements `RoomFeed`) | registry, gateway and subscription handlers of one instance | what runs between two awaits on I/O |
| `RoomFeed` | *abstract*: an ideal feed of rooms: ask, be reached, leave; it may fail, and then promises only that nobody hears what it has not asked for | |
| `RefreshTokens` | the sessions of one user | one SQL statement with the code that runs on its result |
| `OneTimeToken` | *abstract*: a token issued once, accepted once | |
| `Accounts` | accounts and mailed tokens; implements `OneTimeToken` | one SQL statement |
| `WsTickets` | tickets and upgrades | one Redis command |
| `Rooms` | rooms and members | one SQL statement |
| `RoomListeners` (extends `Rooms`, uses `RoomFeed`) | who hears a room while its members come and go | a step of `Rooms`, or of the feed |
| `Messages` | messages, read pointers and the events of rooms, and a client that subscribes to one and pages back through it | one SQL statement or PUBLISH; a page |
| `Presence` | the hash of one user, over several instances | one Redis command |
| `RateLimiter` | one key of the limiter | one Redis command, or a tick of the clock |
| `Migrator` | several runs of `migrate` on one database | a statement; a transaction ends in one step |
| `ConnectionRegistryProofs` | theorems and proofs about the first two | |
| `AccountsProofs`, `RefreshTokensProofs`, `RoomsProofs`, `MessagesProofs`, `PresenceProofs`, `RateLimiterProofs`, `MigratorProofs` | theorems and proofs about the module of that name; `RoomsProofs` also about `RoomListeners` | |
| `MC…` | symmetry sets for TLC; the `.cfg` files of the same name give the constants | |

State corresponds to code by name: `channelHandlers`, `roomLocalSubs`,
`roomBusUnsub`, `presenceUnsub` and `rooms` of a socket are the fields of the
classes; `table`, `users`, `tokens`, `members`, `messages` are the tables, with
the columns decisions depend on; `request[p]` is where the use case of a request
stands and the local variables it carries across its awaits. A JavaScript `Set`
that a call keeps across an await has an identity of its own in the model: this
is what `AnswerSubscribe` turns on. Actions correspond to code by name too: the
actions of a use case are joined under its name (`Refresh`, `CreateDirectRoom`,
`Send` …) in the order of its statements.

*Ghost variables*, which no action reads to decide anything, are marked in each
module: what clients have been given (`known`), which password a session goes
back to (`cred`, `swept`, `stragglers`), which families a replay ended (`burned`),
what was accepted and when (`accepted`, `admitted`, `answered`), and who heard a
room when its membership ended (`departed`). The others note
*disturbances*: `happened` (registry, presence), `raced` and `erased` (tokens),
`unsettled`, `raced` and `jumbled` (messages), `short` (rooms), `wasted`
(accounts), `vanished` (limiter). The code has races that it does not exclude and
that break a promise; no action of the models is switched off for them. Instead
they happen in the same run as everything else and are noted, and a property says
after which of them it still holds. So each property states both a promise and
exactly what the code needs to keep it.

*Variants*, `GoneAtOne` before `Gone`, `RefreshMarkUnlinked` before
`RefreshMark`, are the same definition with a plausible mistake. With a variant
in place of its definition TLC finds the property listed with it in
`PROJECT.json` violated, which shows that the property depends on that line.

`Messages` alone has a constant, `Operations`, that splits what happens into
instances of a size TLC can exhaust; the theorems hold for every value of it.

The modules compose in two ways. `ConnectionRegistry` extends the operators of the
bus with its own, as the class calls the other. `RoomListeners` does not repeat the
registry: it takes the steps of `Rooms` and those of `RoomFeed`, the ideal feed,
which `ConnectionRegistry` is shown to implement. So what a removed member hears
rests on nothing of the registry but what the refinement proves of it.

## 3. What is checked

Each run by its name in `PROJECT.json`, with the distinct states TLC visits:

| Run | States | Shows |
|---|---|---|
| `registry_delivery` | 290,796 | two sockets, presence and a room, everything clients and Redis may do. Always: the state is well formed and `roomLocalSubs` and the sockets' `rooms` are one relation. Without rejections: the bus's map and the commands sent to Redis agree, and a key with an empty Set has a call that will fill it. With overlapping subscriptions alone, or with sockets leaving during their own subscription alone: nobody is silenced. Unless subscriptions overlap: nobody hears twice. With departures alone: no reference count is too low. With none of these: counts are exact and nothing leaks. With overlaps alone: every subscription takes effect. With departures alone the registry implements `RoomFeed`: whom an event has reached, all that follow reach until it leaves; after anything else still nobody hears what it has not asked for |
| `tokens_sessions` | 334,619 | three tokens, two requests at once. Always: the links between tokens are exact, a family once dead stays dead, and a password reset ends every session that was not between its check and its insert at that moment. Unless a logout overwrites it: an exchanged token keeps its link, so that a replay is recognised. In families whose requests did not overlap, crashes and lost answers included: a token is exchanged once, one token is usable, and a replay ends the family |
| `messages_changes` | 1,308,590 | sends with retries, edits, deletions, departures and crashes in one room, and a client that subscribes and then pages back. When it has seen the last page it has what the table says, unless two changes of a message are too close or a crash kept an event back; deleted messages are blank unless an edit was under way, and stay deleted; the room list is in order unless sends overlapped |
| `messages_sending` | 1,292,475 | two rooms, read receipts, deletions, deleted rooms. A retry answers with the one message of its key; events and read pointers stay in the room of their message |
| `rooms_members` | 242,669 | three users, two requests on one room, and a socket that subscribes to it. Who hears the room is a member, or was one when it asked; nobody but its two users hears a direct room, or is in it; owners go only by leaving or with the room; created rooms have their users and owner, and whoever asked for a direct room is in it, unless somebody left or the creation crashed |
| `presence_sockets` | 412,739 | two sockets on two instances. Open sockets are in the hash unless it expired; closed ones are not unless an instance crashed; the last event published is true, and the last close is announced, unless the key expired, an instance crashed or the user moved between instances while commands were under way |
| `accounts_tokens` | 495,294 | two addresses, three tokens, two requests. Mailed tokens implement `OneTimeToken`; only a token mailed to an address verifies it; no verification token is used in vain unless its request crashed |
| `limiter_window` | 845,463 | three attempts, limit 1. In no window are more attempts admitted than the limit; nobody is refused without as many others; idle keys expire unless an attempt crashed |
| `migrator_edited` | 900,809 | three processes, releases of up to three files, edited files. Each migration is executed once and in order, and a process that ends well leaves the files of its own release executed as they are |

Three runs find a violation of a sentence of the repository's README, quoted
under `findings`:

| Run | What happens |
|---|---|
| `registry_anything` | `chat.unsubscribe` for a room the socket is not in takes another socket's reference; the room goes silent |
| `messages_rekey` | a `clientMessageId` reused in another room publishes the old message there |
| `tickets_upgrades` | two upgrades at the same time open two sockets with one ticket |

The exceptions in the properties are further behaviours a reader of the code
should know. Each was seen in TLC as a counterexample to the property without
the exception:

- Registry: when two first subscriptions of a room overlap and the first socket
  leaves, the second one's handler goes to a Set that is no longer in the map. A
  rejected SUBSCRIBE leaves an empty Set, and later subscribers skip theirs. When two
  first subscriptions overlap, the feed may fall silent for a moment for a socket that
  was reached already, although every subscription takes effect in the end.
- Tokens: two refreshes with one token at the same time both succeed. A rotation
  under way survives the revocation of its family. A logout that races with a
  refresh erases the link by which a replay is recognised. The second retry of
  one token within the grace window finds its replacement revoked and ends the
  session.
- Messages: a retried send publishes `message.created` again. Two changes of a
  message may be published in the opposite order of their statements. An edit
  that passed its checks writes a body into a message deleted meanwhile. Ids are
  drawn before the insert, so that a message may appear above the cursor of a client
  that has paged past it: its event, which comes after the insert, is what saves it,
  so a client that loads first and subscribes afterwards may miss it.
- Rooms: a direct room may be the answer to its second user before its members
  are in it. A user who left a direct room gets it as an answer, but not in it.
  Membership is checked when a socket subscribes and never again: who is removed
  keeps hearing the room until it unsubscribes or its socket closes.
- Presence: a user who moves to another instance may be announced offline last;
  one whose key expires is never announced offline; a crash between HSET and
  EXPIRE leaves a key without a time to live.
- Accounts: of two registrations of one address at the same time, the second
  fails on the key of the table.

### Bounds

Every constant set is small, and symmetric where no liveness property is checked.
They are chosen so that the interleavings of interest need no more: the
registry's failures need two sockets, one room and three handlers (one joining,
one joined, one left behind). Handlers that nothing refers to are
interchangeable, so a new one is chosen (`IsNewHandler`). Tokens form chains of
three, so that a replaced token has a replaced replacement; two requests suffice
for every race of two statements. `Messages` has two rooms where rooms are
compared, two users of whom one is an admin, and `MaxSends` bounds the sends; two
sends are a send and its retry, or two that overlap. With `PageSize` 1 two messages
are two pages, so that a page falls between any two steps of a send; where a client
reads, one user with two requests does, for no property of that run tells users
apart. Rooms has three users (a requester, a target and another admin or owner) and
two requests; with one room id there is one room in the life of the model, of either
kind, and `MaxListeners` lets one pair of a user and a room listen at a time, which is
enough for an invariant about each pair. Presence has
two sockets on two instances; one heartbeat is under way at a time.
`MaxResets` bounds password resets, `MaxTime` the clock of the limiter: 5 ticks
are two windows of 2 and one tick more. The number of tokens, tickets, upgrades
and attempts bounds what happens in those modules. Every invariant, action property and
refinement the passing runs check is also proved for all values of the constants
(section 4), so that these bounds matter only to the two liveness properties and to the
violations, which show themselves at these sizes. Deadlock is not checked, for
these bounds let every run end: sockets open once, tokens and ids run out, the
clock stops.

### Fairness

Two runs check liveness. `registry_delivery` assumes that Redis answers every
command it was sent, in order (`WF` of the confirmation of a SUBSCRIBE and of an
UNSUBSCRIBE, per channel); `presence_sockets` that Redis runs every command an
instance has sent. The code awaits these answers without a timeout, so without
them nothing could be promised. Nothing is assumed of clients: they need not
open, close, subscribe or send heartbeats.

## 4. What is proved

For all values of the constants, all steps checked by TLAPS:

- `ConnectionRegistryProofs!TypeCorrect`: `Spec => []TypeOK`.
- `ConnectionRegistryProofs!RoomsMirrored`: `Spec => []SubsMirrorRooms`, inductive
  together with `TypeOK`.
- `ConnectionRegistryProofs!BusConsistent`: `Spec => []BusInStep`. Whatever the
  registry does, until Redis rejects a SUBSCRIBE it acts on the bus by one of the
  operators of `RedisMessageBus` (`BusStep`), and each of them keeps both formulas.
  They are inductive together: an UNSUBSCRIBE answers for a key only because an empty
  Set that is still in the map has its call on the wire.
- `ConnectionRegistryProofs!NobodyHearsTwice`: `Spec => []NeverTwice`. As for the
  theorems that follow, every action is first reduced to what one channel sees of it
  (`ChannelStep`, `RoomStep`, `PresenceStep`: nothing, a first or a further
  subscription, a closure called, an answer). A channel is idle (no handler),
  joining (one SUBSCRIBE, the last command sent, and no closure kept) or joined
  (exactly the handler whose closure is kept): `Phased`, which every step keeps,
  departures, strays and rejections included, unless a call overlaps another for its
  channel. Without "the last command sent" the answer to an old UNSUBSCRIBE could come
  after the SUBSCRIBE that counts.
- `ConnectionRegistryProofs!CountsAreExact`, `NothingIsLeftBehind`: `Spec =>
  []RefCountIsSubscribers`, `Spec => []NothingLeaks`. `AudienceInv` says that a count is
  at least the number of local subscribers and that a room without an entry has at most
  the one subscriber that is joining: this is what makes dropping the subscription at
  zero safe, and it survives departures (`CalmDelivery`). `CountedInv` says both exactly;
  it holds while nothing disturbs the registry, for a departure during one's own
  subscription leaves a count of one for nobody.
- `ConnectionRegistryProofs!EverybodyIsReached`: `Spec => []ReachedDespiteRaces`, both
  halves. Departures alone keep the phases and the audience. Overlaps alone lead out of
  them, to a channel that is `Overlapped` (the second call's closure is kept while the
  first still awaits Redis, whose answer will fill the Set the map has) and from there
  to one that is `Orphaned`: the first call's closure has taken the other's place, and
  the handler of the other is never removed. So a channel on which calls overlapped has
  too many handlers and never too few: nobody is silenced, unless somebody leaves while
  the first call still awaits Redis. That an event is written finitely often is `FinitelyHeard`.
- `ConnectionRegistryProofs!RegistryIsFeed`: `Spec => ImplementsFeed`, the
  refinement of `RoomFeed`. The mapping takes "asked" to be the pending lookups and the
  rooms' local subscribers, and "hearing" to be those a handler writes to. Calm, that
  is disturbed by departures at most, a socket hears a room exactly if it is a local
  subscriber and the closure of the room's subscription is kept (`HearingIsKept`); in
  those terms each step is an `Ask`, a `Reach`, a `Leave` or a stutter (`CalmFeedStep`),
  and the first step that disturbs more is a `Fail`.
- `AccountsProofs!MailedOnce`: `Spec => TokensAreOneTime`. `Sound` (types, and every
  account that a request or a token names exists) is inductive, and under it every
  step is an `Issue`, `Accept` or `Lapse` of `OneTimeToken`, or none of its business.
- `AccountsProofs!OnlyMailVerifies`, `AccountsProofs!NoTokenInVain`: `Spec =>
  []VerifiedByMail`, `Spec => []UsedTokensTakeEffect`. They are inductive together
  with `VerifiersHaveProof`: a request that is about to mark an address as verified
  has used a token mailed to it. Rows of tokens never change but to used and expired
  (`RowsKept`), so that proof stays.

- `RefreshTokensProofs`: `ExactLinks`, `ExchangesAreRecorded`, `TheDeadStayDead`,
  `ResetsEndSessions`, `TokensAreExchangedOnce`, `OneTokenIsUsable`,
  `ReplaysEndFamilies`: every property of `tokens_sessions`. `TokensInv` (the links,
  and what each request knows of the row it read, which may be stale) is inductive and
  carries the first four, with `GivenInv` (what a client was given, or is about to be
  given, replaced something linked) and `ResetInv` (credentials) on top. The last three
  rest on `OrderlyInv`: a family whose requests did not overlap has at most one request at
  work, what it has read is current, and of the tokens clients can reach (given to them,
  or linked to) at most one is live. It is needed because a lost answer leaves a live token nobody holds,
  and only the grace window's walk to the replacement finds it again.
- `RoomsProofs`: `DirectRoomsStayPrivate`, `RoomsAreWhole`, `AnsweredRoomsAreUsable`,
  `OwnersStay`. `RoomsInv` says what each request may rely on of the role it has read
  although the role may have changed since: who may add or remove somebody is or was an
  admin or owner, and nobody ever is one in a direct room; a room between the two statements of its creation
  has one request that will complete it. `OnlyMembersHear` adds `AskedByMembers`, about
  who has asked, for the composition with the feed.
- `MessagesProofs`: `AnswersByKey`, `EventsInTheirRoom`, `DeletedMessagesAreBlank`,
  `TheDeletedStayDeleted`, `RoomsAreListedByLatest`, `PointersAreInTheRoom`,
  `ReadersMissNothing`: every property of the two passing runs of `Messages`.
  `MessagesInv` (types; requests are about existing rows in their room; a send that is
  to insert has an id nobody else has) is inductive, and each theorem adds a part of its
  own: `KeyInv`, `BlankInv`, `LatestInv`, `RoomInv`, `ReaderInv`. `ReaderInv` says that
  every settled message is known to the client as the table has it, or on its way in an
  event, or below the cursor; its step for a page needs that what a page leaves out is
  older than all it contains and that a page that is not full is the last one
  (`WhatAPageLeavesOut`, for any page size). `EventsInTheirRoom` assumes that clients do
  not use a key in two rooms, without which `messages_rekey` refutes it.
- `PresenceProofs`: `TheOpenAreOnline`, `TheClosedAreGone`, `WhatIsAnnouncedIsTrue`.
  The invariants speak of commands by their place on a connection; `Queued` says once
  what a step does to those places. `LeftInv` is the argument for the absence of ghosts:
  all that enters a socket in the hash was sent before its removal, on the same
  connection. `SaidInv` is the one for the events: undisturbed, opening and closing
  occupy one connection; while somebody is open "online" is said last; and when nobody
  is left in the hash, all that says so is followed by somebody who looks and says the
  opposite.

- `RateLimiterProofs`: `LimitHolds`, `RefusalsAreJustified`, `KeysExpire`: every
  property of `limiter_window`, for any number of attempts, limit and window.
  `LimiterInv` says that the member of an attempt stays in the log until its window has
  passed (`LogKept`, unless it vanished with the key), and that what an attempt finds in
  the log after its ZREM was under way within the window before it or since
  (`LogIsBusy`). An attempt that is admitted has therefore counted, with itself, all that
  were admitted before it in the same interval; its ZCARD was within the limit, so are they
  (`AtMostMax`, about every interval and not only those that begin with an attempt).
- `MigratorProofs`: `MigrationsAreInOrder`, `SuccessMeansItsFiles`: both properties of
  `migrator_edited`, for any processes and releases. `MigratorInv` says what a process may
  rely on of the map it read before its loop (`ProcessOK`): what it saw applied is still
  as it saw it, the files it has passed are in the database as its directory has them, and
  no other transaction is inserting the row it inserts (`OneInserter`).

Each module of proofs also shows `[]TypeOK`, alone or in its invariant. The assumptions
on the constants (`BusAssumption`, `RegistryAssumption`, `TokensAssumption`,
`RoomsAssumption`, `ListenersAssumption`, `MessagesAssumption`, `AccountsAssumption`, `PresenceAssumption`,
`LimiterAssumption`, `MigratorAssumption`) say that special values such as `None` are
distinct from the values they stand beside, that `Presence` is a channel, that a page has
at least one message, that limits, windows and clocks are numbers and that sockets and
attempts are finitely many; TLC evaluates them in the runs of the same modules.

Only model-checked: the two liveness properties, `SubscriptionTakesEffect` and
`LastCloseIsAnnounced`, since fairness and `ENABLED` are out of the prover's reach. A
theorem says that nothing wrong happens, and these that something does: that Redis's
answer to a subscription puts a closure in place, and that a last departure is
published in the end. The three violations are TLC's counterexamples.

## 5. What the models assume

- Postgres executes a statement atomically, and the keys, partial indexes and
  `ON DELETE CASCADE` clauses of `migrations/` hold. Reads see committed rows.
- Redis executes one command at a time and answers the commands of a connection in
  order; an instance sends its commands over `redisPublisher` and `redisSubscriber`.
- Ids and random tokens are unique, hashes injective, and a password verifies if
  it is the one stored.
- `Messages` has one clock: UUIDv7 ids and times of different instances are
  ordered as drawn. `RateLimiter` has one clock for the instances and Redis.
- `Migrator`: a release only adds files after those of earlier ones, as the
  README of the repository asks; file contents are SQL that succeeds.
- Refusals that leave no trace are left out, or end the request.
- The client of `Messages` is not in the repository. It subscribes before it loads,
  and merges a page under what events have told it; events of one room reach it in the
  order they were published, as those of one channel do.

## 6. Plan

Done, in this order: registry and bus with their proofs; accounts with their abstract
specification and proofs; sessions; messages; rooms; presence; tickets; limiter;
migrator; a reader of `Messages` (subscribe, then page); the ideal feed, its
implementation by the registry and its composition with rooms; proofs of every safety
property of the passing runs, of the registry, the limiter and the migrator last.

What is left, in order of what it would add:

1. An abstract session, alive or ended, implemented by a family of tokens whose
   requests do not overlap: `ExchangedOnce`, `OneUsableToken` and `ReplayEndsFamily` are
   its parts.
2. Why overlaps and departures together silence a room: the weakest condition under
   which `EverySubscriberReached` holds, instead of the two sufficient ones of
   `ReachedDespiteRaces`.

No module declares a recursive operator, so theorems can be stated about each.

## 7. What is not modelled

- The in-memory rate limiter: `composition-root.ts` never builds it.
- HTTP routing, middlewares, validation and error mapping, the WebSocket envelopes
  and acknowledgements: functions of one request, without shared state. The frames of
  one socket are handled without waiting for each other, which the models have: two
  requests of one user interleave like those of two.
- Start and shutdown: wiring, and to the components a SIGTERM is the crash in their
  models.
- Attachments: the server signs URLs and asks whether an object exists; it never
  writes the bucket. A message's attachment is left out of `Messages`.
- Profiles, and the listings of users and rooms: single reads, and one update of a
  display name. The order of the listing of rooms is a property of `Messages`.
- Cryptography, ids, clocks, e-mail delivery: assumed, as said in section 5.
- `user.typing` events: nothing is stored, a lost one is harmless.
