---------------------------- MODULE RateLimiter -----------------------------
(***************************************************************************)
(* The sliding window of RedisRateLimiter                                  *)
(* (src/infrastructure/redis/redis-rate-limiter.ts) for one key, as the    *)
(* rateLimit middleware uses it: the attempts of every instance share one  *)
(* sorted set, and each attempt runs four commands on it, between which    *)
(* the commands of other attempts may run and time may pass.               *)
(*                                                                         *)
(* The instances' clocks are one clock, that of Redis.                     *)
(***************************************************************************)
EXTENDS Integers, FiniteSets

CONSTANTS
  Attempts,  \* the calls of consume for the key
  Max,       \* how many of them are allowed per window
  Window,    \* windowMs, in ticks
  MaxTime,   \* bound on the clock
  None       \* no time

ASSUME LimiterAssumption ==
  /\ Max \in Nat /\ Window \in Nat \ {0} /\ MaxTime \in Nat
  /\ None \notin Int
  /\ IsFiniteSet(Attempts)

VARIABLES
  now,      \* Date.now()
  stage,    \* the command each attempt runs next, or its outcome
  stamp,    \* now as the attempt read it
  log,      \* the sorted set: an attempt's member has its stamp for score
  deadline, \* when the key expires
  \* What the specification notes:
  answered, \* when the attempt ended
  vanished  \* attempts whose member was lost with the key

vars == <<now, stage, stamp, log, deadline, answered, vanished>>

Running == {"zrem", "zadd", "pexpire", "zcard"}
Outcomes == {"allowed", "refused", "crashed"}

TypeOK ==
  /\ now \in Nat
  /\ stage \in [Attempts -> {"new"} \cup Running \cup Outcomes]
  /\ stamp \in [Attempts -> Nat \cup {None}]
  /\ log \in SUBSET Attempts
  /\ deadline \in Nat \cup {None}
  /\ answered \in [Attempts -> Nat \cup {None}]
  /\ vanished \in SUBSET Attempts

Init ==
  /\ now = 0
  /\ stage = [a \in Attempts |-> "new"]
  /\ stamp = [a \in Attempts |-> None]
  /\ log = {}
  /\ deadline = None
  /\ answered = [a \in Attempts |-> None]
  /\ vanished = {}

-----------------------------------------------------------------------------
Goto(a, from, to) == stage[a] = from /\ stage' = [stage EXCEPT ![a] = to]

Begin(a) ==
  /\ Goto(a, "new", "zrem")
  /\ stamp' = [stamp EXCEPT ![a] = now]
  /\ UNCHANGED <<now, log, deadline, answered, vanished>>

\* The members that zremrangebyscore(-inf, windowStart) of a removes.  Variants:
\* one tick too many; one too few.
StaleEarly(a) == {b \in log : stamp[b] <= stamp[a] - Window + 1}
StaleLate(a) == {b \in log : stamp[b] < stamp[a] - Window}
Stale(a) == {b \in log : stamp[b] <= stamp[a] - Window}

\* A sorted set without members is no key, and has no time to live.
ZRem(a) ==
  /\ Goto(a, "zrem", "zadd")
  /\ log' = log \ Stale(a)
  /\ deadline' = IF log' = {} THEN None ELSE deadline
  /\ UNCHANGED <<now, stamp, answered, vanished>>

ZAdd(a) ==
  /\ Goto(a, "zadd", "pexpire")
  /\ log' = log \cup {a}
  /\ UNCHANGED <<now, stamp, deadline, answered, vanished>>

\* The variant leaves the time to live of the key as it is.
LifeAsBefore == deadline
Life == IF log = {} THEN None ELSE now + 2 * Window

PExpire(a) ==
  /\ Goto(a, "pexpire", "zcard")
  /\ deadline' = Life
  /\ UNCHANGED <<now, stamp, log, answered, vanished>>

\* zcard, and what is answered: RateLimitError if the attempt is one too many.
ZCard(a) ==
  /\ Goto(a, "zcard", IF Cardinality(log) > Max THEN "refused" ELSE "allowed")
  /\ answered' = [answered EXCEPT ![a] = now]
  /\ UNCHANGED <<now, stamp, log, deadline, vanished>>

Crash(a) ==
  /\ stage[a] \in Running
  /\ stage' = [stage EXCEPT ![a] = "crashed"]
  /\ answered' = [answered EXCEPT ![a] = now]
  /\ UNCHANGED <<now, stamp, log, deadline, vanished>>

\* Time passes, attempts under way or not; at its deadline the key is gone.
Tick ==
  /\ now < MaxTime
  /\ now' = now + 1
  /\ IF deadline = now'
     THEN log' = {} /\ deadline' = None /\ vanished' = vanished \cup log
     ELSE UNCHANGED <<log, deadline, vanished>>
  /\ UNCHANGED <<stage, stamp, answered>>

Consume(a) == Begin(a) \/ ZRem(a) \/ ZAdd(a) \/ PExpire(a) \/ ZCard(a)

Next == Tick \/ \E a \in Attempts : Consume(a) \/ Crash(a)

Spec == Init /\ [][Next]_vars

-----------------------------------------------------------------------------
\* In no interval of the length of the window do more than Max attempts begin and
\* be allowed, however their commands interleave and however long they take.  The
\* exception is an attempt whose member was lost because the key expired between
\* its ZADD and its PEXPIRE.  (Attempts that straddle the end of the interval do
\* not count: another one may have removed the members of the interval by then.)
MaxPerInterval ==
  \A first \in Attempts : stamp[first] # None =>
    Cardinality({a \in Attempts \ vanished :
                   /\ stage[a] = "allowed"
                   /\ stamp[a] >= stamp[first]
                   /\ answered[a] < stamp[first] + Window}) <= Max

\* Retry-After (rate-limit.ts, 29-32) is long enough: an attempt is refused only if
\* more than Max, itself included, were under way within the window before it or
\* since.
RefusedOnlyWhenBusy ==
  \A a \in Attempts : stage[a] = "refused" =>
    Cardinality({b \in Attempts :
                   /\ stamp[b] # None
                   /\ answered[b] = None \/ answered[b] > stamp[a] - Window}) > Max

\* With no attempt under way the key expires by itself: keys of subjects that do not
\* come back do not pile up.  An attempt that crashed may have left it without a time
\* to live.
IdleKeysExpire ==
  (\A a \in Attempts : stage[a] \notin Running \cup {"crashed"}) /\ log # {}
    => deadline # None
=============================================================================
