-------------------------- MODULE RateLimiterProofs -------------------------
(***************************************************************************)
(* Proofs about RateLimiter, for any number of attempts, limit, window and *)
(* clock.                                                                  *)
(***************************************************************************)
EXTENDS RateLimiter, FiniteSetTheorems, TLAPS

\* An attempt whose ZADD has run and that did not crash.
Logged(a) == stage[a] \in {"pexpire", "zcard", "allowed", "refused"}

\* What is known of when an attempt began and ended.
TimesOK(a) ==
  /\ stamp[a] # None <=> stage[a] # "new"
  /\ stamp[a] # None => stamp[a] <= now
  /\ answered[a] # None <=> stage[a] \in Outcomes
  /\ answered[a] # None => stamp[a] <= answered[a] /\ answered[a] <= now

\* A member is removed only once its window has passed, or with the key.
LogKept ==
  \A a \in Attempts :
    Logged(a) /\ a \notin vanished /\ now < stamp[a] + Window => a \in log

\* Those allowed that began and ended within the window that starts at t.
Admitted(t) ==
  {a \in Attempts \ vanished :
     /\ stage[a] = "allowed" /\ stamp[a] >= t /\ answered[a] < t + Window}

AtMostMax == \A t \in Nat : Cardinality(Admitted(t)) <= Max

\* b keeps a busy: it is under way, or ended within the window before a began or since.
\* What an attempt finds in the log after its ZREM keeps it busy: the members whose ZADD
\* came late have old stamps, but were under way.
Busy(a, b) ==
  stamp[b] # None /\ (answered[b] = None \/ answered[b] > stamp[a] - Window)

LogIsBusy ==
  \A a \in Attempts : stage[a] \in {"zadd", "pexpire", "zcard"} =>
    \A b \in log : Busy(a, b)

\* A log without a deadline has an attempt that will set it, or crashed before.
DeadlineIsComing ==
  log # {} /\ deadline = None => \E a \in Attempts : stage[a] \in {"pexpire", "crashed"}

LimiterInv ==
  /\ TypeOK
  /\ \A a \in Attempts : TimesOK(a)
  /\ \A b \in log : stage[b] \notin {"new", "zrem", "zadd"}
  /\ LogKept
  /\ AtMostMax
  /\ LogIsBusy
  /\ RefusedOnlyWhenBusy
  /\ DeadlineIsComing

BusySet(a) == {b \in Attempts : Busy(a, b)}

-----------------------------------------------------------------------------
(* Counting                                                                *)

LEMMA FiniteAttempts ==
  ASSUME NEW S, S \subseteq Attempts
  PROVE  /\ IsFiniteSet(S) /\ Cardinality(S) \in Nat
         /\ \A T : T \subseteq S => Cardinality(T) <= Cardinality(S) /\ Cardinality(T) \in Nat
<1>1. IsFiniteSet(S)
  BY FS_Subset, LimiterAssumption
<1>2. Cardinality(S) \in Nat
  BY <1>1, FS_CardinalityType
<1>3. ASSUME NEW T, T \subseteq S
      PROVE  Cardinality(T) <= Cardinality(S) /\ Cardinality(T) \in Nat
  <2>1. IsFiniteSet(T) /\ Cardinality(T) <= Cardinality(S)
    BY <1>1, <1>3, FS_Subset
  <2>2. QED BY <2>1, FS_CardinalityType
<1>4. QED BY <1>1, <1>2, <1>3

\* A step that admits nobody new keeps the limit.
LEMMA AdmittedShrinks ==
  ASSUME AtMostMax, \A t \in Nat : Admitted(t)' \subseteq Admitted(t)
  PROVE  AtMostMax'
<1> SUFFICES ASSUME NEW t \in Nat PROVE Cardinality(Admitted(t)') <= Max
  BY DEF AtMostMax
<1>1. Admitted(t) \subseteq Attempts /\ Cardinality(Admitted(t)) <= Max
  BY DEF AtMostMax, Admitted
<1>2. /\ Cardinality(Admitted(t)') <= Cardinality(Admitted(t))
      /\ Cardinality(Admitted(t)') \in Nat /\ Cardinality(Admitted(t)) \in Nat
  BY <1>1, FiniteAttempts
<1>3. QED BY <1>1, <1>2, LimiterAssumption

\* Who was refused is as busy as before.
LEMMA RefusedStays ==
  ASSUME RefusedOnlyWhenBusy, NEW a \in Attempts, stage[a] = "refused",
         \A b \in Attempts : Busy(a, b) => Busy(a, b)'
  PROVE  Cardinality(BusySet(a)') > Max
<1>1. BusySet(a)' \subseteq Attempts /\ BusySet(a) \subseteq BusySet(a)'
  BY DEF BusySet
<1>2. Cardinality(BusySet(a)) > Max
  BY DEF RefusedOnlyWhenBusy, BusySet, Busy
<1>3. /\ Cardinality(BusySet(a)) <= Cardinality(BusySet(a)')
      /\ Cardinality(BusySet(a)) \in Nat /\ Cardinality(BusySet(a)') \in Nat
  BY <1>1, FiniteAttempts
<1>4. QED BY <1>2, <1>3, LimiterAssumption

\* A step that refuses nobody new, and in which nobody stops being busy.
LEMMA NobodyRefused ==
  ASSUME RefusedOnlyWhenBusy,
         \A a \in Attempts : stage'[a] = "refused" => stage[a] = "refused",
         \A a, b \in Attempts : stage[a] = "refused" /\ Busy(a, b) => Busy(a, b)'
  PROVE  RefusedOnlyWhenBusy'
<1>1. \A a \in Attempts : stage'[a] = "refused" => Cardinality(BusySet(a)') > Max
  BY RefusedStays
<1>2. QED BY <1>1 DEF RefusedOnlyWhenBusy, BusySet, Busy

-----------------------------------------------------------------------------
LEMMA InitLimiter == Init => LimiterInv
<1> SUFFICES ASSUME Init PROVE LimiterInv
  OBVIOUS
<1>1. TypeOK /\ \A a \in Attempts : TimesOK(a)
  BY LimiterAssumption DEF Init, TypeOK, TimesOK, Running, Outcomes
<1>2. AtMostMax
  <2>1. \A t \in Nat : Admitted(t) = {}
    BY DEF Init, Admitted
  <2>2. QED BY <2>1, FS_EmptySet, LimiterAssumption DEF AtMostMax
<1>3. LogKept /\ LogIsBusy /\ RefusedOnlyWhenBusy /\ DeadlineIsComing
  BY DEF Init, LogKept, Logged, LogIsBusy, RefusedOnlyWhenBusy, DeadlineIsComing
<1>4. QED BY <1>1, <1>2, <1>3 DEF Init, LimiterInv

\* What the times of an attempt are, in numbers.
LEMMA Times ==
  ASSUME TypeOK, NEW a \in Attempts, TimesOK(a)
  PROVE  /\ now \in Nat
         /\ stage[a] # "new" => stamp[a] \in Nat /\ stamp[a] # None /\ stamp[a] <= now
         /\ stage[a] = "new" => stamp[a] = None
         /\ stage[a] \in Outcomes =>
              answered[a] \in Nat /\ answered[a] # None /\ stamp[a] <= answered[a] /\ answered[a] <= now
         /\ stage[a] \notin Outcomes => answered[a] = None
  BY LimiterAssumption DEF TypeOK, TimesOK, Outcomes

LEMMA BeginStep ==
  ASSUME LimiterInv, NEW a \in Attempts, Begin(a)
  PROVE  LimiterInv'
<1> USE DEF LimiterInv
<1>1. /\ stage[a] = "new" /\ stage'[a] = "zrem" /\ stamp'[a] = now
      /\ \A b \in Attempts \ {a} : stage'[b] = stage[b] /\ stamp'[b] = stamp[b]
      /\ UNCHANGED <<now, log, deadline, answered, vanished>>
  BY DEF Begin, Goto, TypeOK
<1>2. TypeOK'
  BY DEF Begin, Goto, TypeOK, Running, Outcomes
<1>3. answered[a] = None /\ a \notin log /\ stamp[a] = None
  BY <1>1, Times DEF Outcomes
<1>4. \A b \in Attempts : TimesOK(b)'
  <2>1. TimesOK(a)'
    BY <1>1, <1>3, LimiterAssumption DEF TimesOK, Outcomes, TypeOK
  <2>2. QED BY <1>1, <2>1 DEF TimesOK
<1>5. LogKept'
  BY <1>1 DEF LogKept, Logged
<1>6. AtMostMax'
  <2>1. \A t \in Nat : Admitted(t)' \subseteq Admitted(t)
    BY <1>1 DEF Admitted
  <2>2. QED BY <2>1, AdmittedShrinks
<1>7. \A b, c \in Attempts : b # a /\ Busy(b, c) => Busy(b, c)'
  BY <1>1, <1>3 DEF Busy
<1>8. LogIsBusy'
  BY <1>1, <1>3, <1>7 DEF LogIsBusy, TypeOK
<1>9. RefusedOnlyWhenBusy'
  BY <1>1, <1>7, NobodyRefused
<1>10. DeadlineIsComing'
  BY <1>1 DEF DeadlineIsComing
<1>11. QED BY <1>1, <1>2, <1>3, <1>4, <1>5, <1>6, <1>8, <1>9, <1>10 DEF TypeOK

\* What is left in the log is from the window before a, so it ended in it if it ended.
LEMMA ZRemStep ==
  ASSUME LimiterInv, NEW a \in Attempts, ZRem(a)
  PROVE  LimiterInv'
<1> USE DEF LimiterInv
<1>1. /\ stage[a] = "zrem" /\ stage'[a] = "zadd"
      /\ \A b \in Attempts \ {a} : stage'[b] = stage[b]
      /\ log' = log \ Stale(a) /\ UNCHANGED <<now, stamp, answered, vanished>>
      /\ deadline' = None \/ deadline' = deadline
      /\ log' # {} => deadline' = deadline
  BY DEF ZRem, Goto, TypeOK
<1>2. TypeOK'
  BY DEF ZRem, Goto, TypeOK, Running, Outcomes, Stale
<1>3. \A b \in Attempts : TimesOK(b)'
  BY <1>1 DEF TimesOK, Outcomes
<1>4. LogKept'
  <2> SUFFICES ASSUME NEW b \in Attempts, Logged(b)', b \notin vanished', now' < stamp'[b] + Window
               PROVE  b \in log'
    BY DEF LogKept
  <2>1. b # a /\ Logged(b) /\ b \notin vanished /\ now < stamp[b] + Window
    BY <1>1 DEF Logged
  <2>2. stamp[b] \in Nat /\ stamp[a] \in Nat /\ stamp[a] <= now /\ now \in Nat
    BY <1>1, <2>1, Times DEF Logged
  <2>3. b \notin Stale(a)
    BY <2>1, <2>2, LimiterAssumption DEF Stale
  <2>4. QED BY <1>1, <2>1, <2>3 DEF LogKept
<1>5. AtMostMax'
  <2>1. \A t \in Nat : Admitted(t)' \subseteq Admitted(t)
    BY <1>1 DEF Admitted
  <2>2. QED BY <2>1, AdmittedShrinks
<1>6. \A b, c \in Attempts : Busy(b, c) <=> Busy(b, c)'
  BY <1>1 DEF Busy
<1>7. LogIsBusy'
  <2>1. ASSUME NEW b \in log' PROVE Busy(a, b)
    <3>1. b \in Attempts /\ b \in log /\ ~ (stamp[b] <= stamp[a] - Window)
      BY <1>1, <2>1 DEF TypeOK, Stale
    <3>2. stamp[a] \in Nat /\ stamp[b] \in Nat /\ stamp[b] # None
      BY <1>1, <3>1, Times
    <3>3. CASE stage[b] \in Outcomes
      <4>1. answered[b] \in Nat /\ stamp[b] <= answered[b]
        BY <3>1, <3>3, Times
      <4>2. QED BY <3>1, <3>2, <4>1, LimiterAssumption DEF Busy
    <3>4. CASE stage[b] \notin Outcomes
      BY <3>1, <3>2, <3>4, Times DEF Busy
    <3>5. QED BY <3>3, <3>4
  <2>2. ASSUME NEW c \in Attempts, stage'[c] \in {"zadd", "pexpire", "zcard"}, NEW b \in log'
        PROVE  Busy(c, b)'
    <3>1. b \in Attempts /\ b \in log
      BY <1>1 DEF TypeOK
    <3>2. QED BY <1>1, <1>6, <2>1, <2>2, <3>1 DEF LogIsBusy
  <2>3. QED BY <2>2 DEF LogIsBusy
<1>8. RefusedOnlyWhenBusy'
  BY <1>1, <1>6, NobodyRefused
<1>9. DeadlineIsComing'
  BY <1>1 DEF DeadlineIsComing
<1>10. \A b \in log' : stage'[b] \notin {"new", "zrem", "zadd"}
  BY <1>1 DEF TypeOK
<1>11. QED BY <1>2, <1>3, <1>4, <1>5, <1>7, <1>8, <1>9, <1>10

LEMMA ZAddStep ==
  ASSUME LimiterInv, NEW a \in Attempts, ZAdd(a)
  PROVE  LimiterInv'
<1> USE DEF LimiterInv
<1>1. /\ stage[a] = "zadd" /\ stage'[a] = "pexpire"
      /\ \A b \in Attempts \ {a} : stage'[b] = stage[b]
      /\ log' = log \cup {a} /\ UNCHANGED <<now, stamp, deadline, answered, vanished>>
  BY DEF ZAdd, Goto, TypeOK
<1>2. TypeOK'
  BY DEF ZAdd, Goto, TypeOK, Running, Outcomes
<1>3. \A b \in Attempts : TimesOK(b)'
  BY <1>1 DEF TimesOK, Outcomes
<1>4. LogKept'
  BY <1>1 DEF LogKept, Logged
<1>5. AtMostMax'
  <2>1. \A t \in Nat : Admitted(t)' \subseteq Admitted(t)
    BY <1>1 DEF Admitted
  <2>2. QED BY <2>1, AdmittedShrinks
<1>6. \A b, c \in Attempts : Busy(b, c) <=> Busy(b, c)'
  BY <1>1 DEF Busy
<1>7. \A b \in Attempts : Busy(b, a)
  BY <1>1, Times DEF Busy, Outcomes
<1>8. LogIsBusy'
  <2> SUFFICES ASSUME NEW c \in Attempts, stage'[c] \in {"zadd", "pexpire", "zcard"}, NEW b \in log'
               PROVE  Busy(c, b)'
    BY DEF LogIsBusy
  <2>1. b = a \/ (b \in log /\ b \in Attempts)
    BY <1>1 DEF TypeOK
  <2>2. QED BY <1>1, <1>6, <1>7, <2>1 DEF LogIsBusy
<1>9. RefusedOnlyWhenBusy'
  BY <1>1, <1>6, NobodyRefused
<1>10. DeadlineIsComing'
  BY <1>1 DEF DeadlineIsComing
<1>11. \A b \in log' : stage'[b] \notin {"new", "zrem", "zadd"}
  BY <1>1 DEF TypeOK
<1>12. QED BY <1>2, <1>3, <1>4, <1>5, <1>8, <1>9, <1>10, <1>11

LEMMA PExpireStep ==
  ASSUME LimiterInv, NEW a \in Attempts, PExpire(a)
  PROVE  LimiterInv'
<1> USE DEF LimiterInv
<1>1. /\ stage[a] = "pexpire" /\ stage'[a] = "zcard"
      /\ \A b \in Attempts \ {a} : stage'[b] = stage[b]
      /\ deadline' = Life /\ UNCHANGED <<now, stamp, log, answered, vanished>>
  BY DEF PExpire, Goto, TypeOK
<1>2. Life \in Nat \cup {None} /\ (log # {} => Life # None)
  BY LimiterAssumption DEF TypeOK, Life
<1>3. TypeOK'
  BY <1>2 DEF PExpire, Goto, TypeOK, Running, Outcomes
<1>4. \A b \in Attempts : TimesOK(b)'
  BY <1>1 DEF TimesOK, Outcomes
<1>5. LogKept'
  BY <1>1 DEF LogKept, Logged
<1>6. AtMostMax'
  <2>1. \A t \in Nat : Admitted(t)' \subseteq Admitted(t)
    BY <1>1 DEF Admitted
  <2>2. QED BY <2>1, AdmittedShrinks
<1>7. \A b, c \in Attempts : Busy(b, c) <=> Busy(b, c)'
  BY <1>1 DEF Busy
<1>8. LogIsBusy'
  BY <1>1, <1>7 DEF LogIsBusy, TypeOK
<1>9. RefusedOnlyWhenBusy'
  BY <1>1, <1>7, NobodyRefused
<1>10. DeadlineIsComing'
  BY <1>1, <1>2 DEF DeadlineIsComing
<1>11. \A b \in log' : stage'[b] \notin {"new", "zrem", "zadd"}
  BY <1>1 DEF TypeOK
<1>12. QED BY <1>3, <1>4, <1>5, <1>6, <1>8, <1>9, <1>10, <1>11

\* An attempt that ends now is busy to all that have begun.
LEMMA EndStep ==
  ASSUME LimiterInv, NEW a \in Attempts, stage[a] \in Running,
         NEW end \in Outcomes, stage' = [stage EXCEPT ![a] = end],
         answered' = [answered EXCEPT ![a] = now],
         UNCHANGED <<now, stamp, log, deadline, vanished>>,
         end # "crashed" => stage[a] = "zcard"
  PROVE  /\ TypeOK' /\ \A b \in Attempts : TimesOK(b)'
         /\ LogKept' /\ LogIsBusy' /\ DeadlineIsComing'
         /\ \A b \in log' : stage'[b] \notin {"new", "zrem", "zadd"}
         /\ \A b, c \in Attempts : stage[b] # "new" /\ Busy(b, c) => Busy(b, c)'
         /\ Busy(a, a)'
<1> USE DEF LimiterInv
<1>1. /\ stage[a] \notin Outcomes \cup {"new"} /\ stage'[a] = end /\ answered'[a] = now
      /\ end \in {"allowed", "refused", "crashed"}
      /\ \A b \in Attempts \ {a} : stage'[b] = stage[b] /\ answered'[b] = answered[b]
      /\ UNCHANGED <<now, stamp, log, deadline, vanished>>
  BY DEF Running, Outcomes, TypeOK
<1>2. TypeOK'
  BY DEF TypeOK, Running, Outcomes
<1>3. stamp[a] \in Nat /\ stamp[a] <= now /\ now \in Nat /\ now # None /\ stamp[a] # None
  BY <1>1, Times, LimiterAssumption
<1>4. \A b \in Attempts : TimesOK(b)'
  <2>1. TimesOK(a)'
    BY <1>1, <1>3 DEF TimesOK, Outcomes
  <2>2. QED BY <1>1, <2>1 DEF TimesOK
<1>5. LogKept'
  BY <1>1 DEF LogKept, Logged
<1>6. ASSUME NEW b \in Attempts, stage[b] # "new"
      PROVE  Busy(b, a)'
  <2>1. stamp[b] \in Nat /\ stamp[b] <= now
    BY <1>6, Times
  <2>2. now > stamp[b] - Window
    BY <1>3, <2>1, LimiterAssumption
  <2>3. QED BY <1>1, <1>3, <2>2 DEF Busy
<1>7. \A b, c \in Attempts : stage[b] # "new" /\ Busy(b, c) => Busy(b, c)'
  BY <1>1, <1>6 DEF Busy
<1>8. LogIsBusy'
  <2> SUFFICES ASSUME NEW c \in Attempts, stage'[c] \in {"zadd", "pexpire", "zcard"}, NEW b \in log'
               PROVE  Busy(c, b)'
    BY DEF LogIsBusy
  <2>1. b \in log /\ b \in Attempts /\ stage'[c] = stage[c]
    BY <1>1 DEF TypeOK
  <2>2. QED BY <1>7, <2>1 DEF LogIsBusy
<1>9. DeadlineIsComing'
  <2> SUFFICES ASSUME log # {}, deadline = None
               PROVE  \E b \in Attempts : stage'[b] \in {"pexpire", "crashed"}
    BY <1>1 DEF DeadlineIsComing
  <2>1. PICK b \in Attempts : stage[b] \in {"pexpire", "crashed"}
    BY DEF DeadlineIsComing
  <2>2. CASE b # a
    BY <1>1, <2>1, <2>2
  <2>3. CASE b = a
    BY <1>1, <2>1, <2>3
  <2>4. QED BY <2>2, <2>3
<1>10. \A b \in log' : stage'[b] \notin {"new", "zrem", "zadd"}
  BY <1>1 DEF TypeOK
<1>11. QED BY <1>1, <1>2, <1>4, <1>5, <1>6, <1>7, <1>8, <1>9, <1>10

\* Those admitted in a window that is not over are all in the log when the last of
\* them counts it, and so are those a refused attempt counts.
LEMMA ZCardStep ==
  ASSUME LimiterInv, NEW a \in Attempts, ZCard(a)
  PROVE  LimiterInv'
<1> USE DEF LimiterInv
<1> DEFINE end == IF Cardinality(log) > Max THEN "refused" ELSE "allowed"
<1>1. /\ stage[a] = "zcard" /\ stage' = [stage EXCEPT ![a] = end]
      /\ answered' = [answered EXCEPT ![a] = now]
      /\ UNCHANGED <<now, stamp, log, deadline, vanished>>
  BY DEF ZCard, Goto
<1>2. /\ end \in {"refused", "allowed"}
      /\ end = "refused" => Cardinality(log) > Max
      /\ end = "allowed" => ~ (Cardinality(log) > Max)
  OBVIOUS
<1> HIDE DEF end
<1>3. /\ TypeOK' /\ \A b \in Attempts : TimesOK(b)'
      /\ LogKept' /\ LogIsBusy' /\ DeadlineIsComing'
      /\ \A b \in log' : stage'[b] \notin {"new", "zrem", "zadd"}
      /\ \A b, c \in Attempts : stage[b] # "new" /\ Busy(b, c) => Busy(b, c)'
      /\ Busy(a, a)'
  BY <1>1, <1>2, EndStep DEF Running, Outcomes
<1>4. /\ stage'[a] = end /\ answered'[a] = now
      /\ \A b \in Attempts \ {a} : stage'[b] = stage[b] /\ answered'[b] = answered[b]
  BY <1>1 DEF TypeOK
<1>5. log \subseteq Attempts /\ Cardinality(log) \in Nat
  BY FiniteAttempts DEF TypeOK
<1>6. AtMostMax'
  <2> SUFFICES ASSUME NEW t \in Nat PROVE Cardinality(Admitted(t)') <= Max
    BY DEF AtMostMax
  <2>1. CASE a \notin Admitted(t)'
    <3>1. Admitted(t)' \subseteq Admitted(t)
      BY <1>1, <1>4, <2>1 DEF Admitted
    <3>2. Admitted(t) \subseteq Attempts /\ Cardinality(Admitted(t)) <= Max
      BY DEF AtMostMax, Admitted
    <3>3. /\ Cardinality(Admitted(t)') <= Cardinality(Admitted(t))
          /\ Cardinality(Admitted(t)') \in Nat /\ Cardinality(Admitted(t)) \in Nat
      BY <3>1, <3>2, FiniteAttempts
    <3>4. QED BY <3>2, <3>3, LimiterAssumption
  <2>2. CASE a \in Admitted(t)'
    <3>1. end = "allowed" /\ now < t + Window
      BY <1>4, <2>2 DEF Admitted
    <3>2. ASSUME NEW b \in Admitted(t)'
          PROVE  b \in log
      <4>1. /\ b \in Attempts /\ b \notin vanished /\ stage'[b] = "allowed" /\ stamp[b] >= t
        BY <1>1, <3>2 DEF Admitted
      <4>2. Logged(b) /\ stage[b] # "new"
        BY <1>1, <1>4, <4>1 DEF Logged
      <4>3. stamp[b] \in Nat /\ now \in Nat
        BY <4>1, <4>2, Times
      <4>4. now < stamp[b] + Window
        BY <3>1, <4>1, <4>3, LimiterAssumption
      <4>5. QED BY <4>1, <4>2, <4>4 DEF LogKept
    <3>3. /\ Cardinality(Admitted(t)') <= Cardinality(log)
          /\ Cardinality(Admitted(t)') \in Nat
      BY <1>5, <3>2, FiniteAttempts
    <3>4. QED BY <1>2, <1>5, <3>1, <3>3, LimiterAssumption
  <2>3. QED BY <2>1, <2>2
<1>7. RefusedOnlyWhenBusy'
  <2>1. ASSUME NEW b \in Attempts, stage'[b] = "refused"
        PROVE  Cardinality(BusySet(b)') > Max
    <3>1. CASE b # a
      <4>1. stage[b] = "refused"
        BY <1>4, <2>1, <3>1
      <4>2. QED BY <1>3, <4>1, RefusedStays
    <3>2. CASE b = a
      <4>1. Cardinality(log) > Max
        BY <1>2, <1>4, <2>1, <3>2
      <4>2. log \subseteq BusySet(a)'
        BY <1>1, <1>3, <1>5 DEF LogIsBusy, BusySet
      <4>3. BusySet(a)' \subseteq Attempts
        BY DEF BusySet
      <4>4. Cardinality(log) <= Cardinality(BusySet(a)') /\ Cardinality(BusySet(a)') \in Nat
        BY <4>2, <4>3, FiniteAttempts
      <4>5. QED BY <1>5, <3>2, <4>1, <4>4, LimiterAssumption
    <3>3. QED BY <3>1, <3>2
  <2>2. QED BY <2>1 DEF RefusedOnlyWhenBusy, BusySet, Busy
<1>8. QED BY <1>3, <1>6, <1>7

LEMMA CrashStep ==
  ASSUME LimiterInv, NEW a \in Attempts, Crash(a)
  PROVE  LimiterInv'
<1> USE DEF LimiterInv
<1>1. /\ stage[a] \in Running /\ stage' = [stage EXCEPT ![a] = "crashed"]
      /\ answered' = [answered EXCEPT ![a] = now]
      /\ UNCHANGED <<now, stamp, log, deadline, vanished>>
  BY DEF Crash
<1>2. /\ TypeOK' /\ \A b \in Attempts : TimesOK(b)'
      /\ LogKept' /\ LogIsBusy' /\ DeadlineIsComing'
      /\ \A b \in log' : stage'[b] \notin {"new", "zrem", "zadd"}
      /\ \A b, c \in Attempts : stage[b] # "new" /\ Busy(b, c) => Busy(b, c)'
  BY <1>1, EndStep DEF Outcomes
<1>3. /\ stage'[a] = "crashed"
      /\ \A b \in Attempts \ {a} : stage'[b] = stage[b] /\ answered'[b] = answered[b]
  BY <1>1 DEF TypeOK
<1>4. AtMostMax'
  <2>1. \A t \in Nat : Admitted(t)' \subseteq Admitted(t)
    BY <1>1, <1>3 DEF Admitted
  <2>2. QED BY <2>1, AdmittedShrinks
<1>5. RefusedOnlyWhenBusy'
  BY <1>2, <1>3, NobodyRefused
<1>6. QED BY <1>2, <1>4, <1>5

\* Time ends windows, and the key with what was in it.
LEMMA TickStep ==
  ASSUME LimiterInv, Tick
  PROVE  LimiterInv'
<1> USE DEF LimiterInv
<1>1. /\ now \in Nat /\ now' = now + 1 /\ UNCHANGED <<stage, stamp, answered>>
      /\ \/ log' = {} /\ deadline' = None /\ vanished' = vanished \cup log
         \/ UNCHANGED <<log, deadline, vanished>>
  BY DEF Tick, TypeOK
<1>2. TypeOK'
  BY <1>1 DEF TypeOK
<1>3. ASSUME NEW a \in Attempts
      PROVE  TimesOK(a)'
  <2>1. stamp[a] # None => stamp[a] \in Nat
    BY DEF TypeOK
  <2>2. answered[a] # None => answered[a] \in Nat
    BY DEF TypeOK
  <2>3. TimesOK(a)
    OBVIOUS
  <2>4. QED BY <1>1, <2>1, <2>2, <2>3 DEF TimesOK
<1>4. LogKept'
  <2> SUFFICES ASSUME NEW b \in Attempts, Logged(b)', b \notin vanished', now' < stamp'[b] + Window
               PROVE  b \in log'
    BY DEF LogKept
  <2>1. Logged(b) /\ b \notin vanished /\ stamp[b] \in Nat
    BY <1>1, Times DEF Logged
  <2>2. now < stamp[b] + Window
    BY <1>1, <2>1, LimiterAssumption
  <2>3. b \in log
    BY <2>1, <2>2 DEF LogKept
  <2>4. QED BY <1>1, <2>3
<1>5. AtMostMax'
  <2>1. \A t \in Nat : Admitted(t)' \subseteq Admitted(t)
    BY <1>1 DEF Admitted
  <2>2. QED BY <2>1, AdmittedShrinks
<1>6. \A b, c \in Attempts : Busy(b, c) <=> Busy(b, c)'
  BY <1>1 DEF Busy
<1>7. LogIsBusy'
  BY <1>1, <1>6 DEF LogIsBusy, TypeOK
<1>8. RefusedOnlyWhenBusy'
  BY <1>1, <1>6, NobodyRefused
<1>9. DeadlineIsComing'
  BY <1>1 DEF DeadlineIsComing
<1>10. QED BY <1>1, <1>2, <1>3, <1>4, <1>5, <1>7, <1>8, <1>9

\* Whatever the order of the commands, what a live attempt logged stays in the log for a
\* window, what is in the log was under way since, and those admitted are within the limit.
THEOREM LimiterInvariant == Spec => []LimiterInv
<1>1. LimiterInv /\ [Next]_vars => LimiterInv'
  <2> SUFFICES ASSUME LimiterInv, [Next]_vars PROVE LimiterInv'
    OBVIOUS
  <2>1. CASE UNCHANGED vars
    <3>1. \A t \in Nat : Admitted(t)' = Admitted(t)
      BY <2>1 DEF vars, Admitted
    <3>2. QED
      BY <2>1, <3>1 DEF vars, LimiterInv, TypeOK, TimesOK, LogKept, Logged, AtMostMax,
         LogIsBusy, Busy, RefusedOnlyWhenBusy, DeadlineIsComing
  <2>2. QED
    BY <2>1, BeginStep, ZRemStep, ZAddStep, PExpireStep, ZCardStep, CrashStep, TickStep
    DEF Next, Consume
<1>2. QED BY <1>1, InitLimiter, PTL DEF Spec

-----------------------------------------------------------------------------
\* In no interval of the length of the window are more attempts admitted than the
\* limit, for any number of attempts whose commands interleave in any way and take any
\* time (redis-rate-limiter.ts, consume).
THEOREM LimitHolds == Spec => []MaxPerInterval
<1>1. LimiterInv => MaxPerInterval
  <2> SUFFICES ASSUME LimiterInv, NEW first \in Attempts, stamp[first] # None
               PROVE  Cardinality(Admitted(stamp[first])) <= Max
    BY DEF MaxPerInterval, Admitted
  <2>1. stamp[first] \in Nat
    BY DEF LimiterInv, TypeOK
  <2>2. QED BY <2>1 DEF LimiterInv, AtMostMax
<1>2. QED BY <1>1, LimiterInvariant, PTL

\* Nobody is refused unless more than the limit were under way within the window before
\* or since: what an attempt counts after its ZREM is never older.
THEOREM RefusalsAreJustified == Spec => []RefusedOnlyWhenBusy
<1>1. LimiterInv => RefusedOnlyWhenBusy
  BY DEF LimiterInv
<1>2. QED BY <1>1, LimiterInvariant, PTL

\* A key nobody uses has a time to live, unless an attempt crashed before it gave it one.
THEOREM KeysExpire == Spec => []IdleKeysExpire
<1>1. LimiterInv => IdleKeysExpire
  BY DEF LimiterInv, DeadlineIsComing, IdleKeysExpire, Running
<1>2. QED BY <1>1, LimiterInvariant, PTL
=============================================================================
