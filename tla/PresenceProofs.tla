--------------------------- MODULE PresenceProofs ---------------------------
(***************************************************************************)
(* Proofs about Presence, for any number of sockets and instances.         *)
(***************************************************************************)
EXTENDS Presence, TLAPS

-----------------------------------------------------------------------------
(* The inductive invariants.  They speak of the commands under way by place. *)

At(i, n, op, c) == n \in DOMAIN wire[i] /\ wire[i][n] = Command(op, c)
Has(i, op, c) == \E n \in Nat : At(i, n, op, c)
Follows(i, n, op, c) == \E m \in Nat : m > n /\ At(i, m, op, c)
Some(op) == \E i \in Instances, c \in Conns : Has(i, op, c)

Beats == {"beat.hset", "beat.expire"}
HSets == {"online.hset", "beat.hset"}

\* Only a socket that has closed is being removed.
RemovedWhenClosed ==
  \A c \in Conns, i \in Instances : Has(i, "offline.hdel", c) => home[c] = None

\* A socket that is open is in the hash or on its way to it, unless the key expired.
EnteredInv ==
  "silence" \notin happened =>
    \A c \in Conns : home[c] # None => c \in fields \/ Has(home[c], "online.hset", c)

\* Whatever enters a socket in the hash is sent by the instance of the socket while
\* it is open, and so before its removal: redisPublisher keeps the order.
LeftInv ==
  "crash" \notin happened =>
    /\ \A i \in Instances, c \in Conns, op \in HSets : \A n \in Nat :
         At(i, n, op, c) => home[c] = i \/ Follows(i, n, "offline.hdel", c)
    /\ \A c \in fields : home[c] # None \/ \E i \in Instances : Has(i, "offline.hdel", c)

\* Undisturbed, opening and closing occupy one connection at a time.
OneWire ==
  \A i, j \in Instances, c, d \in Conns, o, p \in Commands \ Beats :
    Has(i, o, c) /\ Has(j, p, d) => i = j

\* That the user is online is announced last, or will be.
OnlineIsLast ==
  \/ Some("online.expire")
  \/ \E i \in Instances, c \in Conns : \E n \in Nat :
       /\ At(i, n, "online.publish", c)
       /\ \A d \in Conns : ~ Follows(i, n, "offline.publish", d)
  \/ announced /\ ~ Some("offline.publish")

\* While somebody is open the last event is that.
OpenSaid ==
  \A c \in Conns : home[c] # None =>
    Has(home[c], "online.hset", c) \/ (c \in fields /\ OnlineIsLast)

\* Once nobody is left in the hash, all that says otherwise is followed by somebody
\* who looks, and announces the end.
ClosedSaid ==
  fields = {} =>
    /\ announced => Some("offline.hlen") \/ Some("offline.publish")
    /\ \A i \in Instances, c \in Conns : \A n \in Nat :
         At(i, n, "online.publish", c) =>
           Some("offline.hlen") \/ \E d \in Conns : Follows(i, n, "offline.publish", d)
    /\ \A i \in Instances, c \in Conns : \A n \in Nat :
         At(i, n, "online.expire", c) => \E d \in Conns : Follows(i, n, "offline.hlen", d)

SaidInv == happened = {} => OneWire /\ OpenSaid /\ ClosedSaid

\* A hash without fields is no key.
LivesWithFields == ttl => fields # {}

PresenceInv ==
  TypeOK /\ RemovedWhenClosed /\ EnteredInv /\ LeftInv /\ SaidInv /\ LivesWithFields

-----------------------------------------------------------------------------
(* What a step does to the commands under way                              *)

\* A command is at a place of the connection.
LEMMA Places ==
  ASSUME TypeOK, NEW i \in Instances
  PROVE  \A n, op, c : At(i, n, op, c) =>
           n \in Nat /\ 1 <= n /\ n <= Len(wire[i]) /\ c \in Conns /\ op \in Commands
<1>1. wire[i] \in Seq([op : Commands, conn : Conns])
  BY DEF TypeOK
<1>2. ASSUME NEW n, NEW op, NEW c, At(i, n, op, c)
      PROVE  n \in Nat /\ 1 <= n /\ n <= Len(wire[i]) /\ c \in Conns /\ op \in Commands
  <2>1. n \in 1..Len(wire[i]) /\ wire[i][n] = [op |-> op, conn |-> c]
    BY <1>1, <1>2 DEF At, Command
  <2>2. wire[i][n] \in [op : Commands, conn : Conns]
    BY <1>1, <2>1
  <2>3. QED BY <1>1, <2>1, <2>2
<1>3. QED BY <1>2

\* What is sent comes last.
LEMMA Sent ==
  ASSUME TypeOK, NEW i \in Instances, NEW op \in Commands, NEW c \in Conns,
         SendCommand(i, op, c)
  PROVE  /\ wire' \in [Instances -> Seq([op : Commands, conn : Conns])]
         /\ Len(wire[i]) \in Nat
         /\ \A j \in Instances : \A n, o, d :
              At(j, n, o, d)' <=>
                \/ At(j, n, o, d)
                \/ j = i /\ n = Len(wire[i]) + 1 /\ o = op /\ d = c
<1> DEFINE S == [op : Commands, conn : Conns]
<1>1. wire \in [Instances -> Seq(S)] /\ Command(op, c) \in S
  BY DEF TypeOK, Command
<1>2. wire' = [wire EXCEPT ![i] = Append(@, Command(op, c))]
  BY DEF SendCommand
<1>3. wire[i] \in Seq(S) /\ wire'[i] = Append(wire[i], Command(op, c))
  BY <1>1, <1>2
<1>4. /\ Len(wire[i]) \in Nat /\ DOMAIN wire[i] = 1..Len(wire[i])
      /\ DOMAIN wire'[i] = 1..(Len(wire[i]) + 1)
      /\ wire'[i][Len(wire[i]) + 1] = Command(op, c)
      /\ \A n \in 1..Len(wire[i]) : wire'[i][n] = wire[i][n]
  BY <1>1, <1>3
<1>5. \A o, d : Command(o, d) = Command(op, c) <=> o = op /\ d = c
  <2>1. ASSUME NEW o, NEW d, Command(o, d) = Command(op, c) PROVE o = op /\ d = c
    <3>1. Command(o, d).op = Command(op, c).op /\ Command(o, d).conn = Command(op, c).conn
      BY <2>1
    <3>2. QED BY <3>1 DEF Command
  <2>2. QED BY <2>1
<1>6. wire' \in [Instances -> Seq(S)]
  <2>1. Append(wire[i], Command(op, c)) \in Seq(S)
    BY <1>1, <1>3
  <2>2. QED BY <1>1, <1>2, <2>1
<1>7. ASSUME NEW j \in Instances, NEW n, NEW o, NEW d
      PROVE  At(j, n, o, d)' <=>
                \/ At(j, n, o, d)
                \/ j = i /\ n = Len(wire[i]) + 1 /\ o = op /\ d = c
  <2>1. CASE j # i
    BY <1>1, <1>2, <2>1 DEF At
  <2>2. CASE j = i
    <3>1. At(j, n, o, d)' <=> n \in 1..(Len(wire[i]) + 1) /\ wire'[i][n] = Command(o, d)
      BY <1>4, <2>2 DEF At
    <3>2. At(j, n, o, d) <=> n \in 1..Len(wire[i]) /\ wire[i][n] = Command(o, d)
      BY <1>4, <2>2 DEF At
    <3>3. n \in 1..(Len(wire[i]) + 1) <=> n \in 1..Len(wire[i]) \/ n = Len(wire[i]) + 1
      BY <1>4
    <3>4. Len(wire[i]) + 1 \notin 1..Len(wire[i])
      BY <1>4
    <3>5. QED BY <1>4, <1>5, <2>2, <3>1, <3>2, <3>3, <3>4
  <2>3. QED BY <2>1, <2>2
<1>8. QED BY <1>4, <1>6, <1>7

\* What is run comes first; what its reply sends comes last.
Popped(i, op, c, next) ==
  /\ wire' \in [Instances -> Seq([op : Commands, conn : Conns])]
  /\ Len(wire[i]) \in Nat \ {0}
  /\ At(i, 1, op, c)
  /\ \A o, d : At(i, 1, o, d) => o = op /\ d = c
  /\ \A j \in Instances \ {i} : \A n, o, d : At(j, n, o, d)' <=> At(j, n, o, d)
  /\ \A n \in Nat : \A o, d :
       At(i, n, o, d)' <=>
         (n >= 1 /\ At(i, n + 1, o, d)) \/ (n = Len(wire[i]) /\ next = <<Command(o, d)>>)
LEMMA Ran ==
  ASSUME TypeOK, NEW i \in Instances, NEW op \in Commands, NEW c \in Conns,
         NEW next \in Seq([op : Commands, conn : Conns]), Len(next) <= 1,
         Run(i, op, c, next)
  PROVE  Popped(i, op, c, next)
<1> DEFINE S == [op : Commands, conn : Conns]
           w == wire[i]
<1>1. wire \in [Instances -> Seq(S)] /\ w \in Seq(S) /\ w # <<>>
  BY DEF TypeOK, Run
<1>2. wire' = [wire EXCEPT ![i] = Tail(w) \o next] /\ Head(w) = Command(op, c)
  BY <1>1 DEF Run
<1>3. Len(w) \in Nat \ {0} /\ DOMAIN w = 1..Len(w) /\ Head(w) = w[1]
  BY <1>1
<1>4. /\ Tail(w) \in Seq(S) /\ Len(Tail(w)) = Len(w) - 1
      /\ \A n \in 1..(Len(w) - 1) : Tail(w)[n] = w[n + 1]
  BY <1>1, <1>3
<1>5. wire'[i] = Tail(w) \o next /\ wire'[i] \in Seq(S)
  BY <1>1, <1>2, <1>4
<1>6. wire' \in [Instances -> Seq(S)]
  BY <1>1, <1>2, <1>5
<1>7. \A o, d, p, e : Command(o, d) = Command(p, e) <=> o = p /\ d = e
  <2>1. ASSUME NEW o, NEW d, NEW p, NEW e, Command(o, d) = Command(p, e) PROVE o = p /\ d = e
    <3>1. Command(o, d).op = Command(p, e).op /\ Command(o, d).conn = Command(p, e).conn
      BY <2>1
    <3>2. QED BY <3>1 DEF Command
  <2>2. QED BY <2>1
<1>8. At(i, 1, op, c) /\ \A o, d : At(i, 1, o, d) => o = op /\ d = c
  BY <1>2, <1>3, <1>7 DEF At
<1>9. \A j \in Instances \ {i} : \A n, o, d : At(j, n, o, d)' <=> At(j, n, o, d)
  BY <1>1, <1>2 DEF At
<1>10. Len(next) \in Nat /\ DOMAIN wire'[i] = 1..(Len(w) - 1 + Len(next))
  BY <1>4, <1>5
<1>11. \A n \in 1..(Len(w) - 1) : wire'[i][n] = w[n + 1]
  BY <1>3, <1>4, <1>5
<1>12. ASSUME NEW n \in Nat, NEW o, NEW d
       PROVE  At(i, n, o, d)' <=>
                \/ n >= 1 /\ At(i, n + 1, o, d)
                \/ n = Len(wire[i]) /\ next = <<Command(o, d)>>
  <2>1. At(i, n, o, d)' <=> n \in 1..(Len(w) - 1 + Len(next)) /\ wire'[i][n] = Command(o, d)
    BY <1>10 DEF At
  <2>2. At(i, n + 1, o, d) <=> n + 1 \in 1..Len(w) /\ w[n + 1] = Command(o, d)
    BY <1>3 DEF At
  <2>3. CASE n >= 1 /\ n <= Len(w) - 1
    BY <1>3, <1>10, <1>11, <2>1, <2>2, <2>3
  <2>4. CASE ~ (n >= 1 /\ n <= Len(w) - 1)
    <3>1. ~ (n >= 1 /\ At(i, n + 1, o, d))
      BY <1>3, <2>2, <2>4
    <3>2. n \in 1..(Len(w) - 1 + Len(next)) <=> Len(next) = 1 /\ n = Len(w)
      <4>1. Len(next) = 0 \/ Len(next) = 1
        <5>1. \A x \in Nat : x <= 1 => x = 0 \/ x = 1
          OBVIOUS
        <5>2. QED BY <1>10, <5>1, Zenon
      <4>2. n = 0 \/ n >= Len(w)
        BY <1>3, <2>4
      <4>3. CASE Len(next) = 0
        <5>1. Len(w) - 1 + Len(next) = Len(w) - 1
          BY <1>3, <4>3
        <5>2. QED BY <1>3, <4>2, <4>3, <5>1
      <4>4. CASE Len(next) = 1
        <5>1. Len(w) - 1 + Len(next) = Len(w)
          BY <1>3, <4>4
        <5>2. QED BY <1>3, <4>2, <4>4, <5>1
      <4>5. QED BY <4>1, <4>3, <4>4
    <3>3. ASSUME Len(next) = 1 PROVE next = <<next[1]>> /\ wire'[i][Len(w)] = next[1]
      <4>1. next = <<next[1]>>
        BY <3>3
      <4>2. wire'[i][Len(w)] = next[1]
        <5>1. Len(w) = Len(Tail(w)) + 1 /\ Len(Tail(w)) \in Nat
          BY <1>3, <1>4
        <5>2. (Tail(w) \o next)[Len(Tail(w)) + 1] = next[1]
          BY <1>4, <3>3, <5>1
        <5>3. QED BY <1>5, <5>1, <5>2
      <4>3. QED BY <4>1, <4>2
    <3>4. next = <<Command(o, d)>> <=> Len(next) = 1 /\ next[1] = Command(o, d)
      <4>1. Len(<<Command(o, d)>>) = 1 /\ <<Command(o, d)>>[1] = Command(o, d)
        OBVIOUS
      <4>2. QED BY <3>3, <4>1
    <3>5. QED BY <2>1, <3>1, <3>2, <3>3, <3>4
  <2>5. QED BY <2>3, <2>4
<1>13. QED BY <1>3, <1>6, <1>8, <1>9, <1>12 DEF Popped

\* The queue of i, in one step: the commands "sent" come last, the first one is
\* "done" and gone, and all others keep what follows them.
Keeps(i, j, k, n, sent) ==
  \A op, c : Follows(j, n, op, c)' <=> Follows(j, k, op, c) \/ (j = i /\ <<op, c>> \in sent)
Queued(i, sent, done) ==
  /\ wire' \in [Instances -> Seq([op : Commands, conn : Conns])]
  /\ \A j \in Instances, n \in Nat : \A op, c : At(j, n, op, c)' =>
       \/ j = i /\ <<op, c>> \in sent
       \/ \E k \in Nat : At(j, k, op, c) /\ Keeps(i, j, k, n, sent)
  /\ \A j \in Instances, k \in Nat : \A op, c : At(j, k, op, c) =>
       \/ j = i /\ k = 1 /\ <<op, c>> \in done
       \/ \E n \in Nat : At(j, n, op, c)' /\ Keeps(i, j, k, n, sent)
  /\ \A op, c : <<op, c>> \in sent =>
       \E n \in Nat : At(i, n, op, c)' /\ \A p, d : ~ Follows(i, n, p, d)'
  /\ \A op, c : <<op, c>> \in done => At(i, 1, op, c)
  /\ \A p, d : At(i, 1, p, d) /\ done # {} => <<p, d>> \in done

LEMMA SentQueued ==
  ASSUME TypeOK, NEW i \in Instances, NEW op \in Commands, NEW c \in Conns,
         SendCommand(i, op, c)
  PROVE  Queued(i, {<<op, c>>}, {})
<1>0. PICK last \in Nat : last = Len(wire[i]) + 1
  BY Sent
<1>1. \A j \in Instances : \A n, o, d :
        At(j, n, o, d)' <=> At(j, n, o, d) \/ (j = i /\ n = last /\ o = op /\ d = c)
  BY <1>0, Sent
<1>2. \A n, o, d : At(i, n, o, d) => n \in Nat /\ n < last
  <2>1. Len(wire[i]) \in Nat
    BY Sent
  <2>2. QED BY <1>0, <2>1, Places
<1>3. ASSUME NEW j \in Instances, NEW n \in Nat, NEW o, NEW d, At(j, n, o, d)
      PROVE  At(j, n, o, d)' /\ Keeps(i, j, n, n, {<<op, c>>})
  <2>1. ASSUME NEW p, NEW e
        PROVE  Follows(j, n, p, e)' <=> Follows(j, n, p, e) \/ (j = i /\ p = op /\ e = c)
    BY <1>1, <1>2, <1>3 DEF Follows
  <2>2. QED BY <1>1, <1>3, <2>1 DEF Keeps
<1>4. At(i, last, op, c)' /\ \A p, d : ~ Follows(i, last, p, d)'
  BY <1>1, <1>2 DEF Follows
<1>5. ASSUME NEW j \in Instances, NEW n \in Nat, NEW o, NEW d, At(j, n, o, d)'
      PROVE  \/ j = i /\ <<o, d>> \in {<<op, c>>}
             \/ \E k \in Nat : At(j, k, o, d) /\ Keeps(i, j, k, n, {<<op, c>>})
  BY <1>1, <1>3, <1>5
<1>6. wire' \in [Instances -> Seq([op : Commands, conn : Conns])]
  BY Sent
<1>7. \A o, d : <<o, d>> \in {<<op, c>>} =>
        \E n \in Nat : At(i, n, o, d)' /\ \A p, e : ~ Follows(i, n, p, e)'
  BY <1>4
<1>8. \A j \in Instances, k \in Nat : \A o, d : At(j, k, o, d) =>
        \E n \in Nat : At(j, n, o, d)' /\ Keeps(i, j, k, n, {<<op, c>>})
  BY <1>3
<1>9. QED BY <1>5, <1>6, <1>7, <1>8 DEF Queued

LEMMA RanQueued ==
  ASSUME TypeOK, NEW i \in Instances, NEW op \in Commands, NEW c \in Conns,
         NEW next \in Seq([op : Commands, conn : Conns]), Len(next) <= 1,
         Run(i, op, c, next),
         NEW sent, \A o, d : <<o, d>> \in sent <=> next = <<Command(o, d)>>
  PROVE  Queued(i, sent, {<<op, c>>})
<1> DEFINE shift(j) == IF j = i THEN 1 ELSE 0
<1>p. Popped(i, op, c, next)
  BY Ran
<1>0. PICK last \in Nat \ {0} : last = Len(wire[i])
  BY <1>p DEF Popped
<1>a. /\ wire' \in [Instances -> Seq([op : Commands, conn : Conns])]
      /\ At(i, 1, op, c)
      /\ \A o, d : At(i, 1, o, d) => o = op /\ d = c
      /\ \A j \in Instances \ {i} : \A n, o, d : At(j, n, o, d)' <=> At(j, n, o, d)
  BY <1>p DEF Popped
<1>b. \A n \in Nat : \A o, d :
        At(i, n, o, d)' <=>
          (n >= 1 /\ At(i, n + 1, o, d)) \/ (n = last /\ next = <<Command(o, d)>>)
  BY <1>p, <1>0 DEF Popped
<1>1. /\ \A j \in Instances \ {i} : \A n, o, d : At(j, n, o, d)' <=> At(j, n, o, d)
      /\ \A n \in Nat : \A o, d :
           At(i, n, o, d)' <=>
             (n >= 1 /\ At(i, n + 1, o, d)) \/ (n = last /\ <<o, d>> \in sent)
  BY <1>a, <1>b
<1>2. \A j \in Instances : \A n, o, d : At(j, n, o, d) => n \in Nat /\ n >= 1
  BY Places
<1>3. \A n, o, d : At(i, n, o, d) => n <= last
  BY <1>0, Places
<1>4. ASSUME NEW j \in Instances, NEW n \in Nat, NEW o, NEW d, n >= 1,
             At(j, n + shift(j), o, d)
      PROVE  At(j, n, o, d)' /\ Keeps(i, j, n + shift(j), n, sent)
  <2>1. CASE j # i
    <3>1. n + shift(j) = n
      BY <2>1
    <3>2. ASSUME NEW p, NEW e
          PROVE  Follows(j, n, p, e)' <=> Follows(j, n, p, e)
      BY <1>1, <2>1 DEF Follows
    <3>3. QED BY <1>1, <1>4, <2>1, <3>1, <3>2 DEF Keeps
  <2>2. CASE j = i
    <3>1. n + shift(j) = n + 1 /\ n + 1 <= last
      BY <1>3, <1>4, <2>2
    <3>2. ASSUME NEW p, NEW e
          PROVE  Follows(i, n, p, e)' <=> Follows(i, n + 1, p, e) \/ <<p, e>> \in sent
      <4>1. ASSUME NEW m \in Nat, m > n, At(i, m, p, e)'
            PROVE  Follows(i, n + 1, p, e) \/ <<p, e>> \in sent
        <5>1. (m >= 1 /\ At(i, m + 1, p, e)) \/ (m = last /\ <<p, e>> \in sent)
          BY <1>1, <4>1
        <5>2. m + 1 \in Nat /\ m + 1 > n + 1
          BY <4>1
        <5>3. QED BY <5>1, <5>2 DEF Follows
      <4>2. ASSUME NEW m \in Nat, m > n + 1, At(i, m, p, e)
            PROVE  Follows(i, n, p, e)'
        <5>1. PICK l \in Nat : l = m - 1
          BY <4>2
        <5>2. l > n /\ l >= 1 /\ l + 1 = m
          BY <1>4, <4>2, <5>1
        <5>3. At(i, l, p, e)'
          BY <1>1, <4>2, <5>2
        <5>4. QED BY <5>2, <5>3 DEF Follows
      <4>3. ASSUME <<p, e>> \in sent PROVE Follows(i, n, p, e)'
        <5>1. At(i, last, p, e)' /\ last > n /\ last \in Nat
          BY <1>1, <3>1, <4>3
        <5>2. QED BY <5>1 DEF Follows
      <4>4. Follows(i, n, p, e)' <=> \E m \in Nat : m > n /\ At(i, m, p, e)'
        BY DEF Follows
      <4>5. Follows(i, n + 1, p, e) <=> \E m \in Nat : m > n + 1 /\ At(i, m, p, e)
        BY DEF Follows
      <4>6. QED BY <4>1, <4>2, <4>3, <4>4, <4>5
    <3>3. QED BY <1>1, <1>4, <2>2, <3>1, <3>2 DEF Keeps
  <2>3. QED BY <2>1, <2>2
<1> HIDE DEF shift
<1>5. ASSUME NEW j \in Instances, NEW n \in Nat, NEW o, NEW d, At(j, n, o, d)'
      PROVE  \/ j = i /\ <<o, d>> \in sent
             \/ \E k \in Nat : At(j, k, o, d) /\ Keeps(i, j, k, n, sent)
  <2>1. (j = i /\ <<o, d>> \in sent) \/ (n >= 1 /\ At(j, n + shift(j), o, d))
    BY <1>1, <1>2, <1>5 DEF shift
  <2>2. n + shift(j) \in Nat
    BY DEF shift
  <2>3. QED BY <1>4, <2>1, <2>2
<1>6. ASSUME NEW j \in Instances, NEW k \in Nat, NEW o, NEW d, At(j, k, o, d)
      PROVE  \/ j = i /\ k = 1 /\ <<o, d>> \in {<<op, c>>}
             \/ \E n \in Nat : At(j, n, o, d)' /\ Keeps(i, j, k, n, sent)
  <2>1. CASE j = i /\ k = 1
    BY <1>a, <1>6, <2>1
  <2>2. CASE ~ (j = i /\ k = 1)
    <3>1. k - shift(j) \in Nat /\ k - shift(j) >= 1 /\ (k - shift(j)) + shift(j) = k
      BY <1>2, <1>6, <2>2 DEF shift
    <3>2. QED BY <1>4, <1>6, <3>1
  <2>3. QED BY <2>1, <2>2
<1>7. ASSUME NEW o, NEW d, <<o, d>> \in sent
      PROVE  \E n \in Nat : At(i, n, o, d)' /\ \A p, e : ~ Follows(i, n, p, e)'
  <2>1. At(i, last, o, d)'
    BY <1>1, <1>7
  <2>2. ASSUME NEW p, NEW e, NEW m \in Nat, m > last PROVE ~ At(i, m, p, e)'
    <3>1. m # last /\ ~ (m + 1 <= last)
      BY <1>0, <2>2
    <3>2. ~ At(i, m + 1, p, e)
      BY <1>3, <3>1
    <3>3. QED BY <1>1, <3>1, <3>2
  <2>3. \A p, e : ~ Follows(i, last, p, e)'
    BY <2>2 DEF Follows
  <2>4. QED BY <1>1, <2>1, <2>3
<1>8. /\ \A o, d : <<o, d>> \in {<<op, c>>} => At(i, 1, o, d)
      /\ \A o, d : At(i, 1, o, d) => <<o, d>> \in {<<op, c>>}
  BY <1>a
<1>9. QED BY <1>a, <1>5, <1>6, <1>7, <1>8 DEF Queued

Moved(i, sent, done) ==
  /\ \A j \in Instances : \A op, c :
       Has(j, op, c)' => Has(j, op, c) \/ (j = i /\ <<op, c>> \in sent)
  /\ \A j \in Instances : \A op, c :
       Has(j, op, c) => Has(j, op, c)' \/ (j = i /\ <<op, c>> \in done)
  /\ \A op, c : <<op, c>> \in sent => Has(i, op, c)'
  /\ \A op, c : <<op, c>> \in done => Has(i, op, c)
LEMMA QueuedHas ==
  ASSUME NEW i \in Instances, NEW sent, NEW done, Queued(i, sent, done)
  PROVE  Moved(i, sent, done)
<1>1. ASSUME NEW j \in Instances, NEW op, NEW c, Has(j, op, c)'
      PROVE  Has(j, op, c) \/ (j = i /\ <<op, c>> \in sent)
  <2>1. PICK n \in Nat : At(j, n, op, c)'
    BY <1>1 DEF Has
  <2>2. QED BY <2>1 DEF Has, Queued
<1>2. ASSUME NEW j \in Instances, NEW op, NEW c, Has(j, op, c)
      PROVE  Has(j, op, c)' \/ (j = i /\ <<op, c>> \in done)
  <2>1. PICK n \in Nat : At(j, n, op, c)
    BY <1>2 DEF Has
  <2>2. QED BY <2>1 DEF Has, Queued
<1>3. \A op, c : <<op, c>> \in sent => Has(i, op, c)'
  BY DEF Has, Queued
<1>4. \A op, c : <<op, c>> \in done => Has(i, op, c)
  BY DEF Has, Queued
<1>5. QED BY <1>1, <1>2, <1>3, <1>4 DEF Moved

\* What is at a place, or after one, is somewhere.
LEMMA Somewhere ==
  /\ \A i, n, op, c : n \in Nat /\ At(i, n, op, c) => Has(i, op, c)
  /\ \A i, n, op, c : Follows(i, n, op, c) => Has(i, op, c)
BY DEF Has, Follows
LEMMA SomewhereThen ==
  /\ \A i, n, op, c : n \in Nat /\ At(i, n, op, c)' => Has(i, op, c)'
  /\ \A i, n, op, c : Follows(i, n, op, c)' => Has(i, op, c)'
BY DEF Has, Follows

LEMMA OfTheUser ==
  ASSUME TypeOK, NEW i \in Instances
  PROVE  /\ \A op, c : Has(i, op, c) => c \in Conns /\ op \in Commands
         /\ wire[i] = <<>> => \A op, c : ~ Has(i, op, c)
<1>1. \A op, c : Has(i, op, c) => c \in Conns /\ op \in Commands
  BY Places DEF Has
<1>2. ASSUME wire[i] = <<>> PROVE \A op, c : ~ Has(i, op, c)
  <2>1. Len(wire[i]) = 0
    BY <1>2
  <2>2. \A n \in Nat : \A op, c : ~ At(i, n, op, c)
    BY <2>1, Places
  <2>3. QED BY <2>2 DEF Has
<1>3. QED BY <1>1, <1>2

-----------------------------------------------------------------------------
(* What each action sends and has done                                     *)

LEMMA RanAlone ==
  ASSUME TypeOK, NEW i \in Instances, NEW op \in Commands, NEW c \in Conns,
         Run(i, op, c, <<>>)
  PROVE  Queued(i, {}, {<<op, c>>})
<1>1. <<>> \in Seq([op : Commands, conn : Conns]) /\ Len(<<>>) <= 1
  OBVIOUS
<1>2. \A o, d : <<o, d>> \in {} <=> <<>> = <<Command(o, d)>>
  <2>1. \A o, d : Len(<<Command(o, d)>>) = 1 /\ Len(<<>>) = 0
    OBVIOUS
  <2>2. QED BY <2>1
<1>3. QED BY <1>1, <1>2, RanQueued

LEMMA RanAndSent ==
  ASSUME TypeOK, NEW i \in Instances, NEW op \in Commands, NEW c \in Conns,
         NEW p \in Commands, Run(i, op, c, <<Command(p, c)>>)
  PROVE  Queued(i, {<<p, c>>}, {<<op, c>>})
<1>1. <<Command(p, c)>> \in Seq([op : Commands, conn : Conns]) /\ Len(<<Command(p, c)>>) <= 1
  BY DEF Command
<1>2. \A o, d : <<o, d>> \in {<<p, c>>} <=> <<Command(p, c)>> = <<Command(o, d)>>
  <2>1. ASSUME NEW o, NEW d, <<Command(p, c)>> = <<Command(o, d)>> PROVE o = p /\ d = c
    <3>1. Command(p, c) = Command(o, d)
      BY <2>1
    <3>2. Command(p, c).op = Command(o, d).op /\ Command(p, c).conn = Command(o, d).conn
      BY <3>1
    <3>3. QED BY <3>2 DEF Command
  <2>2. QED BY <2>1
<1>3. QED BY <1>1, <1>2, RanQueued

LEMMA Effects ==
  ASSUME TypeOK, NEW i \in Instances, NEW c \in Conns
  PROVE  /\ HSet(i, c) =>
              \/ Queued(i, {<<"online.expire", c>>}, {<<"online.hset", c>>})
              \/ Queued(i, {<<"beat.expire", c>>}, {<<"beat.hset", c>>})
         /\ Expire(i, c) =>
              \/ Queued(i, {<<"online.publish", c>>}, {<<"online.expire", c>>})
              \/ Queued(i, {}, {<<"beat.expire", c>>})
         /\ PublishOnline(i, c) => Queued(i, {}, {<<"online.publish", c>>})
         /\ HDel(i, c) =>
              \/ c \in fields /\ Queued(i, {<<"offline.hlen", c>>}, {<<"offline.hdel", c>>})
              \/ c \notin fields /\ Queued(i, {}, {<<"offline.hdel", c>>})
         /\ HLen(i, c) =>
              \/ fields = {} /\ Queued(i, {<<"offline.publish", c>>}, {<<"offline.hlen", c>>})
              \/ fields # {} /\ Queued(i, {}, {<<"offline.hlen", c>>})
         /\ PublishOffline(i, c) => Queued(i, {}, {<<"offline.publish", c>>})
<1> USE DEF Commands
<1>1. HSet(i, c) => \/ Queued(i, {<<"online.expire", c>>}, {<<"online.hset", c>>})
                    \/ Queued(i, {<<"beat.expire", c>>}, {<<"beat.hset", c>>})
  BY RanAndSent DEF HSet
<1>2. Expire(i, c) => \/ Queued(i, {<<"online.publish", c>>}, {<<"online.expire", c>>})
                      \/ Queued(i, {}, {<<"beat.expire", c>>})
  BY RanAndSent, RanAlone DEF Expire
<1>3. PublishOnline(i, c) => Queued(i, {}, {<<"online.publish", c>>})
  BY RanAlone DEF PublishOnline
<1>4. HDel(i, c) =>
        \/ c \in fields /\ Queued(i, {<<"offline.hlen", c>>}, {<<"offline.hdel", c>>})
        \/ c \notin fields /\ Queued(i, {}, {<<"offline.hdel", c>>})
  <2>1. CASE c \in fields
    BY <2>1, RanAndSent DEF HDel
  <2>2. CASE c \notin fields
    BY <2>2, RanAlone DEF HDel
  <2>3. QED BY <2>1, <2>2
<1>5. HLen(i, c) =>
        \/ fields = {} /\ Queued(i, {<<"offline.publish", c>>}, {<<"offline.hlen", c>>})
        \/ fields # {} /\ Queued(i, {}, {<<"offline.hlen", c>>})
  <2>1. CASE fields = {}
    BY <2>1, RanAndSent DEF HLen, Announces
  <2>2. CASE fields # {}
    BY <2>2, RanAlone DEF HLen, Announces
  <2>3. QED BY <2>1, <2>2
<1>6. PublishOffline(i, c) => Queued(i, {}, {<<"offline.publish", c>>})
  BY RanAlone DEF PublishOffline
<1>7. QED BY <1>1, <1>2, <1>3, <1>4, <1>5, <1>6

-----------------------------------------------------------------------------
(* Types, and the time to live                                             *)

LEMMA TypeStep == TypeOK /\ [Next]_vars => TypeOK'
<1> SUFFICES ASSUME TypeOK, [Next]_vars PROVE TypeOK'
  OBVIOUS
<1> DEFINE Wires == [Instances -> Seq([op : Commands, conn : Conns])]
<1>0. ASSUME wire' \in Wires, home' \in [Conns -> Instances \cup {None}],
             fields' \in SUBSET Conns, ttl' \in BOOLEAN, announced' \in BOOLEAN,
             happened' \in SUBSET Disturbances
      PROVE  TypeOK'
  BY <1>0 DEF TypeOK
<1>1. ASSUME NEW condition, NEW d \in Disturbances, Note(condition, d)
      PROVE  happened' \in SUBSET Disturbances
  BY <1>1 DEF Note, TypeOK
<1>2. \A i \in Instances : \A sent, done : Queued(i, sent, done) => wire' \in Wires
  BY DEF Queued
<1>3. CASE UNCHANGED vars
  BY <1>3 DEF vars, TypeOK
<1>4. ASSUME NEW c \in Conns, Connect(c) PROVE TypeOK'
  <2>1. PICK i \in Instances :
          /\ home' = [home EXCEPT ![c] = i]
          /\ SendCommand(i, "online.hset", c)
          /\ Note(Elsewhere(i), "move")
    BY <1>4 DEF Connect
  <2>2. wire' \in Wires
    BY <2>1, Sent DEF Commands
  <2>3. home' \in [Conns -> Instances \cup {None}]
    BY <2>1 DEF TypeOK
  <2>4. QED BY <1>4, <2>1, <2>2, <2>3 DEF Connect, TypeOK, Note, Disturbances
<1>5. ASSUME NEW c \in Conns, Disconnect(c) PROVE TypeOK'
  <2>1. home[c] \in Instances /\ home' \in [Conns -> Instances \cup {None}]
    BY <1>5 DEF Disconnect, TypeOK
  <2>2. wire' \in Wires
    BY <1>5, <2>1, Sent DEF Disconnect, Commands
  <2>3. QED BY <1>5, <2>1, <2>2 DEF Disconnect, TypeOK, Note, Disturbances
<1>6. ASSUME NEW c \in Conns, SendBeat(c) PROVE TypeOK'
  <2>1. home[c] \in Instances
    BY <1>6 DEF SendBeat, TypeOK
  <2>2. wire' \in Wires
    BY <1>6, <2>1, Sent DEF SendBeat, Commands
  <2>3. QED BY <1>6, <2>2 DEF SendBeat, TypeOK
<1>7. ASSUME NEW i \in Instances, NEW c \in Conns, HSet(i, c) PROVE TypeOK'
  <2>1. wire' \in Wires
    BY <1>2, <1>7, Effects
  <2>2. QED BY <1>7, <2>1 DEF HSet, SetFields, TypeOK
<1>8. ASSUME NEW i \in Instances, NEW c \in Conns, Expire(i, c) PROVE TypeOK'
  <2>1. wire' \in Wires
    BY <1>2, <1>8, Effects
  <2>2. QED BY <1>8, <2>1 DEF Expire, TypeOK
<1>9. ASSUME NEW i \in Instances, NEW c \in Conns, PublishOnline(i, c) PROVE TypeOK'
  <2>1. wire' \in Wires
    BY <1>2, <1>9, Effects
  <2>2. QED BY <1>9, <2>1 DEF PublishOnline, TypeOK
<1>10. ASSUME NEW i \in Instances, NEW c \in Conns, HDel(i, c) PROVE TypeOK'
  <2>1. wire' \in Wires
    BY <1>2, <1>10, Effects
  <2>2. QED BY <1>10, <2>1 DEF HDel, SetFields, Without, TypeOK
<1>11. ASSUME NEW i \in Instances, NEW c \in Conns, HLen(i, c) PROVE TypeOK'
  <2>1. wire' \in Wires
    BY <1>2, <1>11, Effects
  <2>2. QED BY <1>11, <2>1 DEF HLen, TypeOK
<1>12. ASSUME NEW i \in Instances, NEW c \in Conns, PublishOffline(i, c) PROVE TypeOK'
  <2>1. wire' \in Wires
    BY <1>2, <1>12, Effects
  <2>2. QED BY <1>12, <2>1 DEF PublishOffline, TypeOK
<1>13. CASE Lapse
  BY <1>13 DEF Lapse, TypeOK, Note, Disturbances
<1>14. ASSUME NEW i \in Instances, CrashInstance(i) PROVE TypeOK'
  <2>1. wire' \in Wires
    <3>1. <<>> \in Seq([op : Commands, conn : Conns])
      OBVIOUS
    <3>2. QED BY <1>14, <3>1 DEF CrashInstance, TypeOK
  <2>2. home' \in [Conns -> Instances \cup {None}]
    BY <1>14 DEF CrashInstance, TypeOK
  <2>3. QED BY <1>14, <2>1, <2>2 DEF CrashInstance, TypeOK, Note, Disturbances
<1>15. QED
  BY <1>3, <1>4, <1>5, <1>6, <1>7, <1>8, <1>9, <1>10, <1>11, <1>12, <1>13, <1>14
  DEF Next, Redis

LEMMA LivesStep == TypeOK /\ LivesWithFields /\ [Next]_vars => LivesWithFields'
<1> SUFFICES ASSUME TypeOK, LivesWithFields, [Next]_vars PROVE LivesWithFields'
  OBVIOUS
<1> USE DEF LivesWithFields
<1>1. CASE UNCHANGED <<fields, ttl>>
  BY <1>1
<1>2. ASSUME NEW i \in Instances, NEW c \in Conns, HSet(i, c) PROVE LivesWithFields'
  BY <1>2 DEF HSet, SetFields
<1>3. ASSUME NEW i \in Instances, NEW c \in Conns, Expire(i, c) PROVE LivesWithFields'
  BY <1>3 DEF Expire
<1>4. ASSUME NEW i \in Instances, NEW c \in Conns, HDel(i, c) PROVE LivesWithFields'
  <2>1. fields' = Without(c) /\ ttl' = (ttl /\ Without(c) # {})
    BY <1>4 DEF HDel, SetFields
  <2>2. QED BY <2>1
<1>5. CASE Lapse
  BY <1>5 DEF Lapse
<1>6. QED
  BY <1>1, <1>2, <1>3, <1>4, <1>5
  DEF Next, Redis, vars, Connect, Disconnect, SendBeat, PublishOnline, HLen,
      PublishOffline, CrashInstance

-----------------------------------------------------------------------------
(* Entering the hash and leaving it                                        *)

EntryInv == TypeOK /\ RemovedWhenClosed /\ EnteredInv /\ LeftInv

\* What Redis runs for one socket leaves the others alone.
LEMMA EntryKept ==
  ASSUME EntryInv, NEW i \in Instances, NEW sent, NEW done, Queued(i, sent, done),
         UNCHANGED <<home, happened>>,
         fields' \in SUBSET Conns,
         \A op, c : <<op, c>> \in sent => op \notin HSets \cup {"offline.hdel"},
         \A c \in fields : home[c] # None => c \in fields',
         \A c : <<"online.hset", c>> \in done => c \in fields',
         \A c \in fields' : c \notin fields => \E op \in HSets : <<op, c>> \in done,
         \A c \in fields' : <<"offline.hdel", c>> \notin done
  PROVE  RemovedWhenClosed' /\ EnteredInv' /\ LeftInv'
<1> USE DEF EntryInv
<1>0. Moved(i, sent, done)
  BY QueuedHas
<1>1. RemovedWhenClosed'
  BY <1>0 DEF RemovedWhenClosed, Moved
<1>2. EnteredInv'
  <2> SUFFICES ASSUME "silence" \notin happened, NEW c \in Conns, home[c] # None
               PROVE  c \in fields' \/ Has(home[c], "online.hset", c)'
    BY DEF EnteredInv
  <2>1. c \in fields \/ Has(home[c], "online.hset", c)
    BY DEF EnteredInv
  <2>2. CASE c \in fields
    BY <2>2
  <2>3. CASE Has(home[c], "online.hset", c)
    <3>1. PICK j \in Instances : j = home[c]
      BY DEF TypeOK
    <3>2. Has(j, "online.hset", c)
      BY <2>3, <3>1
    <3>3. Has(j, "online.hset", c)' \/ <<"online.hset", c>> \in done
      BY <3>2, <1>0 DEF Moved
    <3>4. QED BY <3>1, <3>3
  <2>4. QED BY <2>1, <2>2, <2>3
<1>3. LeftInv'
  <2> SUFFICES ASSUME "crash" \notin happened PROVE LeftInv'
    BY DEF LeftInv
  <2>1. ASSUME NEW j \in Instances, NEW c \in Conns, NEW op \in HSets, NEW n \in Nat,
               At(j, n, op, c)'
        PROVE  home[c] = j \/ Follows(j, n, "offline.hdel", c)'
    <3>1. PICK k \in Nat : At(j, k, op, c) /\ Keeps(i, j, k, n, sent)
      BY <2>1 DEF Queued
    <3>2. home[c] = j \/ Follows(j, k, "offline.hdel", c)
      BY <3>1 DEF LeftInv
    <3>3. QED BY <3>1, <3>2 DEF Keeps
  <2>2. ASSUME NEW c \in fields', home[c] = None
        PROVE  \E j \in Instances : Has(j, "offline.hdel", c)'
    <3>1. CASE c \in fields
      <4>1. PICK j \in Instances : Has(j, "offline.hdel", c)
        BY <2>2, <3>1 DEF LeftInv
      <4>2. QED BY <4>1, <1>0 DEF Moved
    <3>2. CASE c \notin fields
      <4>1. PICK op \in HSets : <<op, c>> \in done
        BY <3>2
      <4>2. At(i, 1, op, c) /\ c \in Conns /\ i # None
        BY <4>1, PresenceAssumption DEF Queued
      <4>3. Follows(i, 1, "offline.hdel", c)
        BY <2>2, <4>2 DEF LeftInv
      <4>4. Has(i, "offline.hdel", c)
        BY <4>3, Somewhere
      <4>5. QED BY <4>4, <1>0 DEF Moved
    <3>3. QED BY <3>1, <3>2
  <2>3. QED BY <2>1, <2>2 DEF LeftInv
<1>4. QED BY <1>1, <1>2, <1>3

\* What an instance sends for a socket that is open, or that it has closed.
LEMMA EntrySent ==
  ASSUME EntryInv, TypeOK', NEW c \in Conns, Connect(c) \/ Disconnect(c) \/ SendBeat(c)
  PROVE  RemovedWhenClosed' /\ EnteredInv' /\ LeftInv'
<1> USE DEF EntryInv
<1>1. CASE Connect(c)
  <2>1. PICK i \in Instances : home' = [home EXCEPT ![c] = i] /\ SendCommand(i, "online.hset", c)
    BY <1>1 DEF Connect
  <2>2. Queued(i, {<<"online.hset", c>>}, {})
    BY <2>1, SentQueued DEF Commands
  <2>m. Moved(i, {<<"online.hset", c>>}, {})
    BY <2>2, QueuedHas
  <2>3. /\ fields' = fields /\ c \notin fields
        /\ \A j \in Instances : \A op : ~ Has(j, op, c)
        /\ happened \subseteq happened'
    <3>1. ASSUME NEW j \in Instances, NEW op PROVE ~ Has(j, op, c)
      <4>1. SUFFICES ASSUME NEW n \in Nat, At(j, n, op, c) PROVE FALSE
        BY DEF Has
      <4>2. n \in DOMAIN wire[j] /\ wire[j][n].conn = c
        BY <4>1 DEF At, Command
      <4>3. QED BY <1>1, <4>2 DEF Connect, Underway
    <3>2. QED BY <1>1, <3>1 DEF Connect, Note
  <2>4. home'[c] = i /\ \A d \in Conns : d # c => home'[d] = home[d]
    BY <2>1 DEF TypeOK
  <2>5. RemovedWhenClosed'
    BY <2>2, <2>3, <2>4, <2>m DEF RemovedWhenClosed, Moved
  <2>6. EnteredInv'
    <3> SUFFICES ASSUME "silence" \notin happened', NEW d \in Conns, home'[d] # None
                 PROVE  d \in fields' \/ Has(home[d], "online.hset", d)'
      BY DEF EnteredInv
    <3>1. PICK j \in Instances : j = home'[d]
      BY DEF TypeOK
    <3>2. CASE d = c
      <4>1. Has(i, "online.hset", c)'
        BY <2>2, <2>m DEF Moved
      <4>2. QED BY <2>4, <3>1, <3>2, <4>1
    <3>3. CASE d # c
      <4>1. d \in fields \/ Has(j, "online.hset", d)
        BY <2>3, <2>4, <3>1, <3>3 DEF EnteredInv
      <4>2. Has(j, "online.hset", d) => Has(j, "online.hset", d)'
        BY <2>2, <2>m DEF Moved
      <4>3. QED BY <2>3, <3>1, <4>1, <4>2
    <3>4. QED BY <3>2, <3>3
  <2>7. LeftInv'
    <3> SUFFICES ASSUME "crash" \notin happened' PROVE LeftInv'
      BY DEF LeftInv
    <3>0. LeftInv /\ "crash" \notin happened
      BY <2>3
    <3>1. ASSUME NEW j \in Instances, NEW d \in Conns, NEW op \in HSets, NEW n \in Nat,
                 At(j, n, op, d)'
          PROVE  home'[d] = j \/ Follows(j, n, "offline.hdel", d)'
      <4>1. CASE j = i /\ d = c
        BY <2>4, <4>1
      <4>2. CASE ~ (j = i /\ d = c)
        <5>1. PICK k \in Nat : At(j, k, op, d) /\ Keeps(i, j, k, n, {<<"online.hset", c>>})
          BY <2>2, <3>1, <4>2 DEF Queued
        <5>2. d # c
          BY <2>3, <5>1, Somewhere
        <5>3. home[d] = j \/ Follows(j, k, "offline.hdel", d)
          BY <3>0, <5>1 DEF LeftInv
        <5>4. QED BY <2>4, <5>1, <5>2, <5>3 DEF Keeps
      <4>3. QED BY <4>1, <4>2
    <3>2. ASSUME NEW d \in fields', home'[d] = None
          PROVE  \E j \in Instances : Has(j, "offline.hdel", d)'
      <4>1. d \in fields /\ d # c /\ d \in Conns
        BY <2>3, <3>2 DEF TypeOK
      <4>2. PICK j \in Instances : Has(j, "offline.hdel", d)
        BY <2>4, <3>0, <3>2, <4>1 DEF LeftInv
      <4>3. QED BY <2>2, <4>2, <2>m DEF Moved
    <3>3. QED BY <3>1, <3>2 DEF LeftInv
  <2>8. QED BY <2>5, <2>6, <2>7
<1>2. CASE Disconnect(c)
  <2>1. PICK i \in Instances : home[c] = i
    BY <1>2 DEF Disconnect, TypeOK
  <2>2. Queued(i, {<<"offline.hdel", c>>}, {})
    BY <1>2, <2>1, SentQueued DEF Disconnect, Commands
  <2>m. Moved(i, {<<"offline.hdel", c>>}, {})
    BY <2>2, QueuedHas
  <2>3. /\ home'[c] = None /\ \A d \in Conns : d # c => home'[d] = home[d]
        /\ fields' = fields /\ happened \subseteq happened'
    BY <1>2 DEF Disconnect, TypeOK, Note
  <2>4. RemovedWhenClosed'
    BY <2>2, <2>3, <2>m DEF RemovedWhenClosed, Moved
  <2>5. EnteredInv'
    <3> SUFFICES ASSUME "silence" \notin happened', NEW d \in Conns, home'[d] # None
                 PROVE  d \in fields' \/ Has(home[d], "online.hset", d)'
      BY DEF EnteredInv
    <3>1. PICK j \in Instances : j = home'[d]
      BY DEF TypeOK
    <3>2. d # c
      BY <2>3
    <3>3. d \in fields \/ Has(j, "online.hset", d)
      BY <2>3, <3>1, <3>2 DEF EnteredInv
    <3>4. Has(j, "online.hset", d) => Has(j, "online.hset", d)'
      BY <2>2, <2>m DEF Moved
    <3>5. QED BY <2>3, <3>1, <3>3, <3>4
  <2>6. LeftInv'
    <3> SUFFICES ASSUME "crash" \notin happened' PROVE LeftInv'
      BY DEF LeftInv
    <3>0. LeftInv /\ "crash" \notin happened
      BY <2>3
    <3>1. ASSUME NEW j \in Instances, NEW d \in Conns, NEW op \in HSets, NEW n \in Nat,
                 At(j, n, op, d)'
          PROVE  home'[d] = j \/ Follows(j, n, "offline.hdel", d)'
      <4>1. PICK k \in Nat : At(j, k, op, d) /\ Keeps(i, j, k, n, {<<"offline.hdel", c>>})
        BY <2>2, <3>1 DEF Queued, HSets
      <4>2. home[d] = j \/ Follows(j, k, "offline.hdel", d)
        BY <3>0, <4>1 DEF LeftInv
      <4>3. CASE d = c /\ j = i
        BY <4>1, <4>3 DEF Keeps
      <4>4. CASE ~ (d = c /\ j = i)
        BY <2>1, <2>3, <4>1, <4>2, <4>4 DEF Keeps
      <4>5. QED BY <4>3, <4>4
    <3>2. ASSUME NEW d \in fields', home'[d] = None
          PROVE  \E j \in Instances : Has(j, "offline.hdel", d)'
      <4>1. d \in fields /\ d \in Conns
        BY <2>3, <3>2 DEF TypeOK
      <4>2. CASE d = c
        BY <2>2, <4>2, <2>m DEF Moved
      <4>3. CASE d # c
        <5>1. PICK j \in Instances : Has(j, "offline.hdel", d)
          BY <2>3, <3>0, <3>2, <4>1, <4>3 DEF LeftInv
        <5>2. QED BY <2>2, <5>1, <2>m DEF Moved
      <4>4. QED BY <4>2, <4>3
    <3>3. QED BY <3>1, <3>2 DEF LeftInv
  <2>7. QED BY <2>4, <2>5, <2>6
<1>3. CASE SendBeat(c)
  <2>1. PICK i \in Instances : home[c] = i
    BY <1>3 DEF SendBeat, TypeOK
  <2>2. Queued(i, {<<"beat.hset", c>>}, {})
    BY <1>3, <2>1, SentQueued DEF SendBeat, Commands
  <2>m. Moved(i, {<<"beat.hset", c>>}, {})
    BY <2>2, QueuedHas
  <2>3. UNCHANGED <<home, fields, happened>>
    BY <1>3 DEF SendBeat
  <2>4. RemovedWhenClosed'
    BY <2>2, <2>3, <2>m DEF RemovedWhenClosed, Moved
  <2>5. EnteredInv'
    <3> SUFFICES ASSUME "silence" \notin happened, NEW d \in Conns, home[d] # None
                 PROVE  d \in fields' \/ Has(home[d], "online.hset", d)'
      BY <2>3 DEF EnteredInv
    <3>1. PICK j \in Instances : j = home[d]
      BY DEF TypeOK
    <3>2. d \in fields \/ Has(j, "online.hset", d)
      BY <3>1 DEF EnteredInv
    <3>3. Has(j, "online.hset", d) => Has(j, "online.hset", d)'
      BY <2>2, <2>m DEF Moved
    <3>4. QED BY <2>3, <3>1, <3>2, <3>3
  <2>6. LeftInv'
    <3> SUFFICES ASSUME "crash" \notin happened PROVE LeftInv'
      BY <2>3 DEF LeftInv
    <3>1. ASSUME NEW j \in Instances, NEW d \in Conns, NEW op \in HSets, NEW n \in Nat,
                 At(j, n, op, d)'
          PROVE  home[d] = j \/ Follows(j, n, "offline.hdel", d)'
      <4>1. CASE j = i /\ d = c
        BY <2>1, <4>1
      <4>2. CASE ~ (j = i /\ d = c)
        <5>1. PICK k \in Nat : At(j, k, op, d) /\ Keeps(i, j, k, n, {<<"beat.hset", c>>})
          BY <2>2, <3>1, <4>2 DEF Queued
        <5>2. home[d] = j \/ Follows(j, k, "offline.hdel", d)
          BY <5>1 DEF LeftInv
        <5>3. QED BY <5>1, <5>2 DEF Keeps
      <4>3. QED BY <4>1, <4>2
    <3>2. ASSUME NEW d \in fields', home[d] = None
          PROVE  \E j \in Instances : Has(j, "offline.hdel", d)'
      <4>1. PICK j \in Instances : Has(j, "offline.hdel", d)
        BY <2>3, <3>2 DEF LeftInv
      <4>2. QED BY <2>2, <4>1, <2>m DEF Moved
    <3>3. QED BY <2>3, <3>1, <3>2 DEF LeftInv
  <2>7. QED BY <2>4, <2>5, <2>6
<1>4. QED BY <1>1, <1>2, <1>3

LEMMA EntryStep == EntryInv /\ TypeOK' /\ [Next]_vars => EntryInv'
<1> SUFFICES ASSUME EntryInv, TypeOK', [Next]_vars PROVE EntryInv'
  OBVIOUS
<1> USE DEF EntryInv
<1> DEFINE Goal == RemovedWhenClosed' /\ EnteredInv' /\ LeftInv'
<1>1. CASE UNCHANGED vars
  BY <1>1 DEF vars, RemovedWhenClosed, EnteredInv, LeftInv, Has, Follows, At
<1>2. ASSUME NEW c \in Conns, Connect(c) \/ Disconnect(c) \/ SendBeat(c) PROVE Goal
  BY <1>2, EntrySent
<1>3. ASSUME NEW i \in Instances, NEW c \in Conns, HSet(i, c) PROVE Goal
  <2>1. UNCHANGED <<home, happened>> /\ fields' = fields \cup {c} /\ fields' \in SUBSET Conns
    BY <1>3 DEF HSet, SetFields, TypeOK
  <2>2. CASE Queued(i, {<<"online.expire", c>>}, {<<"online.hset", c>>})
    <3> DEFINE sent == {<<"online.expire", c>>}
               done == {<<"online.hset", c>>}
    <3>1. /\ \A op, d : <<op, d>> \in sent => op \notin HSets \cup {"offline.hdel"}
          /\ \A d : <<"online.hset", d>> \in done => d \in fields'
          /\ \A d \in fields' : d \notin fields => \E op \in HSets : <<op, d>> \in done
          /\ \A d \in fields' : <<"offline.hdel", d>> \notin done
      BY <2>1 DEF HSets
    <3> HIDE DEF sent, done
    <3>2. Queued(i, sent, done)
      BY <2>2 DEF sent, done
    <3>3. QED BY <2>1, <3>1, <3>2, EntryKept
  <2>3. CASE Queued(i, {<<"beat.expire", c>>}, {<<"beat.hset", c>>})
    <3> DEFINE sent == {<<"beat.expire", c>>}
               done == {<<"beat.hset", c>>}
    <3>1. /\ \A op, d : <<op, d>> \in sent => op \notin HSets \cup {"offline.hdel"}
          /\ \A d : <<"online.hset", d>> \in done => d \in fields'
          /\ \A d \in fields' : d \notin fields => \E op \in HSets : <<op, d>> \in done
          /\ \A d \in fields' : <<"offline.hdel", d>> \notin done
      BY <2>1 DEF HSets
    <3> HIDE DEF sent, done
    <3>2. Queued(i, sent, done)
      BY <2>3 DEF sent, done
    <3>3. QED BY <2>1, <3>1, <3>2, EntryKept
  <2>4. QED BY <1>3, <2>2, <2>3, Effects
<1>4. ASSUME NEW i \in Instances, NEW sent, NEW done, Queued(i, sent, done),
             UNCHANGED <<home, happened, fields>>,
             \A op, c : <<op, c>> \in sent => op \notin HSets \cup {"offline.hdel"},
             \A op, c : <<op, c>> \in done => op \notin {"online.hset", "offline.hdel"}
      PROVE  Goal
  BY <1>4, EntryKept DEF TypeOK
<1>5. ASSUME NEW i \in Instances, NEW c \in Conns,
             Expire(i, c) \/ PublishOnline(i, c) \/ HLen(i, c) \/ PublishOffline(i, c)
      PROVE  Goal
  <2>1. UNCHANGED <<home, happened, fields>>
    BY <1>5 DEF Expire, PublishOnline, HLen, PublishOffline
  <2>2. ASSUME NEW p \in {"online.publish", "offline.publish"},
               NEW o \in Commands \ {"online.hset", "offline.hdel"},
               Queued(i, {<<p, c>>}, {<<o, c>>})
        PROVE  Goal
    <3> DEFINE sent == {<<p, c>>}
               done == {<<o, c>>}
    <3>1. /\ \A op, d : <<op, d>> \in sent => op \notin HSets \cup {"offline.hdel"}
          /\ \A op, d : <<op, d>> \in done => op \notin {"online.hset", "offline.hdel"}
      BY DEF HSets
    <3> HIDE DEF sent, done
    <3>2. Queued(i, sent, done)
      BY <2>2 DEF sent, done
    <3>3. QED BY <1>4, <2>1, <3>1, <3>2
  <2>3. ASSUME NEW o \in Commands \ {"online.hset", "offline.hdel"}, Queued(i, {}, {<<o, c>>})
        PROVE  Goal
    <3> DEFINE done == {<<o, c>>}
    <3>1. \A op, d : <<op, d>> \in done => op \notin {"online.hset", "offline.hdel"}
      OBVIOUS
    <3> HIDE DEF done
    <3>2. Queued(i, {}, done)
      BY <2>3 DEF done
    <3>3. QED BY <1>4, <2>1, <3>1, <3>2
  <2>4. \A o \in {"online.expire", "beat.expire", "online.publish", "offline.hlen",
                   "offline.publish"} : o \in Commands \ {"online.hset", "offline.hdel"}
    BY DEF Commands
  <2> HIDE DEF Goal
  <2>5. QED BY <1>5, <2>2, <2>3, <2>4, Effects
<1>6. ASSUME NEW i \in Instances, NEW c \in Conns, HDel(i, c) PROVE Goal
  <2>1. /\ UNCHANGED <<home, happened>>
        /\ fields' = fields \ {c} /\ fields' \in SUBSET Conns
    BY <1>6 DEF HDel, SetFields, Without, TypeOK
  <2>2. ASSUME NEW sent \in {{}, {<<"offline.hlen", c>>}},
               Queued(i, sent, {<<"offline.hdel", c>>})
        PROVE  Goal
    <3> DEFINE done == {<<"offline.hdel", c>>}
    <3>1. Has(i, "offline.hdel", c)
      BY <2>2, Somewhere DEF Queued
    <3>2. home[c] = None
      BY <3>1 DEF RemovedWhenClosed
    <3>3. /\ \A op, d : <<op, d>> \in sent => op \notin HSets \cup {"offline.hdel"}
          /\ \A d \in fields : home[d] # None => d \in fields'
          /\ \A d : <<"online.hset", d>> \in done => d \in fields'
          /\ \A d \in fields' : d \in fields /\ <<"offline.hdel", d>> \notin done
      BY <2>1, <3>2 DEF HSets
    <3> HIDE DEF done
    <3>4. Queued(i, sent, done)
      BY <2>2 DEF done
    <3>5. QED BY <2>1, <3>3, <3>4, EntryKept
  <2> HIDE DEF Goal
  <2>3. QED BY <1>6, <2>2, Effects
<1>7. CASE Lapse
  <2>1. UNCHANGED <<home, wire>> /\ fields' = {} /\ happened \subseteq happened'
    BY <1>7 DEF Lapse, Note
  <2>2. \A i, op, c, n : /\ Has(i, op, c)' <=> Has(i, op, c)
                         /\ Follows(i, n, op, c)' <=> Follows(i, n, op, c)
                         /\ At(i, n, op, c)' <=> At(i, n, op, c)
    BY <2>1 DEF Has, Follows, At
  <2>3. "silence" \notin happened' => Open = {} /\ Quiet
    BY <1>7 DEF Lapse, Note
  <2>4. EnteredInv'
    BY <2>1, <2>3 DEF EnteredInv, Open
  <2>5. RemovedWhenClosed' /\ LeftInv'
    BY <2>1, <2>2 DEF RemovedWhenClosed, LeftInv
  <2>6. QED BY <2>4, <2>5
<1>8. ASSUME NEW i \in Instances, CrashInstance(i) PROVE Goal
  <2>1. /\ happened' = happened \cup {"crash"} /\ fields' = fields
        /\ wire' = [wire EXCEPT ![i] = <<>>]
        /\ \A c \in Conns : home'[c] = IF home[c] = i THEN None ELSE home[c]
    BY <1>8 DEF CrashInstance, Note
  <2>2. /\ \A j \in Instances \ {i} : \A op, c : Has(j, op, c)' <=> Has(j, op, c)
        /\ \A op, c : ~ Has(i, op, c)'
    <3>1. wire'[i] = <<>> /\ \A j \in Instances \ {i} : wire'[j] = wire[j]
      BY <2>1 DEF TypeOK
    <3>2. \A op, c : ~ Has(i, op, c)'
      BY <3>1 DEF Has, At
    <3>3. QED BY <3>1, <3>2 DEF Has, At
  <2>3. RemovedWhenClosed'
    BY <2>1, <2>2 DEF RemovedWhenClosed
  <2>4. EnteredInv'
    <3> SUFFICES ASSUME "silence" \notin happened', NEW c \in Conns, home'[c] # None
                 PROVE  c \in fields' \/ Has(home[c], "online.hset", c)'
      BY DEF EnteredInv
    <3>1. PICK j \in Instances \ {i} : j = home[c] /\ j = home'[c]
      BY <2>1 DEF TypeOK
    <3>2. c \in fields \/ Has(j, "online.hset", c)
      BY <2>1, <3>1, PresenceAssumption DEF EnteredInv
    <3>3. QED BY <2>1, <2>2, <3>1, <3>2
  <2>5. LeftInv'
    BY <2>1 DEF LeftInv
  <2>6. QED BY <2>3, <2>4, <2>5
<1> HIDE DEF Goal
<1>9. Goal
  BY <1>1, <1>2, <1>3, <1>5, <1>6, <1>7, <1>8 DEF Next, Redis, Goal
<1>10. QED BY <1>9 DEF Goal

LEMMA EntriesStart == Init => EntryInv
<1> SUFFICES ASSUME Init PROVE EntryInv
  OBVIOUS
<1>1. \A i \in Instances : wire[i] = <<>>
  BY DEF Init
<1>2. TypeOK
  <2>1. <<>> \in Seq([op : Commands, conn : Conns])
    OBVIOUS
  <2>2. QED BY <2>1 DEF Init, TypeOK
<1>3. \A i \in Instances : \A op, c : ~ Has(i, op, c)
  BY <1>1, <1>2, OfTheUser
<1>4. \A i \in Instances : \A op, c : \A n \in Nat : ~ At(i, n, op, c)
  BY <1>3, Somewhere
<1>5. QED
  BY <1>2, <1>3, <1>4 DEF Init, EntryInv, RemovedWhenClosed, EnteredInv, LeftInv

\* For any number of instances and sockets: only a socket that has closed is being
\* removed, who is open is in the hash or about to be, and who is in it is open or
\* about to be removed.
THEOREM EntriesAreExact == Spec => []EntryInv
<1>1. EntryInv /\ [Next]_vars => EntryInv'
  BY TypeStep, EntryStep DEF EntryInv
<1>2. QED BY <1>1, EntriesStart, PTL DEF Spec

\* Every variable keeps its type.
THEOREM PresenceTypes == Spec => []TypeOK
<1>1. EntryInv => TypeOK
  BY DEF EntryInv
<1>2. QED BY <1>1, EntriesAreExact, PTL

\* For any number of instances and sockets: between commands a socket that is open is
\* in the hash, whatever other instances do and whichever of them crash, if heartbeats
\* come in time (redis-presence-store.ts, 14-26).
THEOREM TheOpenAreOnline == Spec => []OpenSocketsAreOnline
<1>1. EntryInv => OpenSocketsAreOnline
  <2> SUFFICES ASSUME EntryInv, "silence" \notin happened, Quiet, NEW c \in Conns, home[c] # None
               PROVE  c \in fields
    BY DEF OpenSocketsAreOnline, Open
  <2>1. PICK j \in Instances : j = home[c]
    BY DEF EntryInv, TypeOK
  <2>2. ~ Has(j, "online.hset", c)
    BY OfTheUser DEF Quiet, EntryInv
  <2>3. QED BY <2>1, <2>2 DEF EntryInv, EnteredInv
<1>2. QED BY <1>1, EntriesAreExact, PTL

\* For any number of instances and sockets: between commands a socket that was closed
\* is not in the hash, as long as no instance crashes (gateway.ts, 56-71).
THEOREM TheClosedAreGone == Spec => []NoGhosts
<1>1. EntryInv => NoGhosts
  <2> SUFFICES ASSUME EntryInv, "crash" \notin happened, Quiet, NEW c \in fields
               PROVE  c \in Conns /\ home[c] # None
    BY DEF NoGhosts, Open
  <2>1. \A i \in Instances : ~ Has(i, "offline.hdel", c)
    BY OfTheUser DEF Quiet, EntryInv
  <2>2. QED BY <2>1 DEF EntryInv, LeftInv, TypeOK
<1>2. QED BY <1>1, EntriesAreExact, PTL

-----------------------------------------------------------------------------
(* The order of the events                                                 *)

\* Commands of opening and closing stay on one connection if only their replies send
\* more, or no other connection has any.
LEMMA OneWireKept ==
  ASSUME TypeOK, OneWire, NEW i \in Instances, NEW sent, NEW done, Moved(i, sent, done),
         \A o, c : <<o, c>> \in sent /\ o \notin Beats =>
           \/ \E p \in Commands \ Beats, d \in Conns : <<p, d>> \in done
           \/ \A j \in Instances \ {i} : \A p, d : ~ Has(j, p, d)
  PROVE  OneWire'
<1> SUFFICES ASSUME NEW j \in Instances, NEW k \in Instances, NEW c \in Conns, NEW d \in Conns,
                    NEW o \in Commands \ Beats, NEW p \in Commands \ Beats,
                    Has(j, o, c)', Has(k, p, d)', j # k
             PROVE  FALSE
  BY DEF OneWire
<1>1. Has(j, o, c) \/ (j = i /\ <<o, c>> \in sent)
  BY DEF Moved
<1>2. Has(k, p, d) \/ (k = i /\ <<p, d>> \in sent)
  BY DEF Moved
<1>3. ASSUME NEW x \in Instances, x # i, NEW a \in Conns, NEW q \in Commands \ Beats, Has(x, q, a),
             NEW b, NEW r, r \notin Beats, <<r, b>> \in sent
      PROVE  FALSE
  <2>1. PICK s \in Commands \ Beats, e \in Conns : <<s, e>> \in done
    BY <1>3
  <2>2. Has(i, s, e)
    BY <2>1 DEF Moved
  <2>3. QED BY <1>3, <2>2 DEF OneWire
<1>4. CASE Has(j, o, c) /\ Has(k, p, d)
  BY <1>4 DEF OneWire
<1>5. CASE Has(j, o, c) /\ k = i /\ <<p, d>> \in sent
  BY <1>3, <1>5
<1>6. CASE Has(k, p, d) /\ j = i /\ <<o, c>> \in sent
  BY <1>3, <1>6
<1>7. QED BY <1>1, <1>2, <1>4, <1>5, <1>6

\* That the user is online stays last as long as the opposite is not sent.
LEMMA LastKept ==
  ASSUME TypeOK, OneWire, OnlineIsLast, NEW i \in Instances, NEW sent, NEW done,
         Queued(i, sent, done),
         \A c : <<"offline.publish", c>> \notin sent,
         \A c : /\ <<"online.expire", c>> \notin done
                /\ <<"online.publish", c>> \notin done,
         announced' = announced \/ \E c \in Conns : <<"offline.publish", c>> \in done
  PROVE  OnlineIsLast'
<1>0. Moved(i, sent, done)
  BY QueuedHas
<1>1. CASE Some("online.expire")
  <2>1. PICK j \in Instances, c \in Conns : Has(j, "online.expire", c)
    BY <1>1 DEF Some
  <2>2. Has(j, "online.expire", c)'
    BY <1>0, <2>1 DEF Moved
  <2>3. QED BY <2>2 DEF OnlineIsLast, Some
<1>2. ASSUME NEW j \in Instances, NEW c \in Conns, NEW k \in Nat, At(j, k, "online.publish", c),
             \A d \in Conns : ~ Follows(j, k, "offline.publish", d)
      PROVE  OnlineIsLast'
  <2>1. PICK n \in Nat : At(j, n, "online.publish", c)' /\ Keeps(i, j, k, n, sent)
    BY <1>2 DEF Queued
  <2>2. \A d \in Conns : ~ Follows(j, n, "offline.publish", d)'
    BY <1>2, <2>1 DEF Keeps
  <2>3. QED BY <2>1, <2>2 DEF OnlineIsLast
<1>3. CASE announced /\ ~ Some("offline.publish")
  <2>1. announced'
    BY <1>0, <1>3 DEF Some, Moved
  <2>2. ~ Some("offline.publish")'
    BY <1>0, <1>3 DEF Some, Moved
  <2>3. QED BY <2>1, <2>2 DEF OnlineIsLast
<1>4. QED BY <1>1, <1>2, <1>3 DEF OnlineIsLast

\* What follows an announcement keeps following it.
LEMMA ClosedKept ==
  ASSUME TypeOK, ClosedSaid, fields = {}, NEW i \in Instances, NEW sent, NEW done,
         Queued(i, sent, done),
         \A c : /\ <<"online.expire", c>> \notin sent
                /\ <<"online.publish", c>> \notin sent,
         \A c : /\ <<"offline.hlen", c>> \notin done
                /\ <<"offline.publish", c>> \notin done,
         announced' = announced
  PROVE  ClosedSaid'
<1>0. Moved(i, sent, done)
  BY QueuedHas
<1>1. \A op \in {"offline.hlen", "offline.publish"} : Some(op) => Some(op)'
  BY <1>0 DEF Some, Moved
<1>2. announced' => Some("offline.hlen")' \/ Some("offline.publish")'
  BY <1>1 DEF ClosedSaid
<1>3. ASSUME NEW j \in Instances, NEW c \in Conns, NEW n \in Nat, At(j, n, "online.publish", c)'
      PROVE  Some("offline.hlen")' \/ \E d \in Conns : Follows(j, n, "offline.publish", d)'
  <2>1. PICK k \in Nat : At(j, k, "online.publish", c) /\ Keeps(i, j, k, n, sent)
    BY <1>3 DEF Queued
  <2>2. Some("offline.hlen") \/ \E d \in Conns : Follows(j, k, "offline.publish", d)
    BY <2>1 DEF ClosedSaid
  <2>3. QED BY <1>1, <2>1, <2>2 DEF Keeps
<1>4. ASSUME NEW j \in Instances, NEW c \in Conns, NEW n \in Nat, At(j, n, "online.expire", c)'
      PROVE  \E d \in Conns : Follows(j, n, "offline.hlen", d)'
  <2>1. PICK k \in Nat : At(j, k, "online.expire", c) /\ Keeps(i, j, k, n, sent)
    BY <1>4 DEF Queued
  <2>2. \E d \in Conns : Follows(j, k, "offline.hlen", d)
    BY <2>1 DEF ClosedSaid
  <2>3. QED BY <2>1, <2>2 DEF Keeps
<1>5. QED BY <1>2, <1>3, <1>4 DEF ClosedSaid

\* Whom OpenSaid speaks of while a command runs that is not about an opening socket.
LEMMA OpenKept ==
  ASSUME TypeOK, OpenSaid, NEW i \in Instances, NEW sent, NEW done, Queued(i, sent, done),
         home' = home, \A c : <<"online.hset", c>> \notin done,
         \A c \in fields : home[c] # None => c \in fields',
         (\E c \in fields : home[c] # None) /\ OnlineIsLast => OnlineIsLast'
  PROVE  OpenSaid'
<1>0. Moved(i, sent, done)
  BY QueuedHas
<1> SUFFICES ASSUME NEW c \in Conns, home[c] # None
             PROVE  Has(home[c], "online.hset", c)' \/ (c \in fields' /\ OnlineIsLast')
  BY DEF OpenSaid
<1>1. PICK j \in Instances : j = home[c] /\ j = home'[c]
  BY DEF TypeOK
<1>2. Has(j, "online.hset", c) \/ (c \in fields /\ OnlineIsLast)
  BY <1>1 DEF OpenSaid
<1>3. Has(j, "online.hset", c) => Has(j, "online.hset", c)'
  BY <1>0 DEF Moved
<1>4. QED BY <1>1, <1>2, <1>3

Said == OneWire /\ OpenSaid /\ ClosedSaid

\* A socket opens or closes, or sends a heartbeat: the hash stays as it is.
LEMMA SaidWhenSent ==
  ASSUME EntryInv, Said, TypeOK', happened' = {}, NEW c \in Conns,
         Connect(c) \/ Disconnect(c) \/ SendBeat(c)
  PROVE  Said'
<1> USE DEF EntryInv
<1>1. ASSUME NEW i \in Instances, NEW op \in {"online.hset", "offline.hdel", "beat.hset"},
             Queued(i, {<<op, c>>}, {}), UNCHANGED <<fields, announced>>,
             op \notin Beats => \A j \in Instances \ {i} : \A p, d : ~ Has(j, p, d)
      PROVE  /\ OneWire' /\ ClosedSaid' /\ (OnlineIsLast => OnlineIsLast')
             /\ Moved(i, {<<op, c>>}, {})
  <2> DEFINE sent == {<<op, c>>}
  <2>1. /\ \A o, d : <<o, d>> \in sent /\ o \notin Beats =>
             \A j \in Instances \ {i} : \A p, e : ~ Has(j, p, e)
        /\ \A d : /\ <<"offline.publish", d>> \notin sent
                  /\ <<"online.expire", d>> \notin sent
                  /\ <<"online.publish", d>> \notin sent
    BY <1>1
  <2> HIDE DEF sent
  <2>2. Queued(i, sent, {}) /\ Moved(i, sent, {})
    BY <1>1, QueuedHas DEF sent
  <2>3. OneWire'
    BY <2>1, <2>2, OneWireKept DEF Said
  <2>4. OnlineIsLast => OnlineIsLast'
    BY <1>1, <2>1, <2>2, LastKept DEF Said
  <2>5. ClosedSaid'
    <3>1. CASE fields = {}
      BY <1>1, <2>1, <2>2, <3>1, ClosedKept DEF Said
    <3>2. CASE fields # {}
      BY <1>1, <3>2 DEF ClosedSaid
    <3>3. QED BY <3>1, <3>2
  <2>6. QED BY <2>2, <2>3, <2>4, <2>5 DEF sent
<1>2. ASSUME NEW i \in Instances, Note(Elsewhere(i), "move")
      PROVE  \A j \in Instances \ {i} : \A p, d : ~ Has(j, p, d)
  <2>1. ~ Elsewhere(i)
    BY <1>2 DEF Note
  <2>2. QED BY <2>1, OfTheUser DEF Elsewhere
<1>3. CASE Connect(c)
  <2>1. PICK i \in Instances :
          /\ home' = [home EXCEPT ![c] = i]
          /\ SendCommand(i, "online.hset", c)
          /\ Note(Elsewhere(i), "move")
    BY <1>3 DEF Connect
  <2>2. Queued(i, {<<"online.hset", c>>}, {}) /\ UNCHANGED <<fields, announced>>
    BY <1>3, <2>1, SentQueued DEF Connect, Commands
  <2>3. /\ OneWire' /\ ClosedSaid' /\ (OnlineIsLast => OnlineIsLast')
        /\ Moved(i, {<<"online.hset", c>>}, {})
    BY <1>1, <1>2, <2>1, <2>2
  <2>4. home'[c] = i /\ \A d \in Conns : d # c => home'[d] = home[d]
    BY <2>1 DEF TypeOK
  <2>5. OpenSaid'
    <3> SUFFICES ASSUME NEW d \in Conns, home'[d] # None
                 PROVE  Has(home[d], "online.hset", d)' \/ (d \in fields' /\ OnlineIsLast')
      BY DEF OpenSaid
    <3>1. PICK j \in Instances : j = home'[d]
      BY DEF TypeOK
    <3>2. CASE d = c
      <4>1. Has(i, "online.hset", c)'
        BY <2>3 DEF Moved
      <4>2. QED BY <2>4, <3>1, <3>2, <4>1
    <3>3. CASE d # c
      <4>1. Has(j, "online.hset", d) \/ (d \in fields /\ OnlineIsLast)
        BY <2>4, <3>1, <3>3 DEF Said, OpenSaid
      <4>2. Has(j, "online.hset", d) => Has(j, "online.hset", d)'
        BY <2>3 DEF Moved
      <4>3. QED BY <2>2, <2>3, <3>1, <4>1, <4>2
    <3>4. QED BY <3>2, <3>3
  <2>6. QED BY <2>3, <2>5 DEF Said
<1>4. CASE Disconnect(c)
  <2>1. PICK i \in Instances : home[c] = i
    BY <1>4 DEF Disconnect, TypeOK
  <2>2. Queued(i, {<<"offline.hdel", c>>}, {}) /\ UNCHANGED <<fields, announced>>
    BY <1>4, <2>1, SentQueued DEF Disconnect, Commands
  <2>3. /\ OneWire' /\ ClosedSaid' /\ (OnlineIsLast => OnlineIsLast')
        /\ Moved(i, {<<"offline.hdel", c>>}, {})
    BY <1>1, <1>2, <1>4, <2>1, <2>2 DEF Disconnect
  <2>4. home'[c] = None /\ \A d \in Conns : d # c => home'[d] = home[d]
    BY <1>4 DEF Disconnect, TypeOK
  <2>5. OpenSaid'
    <3> SUFFICES ASSUME NEW d \in Conns, home'[d] # None
                 PROVE  Has(home[d], "online.hset", d)' \/ (d \in fields' /\ OnlineIsLast')
      BY DEF OpenSaid
    <3>1. PICK j \in Instances : j = home'[d]
      BY DEF TypeOK
    <3>2. Has(j, "online.hset", d) \/ (d \in fields /\ OnlineIsLast)
      BY <2>4, <3>1 DEF Said, OpenSaid
    <3>3. Has(j, "online.hset", d) => Has(j, "online.hset", d)'
      BY <2>3 DEF Moved
    <3>4. QED BY <2>2, <2>3, <3>1, <3>2, <3>3
  <2>6. QED BY <2>3, <2>5 DEF Said
<1>5. CASE SendBeat(c)
  <2>1. PICK i \in Instances : home[c] = i
    BY <1>5 DEF SendBeat, TypeOK
  <2>2. Queued(i, {<<"beat.hset", c>>}, {}) /\ UNCHANGED <<home, fields, announced>>
    BY <1>5, <2>1, SentQueued DEF SendBeat, Commands
  <2>3. OneWire' /\ ClosedSaid' /\ (OnlineIsLast => OnlineIsLast')
    BY <1>1, <2>2 DEF Beats
  <2>4. OpenSaid'
    BY <2>2, <2>3, OpenKept DEF Said
  <2>5. QED BY <2>3, <2>4 DEF Said
<1>6. QED BY <1>3, <1>4, <1>5

\* A heartbeat reaches the hash, and so does a socket that opens.
LEMMA SaidWhenEntered ==
  ASSUME EntryInv, Said, NEW i \in Instances, NEW c \in Conns, HSet(i, c)
  PROVE  Said'
<1> USE DEF EntryInv
<1>0. /\ UNCHANGED <<home, announced>> /\ fields' = fields \cup {c}
  BY DEF HSet, SetFields
<1>1. ClosedSaid'
  BY <1>0 DEF ClosedSaid
<1>2. CASE Queued(i, {<<"beat.expire", c>>}, {<<"beat.hset", c>>})
  <2> DEFINE sent == {<<"beat.expire", c>>}
             done == {<<"beat.hset", c>>}
  <2>1. /\ \A o, d : <<o, d>> \in sent => o \in Beats
        /\ \A d : <<"offline.publish", d>> \notin sent
        /\ \A d : /\ <<"online.expire", d>> \notin done
                  /\ <<"online.publish", d>> \notin done
                  /\ <<"online.hset", d>> \notin done
    BY DEF Beats
  <2> HIDE DEF sent, done
  <2>2. Queued(i, sent, done)
    BY <1>2 DEF sent, done
  <2>3. Moved(i, sent, done)
    BY <2>2, QueuedHas
  <2>4. OneWire'
    BY <2>1, <2>3, OneWireKept DEF Said
  <2>5. OnlineIsLast => OnlineIsLast'
    BY <1>0, <2>1, <2>2, LastKept DEF Said
  <2>6. OpenSaid'
    BY <1>0, <2>1, <2>2, <2>5, OpenKept DEF Said
  <2>7. QED BY <1>1, <2>4, <2>6 DEF Said
<1>3. CASE Queued(i, {<<"online.expire", c>>}, {<<"online.hset", c>>})
  <2> DEFINE sent == {<<"online.expire", c>>}
             done == {<<"online.hset", c>>}
  <2>1. /\ \E p \in Commands \ Beats, d \in Conns : <<p, d>> \in done
        /\ <<"online.expire", c>> \in sent
        /\ \A d : <<"online.hset", d>> \in done => d = c
    BY DEF Beats, Commands
  <2> HIDE DEF sent, done
  <2>2. Moved(i, sent, done)
    BY <1>3, QueuedHas DEF sent, done
  <2>3. OneWire'
    BY <2>1, <2>2, OneWireKept DEF Said
  <2>4. OnlineIsLast'
    <3>1. Has(i, "online.expire", c)'
      BY <2>1, <2>2 DEF Moved
    <3>2. QED BY <3>1 DEF OnlineIsLast, Some
  <2>5. OpenSaid'
    <3> SUFFICES ASSUME NEW d \in Conns, home[d] # None
                 PROVE  Has(home[d], "online.hset", d)' \/ (d \in fields' /\ OnlineIsLast')
      BY <1>0 DEF OpenSaid
    <3>1. PICK j \in Instances : j = home[d] /\ j = home'[d]
      BY <1>0 DEF TypeOK
    <3>2. Has(j, "online.hset", d) \/ d \in fields
      BY <3>1 DEF Said, OpenSaid
    <3>3. Has(j, "online.hset", d) => Has(j, "online.hset", d)' \/ d = c
      BY <2>1, <2>2 DEF Moved
    <3>4. QED BY <1>0, <2>4, <3>1, <3>2, <3>3
  <2>6. QED BY <1>1, <2>3, <2>5 DEF Said
<1>4. QED BY <1>2, <1>3, Effects

\* The time to live is set, and who opened is announced after that.
LEMMA SaidWhenExpires ==
  ASSUME EntryInv, Said, NEW i \in Instances, NEW c \in Conns, Expire(i, c)
  PROVE  Said'
<1> USE DEF EntryInv
<1>0. UNCHANGED <<home, announced, fields>>
  BY DEF Expire
<1>1. CASE Queued(i, {}, {<<"beat.expire", c>>})
  <2> DEFINE done == {<<"beat.expire", c>>}
  <2>1. \A d : /\ <<"online.expire", d>> \notin done
               /\ <<"online.publish", d>> \notin done
               /\ <<"online.hset", d>> \notin done
               /\ <<"offline.hlen", d>> \notin done
               /\ <<"offline.publish", d>> \notin done
    OBVIOUS
  <2> HIDE DEF done
  <2>2. Queued(i, {}, done) /\ Moved(i, {}, done)
    BY <1>1, QueuedHas DEF done
  <2>3. OneWire'
    BY <2>2, OneWireKept DEF Said
  <2>4. OnlineIsLast => OnlineIsLast'
    BY <1>0, <2>1, <2>2, LastKept DEF Said
  <2>5. OpenSaid'
    BY <1>0, <2>1, <2>2, <2>4, OpenKept DEF Said
  <2>6. ClosedSaid'
    <3>1. CASE fields = {}
      BY <1>0, <2>1, <2>2, <3>1, ClosedKept DEF Said
    <3>2. CASE fields # {}
      BY <1>0, <3>2 DEF ClosedSaid
    <3>3. QED BY <3>1, <3>2
  <2>7. QED BY <2>3, <2>5, <2>6 DEF Said
<1>2. CASE Queued(i, {<<"online.publish", c>>}, {<<"online.expire", c>>})
  <2> DEFINE sent == {<<"online.publish", c>>}
             done == {<<"online.expire", c>>}
  <2>1. /\ \E p \in Commands \ Beats, d \in Conns : <<p, d>> \in done
        /\ <<"online.publish", c>> \in sent
        /\ \A o, d : <<o, d>> \in sent => o = "online.publish"
        /\ \A o, d : <<o, d>> \in done => o = "online.expire"
        /\ <<"online.expire", c>> \in done
    BY DEF Beats, Commands
  <2> HIDE DEF sent, done
  <2>2. Queued(i, sent, done) /\ Moved(i, sent, done)
    BY <1>2, QueuedHas DEF sent, done
  <2>3. OneWire'
    BY <2>1, <2>2, OneWireKept DEF Said
  <2>4. OnlineIsLast'
    <3>1. PICK n \in Nat : At(i, n, "online.publish", c)' /\ \A p, d : ~ Follows(i, n, p, d)'
      BY <2>1, <2>2 DEF Queued
    <3>2. QED BY <3>1 DEF OnlineIsLast
  <2>5. OpenSaid'
    BY <1>0, <2>1, <2>2, <2>4, OpenKept DEF Said
  <2>6. ClosedSaid'
    <3> SUFFICES ASSUME fields = {} PROVE ClosedSaid'
      BY <1>0 DEF ClosedSaid
    <3>1. Some("offline.hlen")'
      <4>1. At(i, 1, "online.expire", c)
        BY <2>1, <2>2 DEF Queued
      <4>2. PICK d \in Conns : Follows(i, 1, "offline.hlen", d)
        BY <4>1 DEF Said, ClosedSaid
      <4>3. Has(i, "offline.hlen", d)
        BY <4>2, Somewhere
      <4>4. Has(i, "offline.hlen", d)'
        BY <2>1, <2>2, <4>3 DEF Moved
      <4>5. QED BY <4>4 DEF Some
    <3>2. ASSUME NEW j \in Instances, NEW d \in Conns, NEW n \in Nat,
                 At(j, n, "online.expire", d)'
          PROVE  \E e \in Conns : Follows(j, n, "offline.hlen", e)'
      <4>1. PICK k \in Nat : At(j, k, "online.expire", d) /\ Keeps(i, j, k, n, sent)
        BY <2>1, <2>2, <3>2 DEF Queued
      <4>2. PICK e \in Conns : Follows(j, k, "offline.hlen", e)
        BY <4>1 DEF Said, ClosedSaid
      <4>3. QED BY <4>1, <4>2 DEF Keeps
    <3>3. QED BY <3>1, <3>2 DEF ClosedSaid
  <2>7. QED BY <2>3, <2>5, <2>6 DEF Said
<1>3. QED BY <1>1, <1>2, Effects

\* "presence.online" is published.
LEMMA SaidWhenOnline ==
  ASSUME EntryInv, Said, NEW i \in Instances, NEW c \in Conns, PublishOnline(i, c)
  PROVE  Said'
<1> USE DEF EntryInv
<1>0. UNCHANGED <<home, fields>> /\ announced' = TRUE
  BY DEF PublishOnline
<1> DEFINE done == {<<"online.publish", c>>}
<1>1. /\ \A o, d : <<o, d>> \in done => o = "online.publish"
      /\ <<"online.publish", c>> \in done /\ done # {}
      /\ "online.publish" \in Commands \ Beats /\ "offline.publish" \in Commands \ Beats
  BY DEF Commands, Beats
<1>2. Queued(i, {}, done) /\ Moved(i, {}, done)
  BY Effects, QueuedHas
<1> HIDE DEF done
<1>3. OneWire'
  BY <1>2, OneWireKept DEF Said
<1>4. At(i, 1, "online.publish", c) /\ Has(i, "online.publish", c)
  BY <1>1, <1>2, Somewhere DEF Queued
<1>5. OnlineIsLast => OnlineIsLast'
  <2>1. ASSUME NEW j \in Instances, NEW d \in Conns, Has(j, "online.expire", d)
        PROVE  OnlineIsLast'
    <3>1. Has(j, "online.expire", d)'
      BY <1>1, <1>2, <2>1 DEF Moved
    <3>2. QED BY <3>1 DEF OnlineIsLast, Some
  <2>2. ASSUME ~ Some("offline.publish") PROVE OnlineIsLast'
    <3>1. ~ Some("offline.publish")'
      BY <1>2, <2>2 DEF Some, Moved
    <3>2. QED BY <1>0, <3>1 DEF OnlineIsLast
  <2>3. ASSUME NEW j \in Instances, NEW d \in Conns, NEW k \in Nat,
               At(j, k, "online.publish", d),
               \A e \in Conns : ~ Follows(j, k, "offline.publish", e)
        PROVE  OnlineIsLast'
    <3>1. CASE \E n \in Nat : At(j, n, "online.publish", d)' /\ Keeps(i, j, k, n, {})
      <4>1. PICK n \in Nat : At(j, n, "online.publish", d)' /\ Keeps(i, j, k, n, {})
        BY <3>1
      <4>2. \A e \in Conns : ~ Follows(j, n, "offline.publish", e)'
        BY <2>3, <4>1 DEF Keeps
      <4>3. QED BY <4>1, <4>2 DEF OnlineIsLast
    <3>2. CASE j = i /\ k = 1
      <4>1. ASSUME NEW x \in Instances, NEW e \in Conns, Has(x, "offline.publish", e)
            PROVE  FALSE
        <5>1. x = i
          BY <1>1, <1>4, <4>1 DEF Said, OneWire
        <5>2. PICK m \in Nat : At(i, m, "offline.publish", e)
          BY <4>1, <5>1 DEF Has
        <5>3. m # 1
          BY <1>1, <1>2, <5>2 DEF Queued
        <5>4. m > 1
          BY <5>2, <5>3, Places
        <5>5. QED BY <2>3, <3>2, <5>2, <5>4 DEF Follows
      <4>2. ~ Some("offline.publish")
        BY <4>1 DEF Some
      <4>3. QED BY <2>2, <4>2
    <3>3. QED BY <1>2, <2>3, <3>1, <3>2 DEF Queued
  <2>4. QED BY <2>1, <2>2, <2>3 DEF OnlineIsLast, Some
<1>6. OpenSaid'
  BY <1>0, <1>1, <1>2, <1>5, OpenKept DEF Said
<1>7. ClosedSaid'
  <2> SUFFICES ASSUME fields = {} PROVE ClosedSaid'
    BY <1>0 DEF ClosedSaid
  <2>1. \A op \in {"offline.hlen", "offline.publish"} : Some(op) => Some(op)'
    BY <1>1, <1>2 DEF Some, Moved
  <2>2. Some("offline.hlen")' \/ Some("offline.publish")'
    <3>1. Some("offline.hlen") \/ \E d \in Conns : Follows(i, 1, "offline.publish", d)
      BY <1>4 DEF Said, ClosedSaid
    <3>2. Some("offline.hlen") \/ Some("offline.publish")
      BY <3>1, Somewhere DEF Some
    <3>3. QED BY <2>1, <3>2
  <2>3. ASSUME NEW j \in Instances, NEW d \in Conns, NEW n \in Nat,
               At(j, n, "online.publish", d)'
        PROVE  Some("offline.hlen")' \/ \E e \in Conns : Follows(j, n, "offline.publish", e)'
    <3>1. PICK k \in Nat : At(j, k, "online.publish", d) /\ Keeps(i, j, k, n, {})
      BY <1>2, <2>3 DEF Queued
    <3>2. Some("offline.hlen") \/ \E e \in Conns : Follows(j, k, "offline.publish", e)
      BY <3>1 DEF Said, ClosedSaid
    <3>3. QED BY <2>1, <3>1, <3>2 DEF Keeps
  <2>4. ASSUME NEW j \in Instances, NEW d \in Conns, NEW n \in Nat,
               At(j, n, "online.expire", d)'
        PROVE  \E e \in Conns : Follows(j, n, "offline.hlen", e)'
    <3>1. PICK k \in Nat : At(j, k, "online.expire", d) /\ Keeps(i, j, k, n, {})
      BY <1>2, <2>4 DEF Queued
    <3>2. \E e \in Conns : Follows(j, k, "offline.hlen", e)
      BY <3>1 DEF Said, ClosedSaid
    <3>3. QED BY <3>1, <3>2 DEF Keeps
  <2>5. QED BY <2>2, <2>3, <2>4 DEF ClosedSaid
<1>8. QED BY <1>3, <1>6, <1>7 DEF Said

\* A socket that has closed leaves the hash.
LEMMA SaidWhenLeft ==
  ASSUME EntryInv, Said, NEW i \in Instances, NEW c \in Conns, HDel(i, c)
  PROVE  Said'
<1> USE DEF EntryInv
<1>0. UNCHANGED <<home, announced>> /\ fields' = fields \ {c}
  BY DEF HDel, SetFields, Without
<1> DEFINE done == {<<"offline.hdel", c>>}
<1>1. /\ \A o, d : <<o, d>> \in done => o = "offline.hdel"
      /\ <<"offline.hdel", c>> \in done
      /\ \E p \in Commands \ Beats, d \in Conns : <<p, d>> \in done
      /\ {"offline.hdel", "online.publish", "online.expire", "offline.hlen"} \subseteq Commands \ Beats
  BY DEF Commands, Beats
<1> HIDE DEF done
<1>2. PICK sent :
        /\ Queued(i, sent, done)
        /\ \/ c \in fields /\ sent = {<<"offline.hlen", c>>}
           \/ c \notin fields /\ sent = {}
  BY Effects DEF done
<1>3. /\ Moved(i, sent, done)
      /\ \A o, d : <<o, d>> \in sent => o = "offline.hlen"
      /\ c \in fields => <<"offline.hlen", c>> \in sent
  BY <1>2, QueuedHas
<1>4. OneWire'
  BY <1>1, <1>3, OneWireKept DEF Said
<1>5. OnlineIsLast => OnlineIsLast'
  BY <1>0, <1>1, <1>2, <1>3, LastKept DEF Said
<1>6. Has(i, "offline.hdel", c) /\ home[c] = None
  BY <1>1, <1>3 DEF Moved, RemovedWhenClosed
<1>7. OpenSaid'
  BY <1>0, <1>1, <1>2, <1>5, <1>6, OpenKept DEF Said
<1>8. ClosedSaid'
  <2>1. CASE fields' # {}
    BY <2>1 DEF ClosedSaid
  <2>2. CASE c \notin fields /\ fields = {}
    <3>1. /\ \A d : /\ <<"online.expire", d>> \notin sent
                    /\ <<"online.publish", d>> \notin sent
          /\ \A d : /\ <<"offline.hlen", d>> \notin done
                    /\ <<"offline.publish", d>> \notin done
      BY <1>1, <1>3
    <3>2. QED BY <1>0, <1>2, <2>2, <3>1, ClosedKept DEF Said
  <2>3. CASE c \in fields
    <3>1. Some("offline.hlen")'
      BY <1>3, <2>3 DEF Some, Moved
    <3>2. ASSUME NEW j \in Instances, NEW d \in Conns, NEW n \in Nat,
                 At(j, n, "online.expire", d)'
          PROVE  Follows(j, n, "offline.hlen", c)'
      <4>1. PICK k \in Nat : At(j, k, "online.expire", d) /\ Keeps(i, j, k, n, sent)
        BY <1>2, <1>3, <3>2 DEF Queued
      <4>2. Has(j, "online.expire", d)
        BY <4>1, Somewhere
      <4>3. j = i
        BY <1>1, <1>6, <4>2 DEF Said, OneWire
      <4>4. QED BY <1>3, <2>3, <4>1, <4>3 DEF Keeps
    <3>3. QED BY <3>1, <3>2 DEF ClosedSaid
  <2>4. QED BY <1>0, <2>1, <2>2, <2>3
<1>9. QED BY <1>4, <1>7, <1>8 DEF Said

\* Who removed a field looks whether any is left.
LEMMA SaidWhenLooked ==
  ASSUME EntryInv, Said, NEW i \in Instances, NEW c \in Conns, HLen(i, c)
  PROVE  Said'
<1> USE DEF EntryInv
<1>0. UNCHANGED <<home, announced, fields>>
  BY DEF HLen
<1> DEFINE done == {<<"offline.hlen", c>>}
<1>1. /\ \A o, d : <<o, d>> \in done => o = "offline.hlen"
      /\ <<"offline.hlen", c>> \in done
      /\ \E p \in Commands \ Beats, d \in Conns : <<p, d>> \in done
      /\ {"online.publish", "online.expire", "offline.hlen"} \subseteq Commands \ Beats
  BY DEF Commands, Beats
<1> HIDE DEF done
<1>2. PICK sent :
        /\ Queued(i, sent, done)
        /\ \/ fields = {} /\ sent = {<<"offline.publish", c>>}
           \/ fields # {} /\ sent = {}
  BY Effects DEF done
<1>3. /\ Moved(i, sent, done)
      /\ \A o, d : <<o, d>> \in sent => o = "offline.publish"
      /\ fields # {} => \A o, d : <<o, d>> \notin sent
      /\ fields = {} => <<"offline.publish", c>> \in sent
  BY <1>2, QueuedHas
<1>4. OneWire'
  BY <1>1, <1>3, OneWireKept DEF Said
<1>5. fields # {} /\ OnlineIsLast => OnlineIsLast'
  BY <1>0, <1>1, <1>2, <1>3, LastKept DEF Said
<1>6. OpenSaid'
  BY <1>0, <1>1, <1>2, <1>5, OpenKept DEF Said
<1>7. ClosedSaid'
  <2> SUFFICES ASSUME fields = {} PROVE ClosedSaid'
    BY <1>0 DEF ClosedSaid
  <2>1. Some("offline.publish")'
    BY <1>3 DEF Some, Moved
  <2>2. Has(i, "offline.hlen", c)
    BY <1>1, <1>3 DEF Moved
  <2>3. ASSUME NEW j \in Instances, NEW d \in Conns, NEW n \in Nat,
               At(j, n, "online.publish", d)'
        PROVE  Follows(j, n, "offline.publish", c)'
    <3>1. PICK k \in Nat : At(j, k, "online.publish", d) /\ Keeps(i, j, k, n, sent)
      BY <1>2, <1>3, <2>3 DEF Queued
    <3>2. Has(j, "online.publish", d)
      BY <3>1, Somewhere
    <3>3. j = i
      BY <1>1, <2>2, <3>2 DEF Said, OneWire
    <3>4. QED BY <1>3, <3>1, <3>3 DEF Keeps
  <2>4. ASSUME NEW j \in Instances, NEW d \in Conns, NEW n \in Nat,
               At(j, n, "online.expire", d)'
        PROVE  \E e \in Conns : Follows(j, n, "offline.hlen", e)'
    <3>1. PICK k \in Nat : At(j, k, "online.expire", d) /\ Keeps(i, j, k, n, sent)
      BY <1>2, <1>3, <2>4 DEF Queued
    <3>2. PICK e \in Conns : Follows(j, k, "offline.hlen", e)
      BY <3>1 DEF Said, ClosedSaid
    <3>3. QED BY <3>1, <3>2 DEF Keeps
  <2>5. QED BY <2>1, <2>3, <2>4 DEF ClosedSaid
<1>8. QED BY <1>4, <1>6, <1>7 DEF Said

\* "presence.offline" is published.
LEMMA SaidWhenOffline ==
  ASSUME EntryInv, Said, NEW i \in Instances, NEW c \in Conns, PublishOffline(i, c)
  PROVE  Said'
<1> USE DEF EntryInv
<1>0. UNCHANGED <<home, fields>> /\ announced' = FALSE
  BY DEF PublishOffline
<1> DEFINE done == {<<"offline.publish", c>>}
<1>1. /\ \A o, d : <<o, d>> \in done => o = "offline.publish"
      /\ <<"offline.publish", c>> \in done
  OBVIOUS
<1>2. Queued(i, {}, done) /\ Moved(i, {}, done)
  BY Effects, QueuedHas
<1> HIDE DEF done
<1>3. OneWire'
  BY <1>2, OneWireKept DEF Said
<1>4. OnlineIsLast => OnlineIsLast'
  BY <1>1, <1>2, LastKept DEF Said
<1>5. OpenSaid'
  BY <1>0, <1>1, <1>2, <1>4, OpenKept DEF Said
<1>6. ClosedSaid'
  <2> SUFFICES ASSUME fields = {} PROVE ClosedSaid'
    BY <1>0 DEF ClosedSaid
  <2>1. Some("offline.hlen") => Some("offline.hlen")'
    BY <1>1, <1>2 DEF Some, Moved
  <2>2. ASSUME NEW j \in Instances, NEW d \in Conns, NEW n \in Nat,
               At(j, n, "online.publish", d)'
        PROVE  Some("offline.hlen")' \/ \E e \in Conns : Follows(j, n, "offline.publish", e)'
    <3>1. PICK k \in Nat : At(j, k, "online.publish", d) /\ Keeps(i, j, k, n, {})
      BY <1>2, <2>2 DEF Queued
    <3>2. Some("offline.hlen") \/ \E e \in Conns : Follows(j, k, "offline.publish", e)
      BY <3>1 DEF Said, ClosedSaid
    <3>3. QED BY <2>1, <3>1, <3>2 DEF Keeps
  <2>3. ASSUME NEW j \in Instances, NEW d \in Conns, NEW n \in Nat,
               At(j, n, "online.expire", d)'
        PROVE  \E e \in Conns : Follows(j, n, "offline.hlen", e)'
    <3>1. PICK k \in Nat : At(j, k, "online.expire", d) /\ Keeps(i, j, k, n, {})
      BY <1>2, <2>3 DEF Queued
    <3>2. \E e \in Conns : Follows(j, k, "offline.hlen", e)
      BY <3>1 DEF Said, ClosedSaid
    <3>3. QED BY <3>1, <3>2 DEF Keeps
  <2>4. QED BY <1>0, <2>1, <2>2, <2>3 DEF ClosedSaid
<1>7. QED BY <1>3, <1>5, <1>6 DEF Said

\* Undisturbed, the key of a user who has gone is gone, and cannot expire.
LEMMA NothingLapses ==
  ASSUME EntryInv, LivesWithFields, happened' = {}
  PROVE  ~ Lapse
<1> SUFFICES ASSUME Lapse PROVE FALSE
  OBVIOUS
<1>1. happened = {} /\ Open = {} /\ Quiet /\ ttl
  BY DEF Lapse, Note
<1>2. \A c \in fields : c \in Conns /\ home[c] = None
  BY <1>1 DEF EntryInv, TypeOK, Open
<1>3. \A i \in Instances : \A c : ~ Has(i, "offline.hdel", c)
  BY <1>1, OfTheUser DEF EntryInv, Quiet
<1>4. fields = {}
  BY <1>1, <1>2, <1>3 DEF EntryInv, LeftInv
<1>5. QED BY <1>1, <1>4 DEF LivesWithFields

LEMMA SaidStep ==
  EntryInv /\ LivesWithFields /\ SaidInv /\ TypeOK' /\ [Next]_vars => SaidInv'
<1> SUFFICES ASSUME EntryInv, LivesWithFields, SaidInv, TypeOK', [Next]_vars, happened' = {}
             PROVE  Said'
  BY DEF SaidInv, Said
<1>1. happened = {}
  BY DEF Next, Redis, vars, Connect, Disconnect, SendBeat, HSet, Expire, PublishOnline, HDel,
         HLen, PublishOffline, Lapse, CrashInstance, Note
<1>2. Said
  BY <1>1 DEF SaidInv, Said
<1>3. CASE UNCHANGED vars
  <2>1. \A i, n, s, d : At(i, n, s, d)' = At(i, n, s, d)
    BY <1>3 DEF vars, At
  <2>2. /\ \A i, s, d : Has(i, s, d)' = Has(i, s, d)
        /\ \A i, n, s, d : Follows(i, n, s, d)' = Follows(i, n, s, d)
    BY <2>1 DEF Has, Follows
  <2>3. OneWire'
    BY <1>2, <2>2 DEF Said, OneWire
  <2>4. OpenSaid' /\ ClosedSaid'
    BY <1>2, <1>3, <2>1, <2>2 DEF vars, Said, OpenSaid, ClosedSaid, OnlineIsLast, Some, Open
  <2>5. QED BY <1>2, <1>3, <2>3, <2>4 DEF vars, Said
<1>4. ASSUME NEW c \in Conns, Connect(c) \/ Disconnect(c) \/ SendBeat(c) PROVE Said'
  BY <1>2, <1>4, SaidWhenSent
<1>5. ASSUME NEW i \in Instances, NEW c \in Conns,
             HSet(i, c) \/ Expire(i, c) \/ PublishOnline(i, c)
             \/ HDel(i, c) \/ HLen(i, c) \/ PublishOffline(i, c)
      PROVE  Said'
  BY <1>2, <1>5, SaidWhenEntered, SaidWhenExpires, SaidWhenOnline, SaidWhenLeft,
     SaidWhenLooked, SaidWhenOffline
<1>6. ASSUME NEW i \in Instances PROVE ~ CrashInstance(i)
  BY DEF CrashInstance, Note
<1>7. ~ Lapse
  BY NothingLapses
<1>8. QED BY <1>3, <1>4, <1>5, <1>6, <1>7 DEF Next, Redis

\* For any number of instances and sockets: as long as nothing expires, no instance
\* crashes and sockets do not open or close while another instance has commands under
\* way, the last event says whether the user is online (mark-user-online.ts, 12-19;
\* mark-user-offline.ts, 12-22).
THEOREM WhatIsAnnouncedIsTrue == Spec => []AnnouncedIsTrue
<1>1. Init => EntryInv /\ LivesWithFields /\ SaidInv
  <2> SUFFICES ASSUME Init, EntryInv PROVE LivesWithFields /\ SaidInv
    BY EntriesStart
  <2>1. \A i \in Instances : wire[i] = <<>>
    BY DEF Init
  <2>2. \A i \in Instances : \A op, c : ~ Has(i, op, c)
    BY <2>1, OfTheUser DEF EntryInv
  <2>3. \A i \in Instances : \A op, c : \A n \in Nat : ~ At(i, n, op, c)
    BY <2>2, Somewhere
  <2>4. QED
    BY <2>2, <2>3 DEF Init, LivesWithFields, SaidInv, OneWire, OpenSaid, ClosedSaid
<1>2. EntryInv /\ LivesWithFields /\ SaidInv /\ [Next]_vars
      => (EntryInv /\ LivesWithFields /\ SaidInv)'
  <2>1. EntryInv /\ [Next]_vars => TypeOK'
    BY TypeStep DEF EntryInv
  <2>2. EntryInv => TypeOK
    BY DEF EntryInv
  <2>3. QED BY <2>1, <2>2, EntryStep, LivesStep, SaidStep
<1>3. EntryInv /\ SaidInv => AnnouncedIsTrue
  <2> SUFFICES ASSUME EntryInv, SaidInv, happened = {}, Quiet PROVE announced = (Open # {})
    BY DEF AnnouncedIsTrue
  <2>0. Said /\ TypeOK
    BY DEF SaidInv, Said, EntryInv
  <2>1. \A i \in Instances : \A op, c : ~ Has(i, op, c)
    BY <2>0, OfTheUser DEF Quiet
  <2>2. \A op : ~ Some(op)
    BY <2>1 DEF Some
  <2>3. CASE Open # {}
    <3>1. PICK c \in Conns, j \in Instances : home[c] = j /\ j # None
      BY <2>0, <2>3 DEF Open, TypeOK
    <3>2. OnlineIsLast
      BY <2>0, <2>1, <3>1 DEF Said, OpenSaid
    <3>3. \A i \in Instances : \A d : \A n \in Nat : ~ At(i, n, "online.publish", d)
      BY <2>1, Somewhere
    <3>4. announced
      BY <2>2, <3>2, <3>3 DEF OnlineIsLast
    <3>5. QED BY <2>0, <2>3, <3>4 DEF TypeOK
  <2>4. CASE Open = {}
    <3>1. fields = {}
      BY <2>0, <2>1, <2>4 DEF EntryInv, LeftInv, TypeOK, Open
    <3>2. ~ announced
      BY <2>0, <2>2, <3>1 DEF Said, ClosedSaid
    <3>3. QED BY <2>0, <2>4, <3>2 DEF TypeOK
  <2>5. QED BY <2>3, <2>4
<1>4. QED BY <1>1, <1>2, <1>3, PTL DEF Spec
=============================================================================
