------------------------- MODULE RefreshTokensProofs -------------------------
(***************************************************************************)
(* What RefreshTokens guarantees, for any number of tokens, requests and   *)
(* resets.  The invariant comes in four parts, each proved from the parts  *)
(* before it: what the rows and the requests are about (TokensInv), what   *)
(* clients have been given (GivenInv), what a password reset leaves        *)
(* (ResetInv), and what holds of a family whose requests did not overlap   *)
(* (OrderlyInv).                                                           *)
(***************************************************************************)
EXTENDS RefreshTokens, TLAPS

\* A row: its links, and the first token of its family.
RowOK(t) ==
  Exists(t) =>
    /\ Exists(Family(t))
    /\ table[t].parent # None =>
         Exists(table[t].parent) /\ Family(table[t].parent) = Family(t)
    /\ table[t].replacedBy # None =>
         LET c == table[t].replacedBy
         IN table[t].revoked /\ Exists(c) /\ table[c].parent = t /\ Family(c) = Family(t)

\* A request between the read of a token and its last statement about it.
Reading(p) == request[p].at \in {"lookup", "insert", "mark", "burn", "logout"}
FamilyOf(p) == Family(request[p].current)

RequestOK(p) ==
  LET q == request[p] IN
  /\ Reading(p) => q.current \in Tokens /\ Exists(q.current)
  /\ q.at \in {"lookup", "mark", "respond"} => q.child \in Tokens /\ Exists(q.child)
  /\ q.at \in {"lookup", "mark"} => Family(q.child) = FamilyOf(p)
  /\ q.at = "mark" => table[q.child].parent = q.current

TokensInv ==
  /\ TypeOK
  /\ \A t \in Tokens : RowOK(t)
  /\ \A p \in Requests : RequestOK(p)
  /\ \A t \in known : Exists(t)

\* A token whose replacement is recorded.
Linked(t) == Exists(t) /\ table[t].revoked /\ table[t].replacedBy # None

\* The tokens clients have, or are about to be given.
Given == known \cup {request[p].child : p \in {q \in Requests : request[q].at = "respond"}}

GivenInv == \A c \in Given, t \in Tokens \ erased : table[c].parent = t => Linked(t)

\* What is left of the sessions older than the last reset.
ResetInv ==
  /\ swept <= password
  /\ \A p \in Requests : request[p].at = "revokeAll" => request[p].version <= password
  /\ ResetEndsOldSessions
  /\ \A p \in Requests :
       request[p].at = "insertRoot" /\ request[p].version < swept => p \in stragglers
  /\ \A p \in Requests :
       request[p].at = "insert" /\ cred[request[p].current] < swept =>
         p \in stragglers \/ request[p].current \in stragglers

\* The tokens of a family that a client has, is about to be given, or can reach by
\* a retry in the grace window.
Reachable(c) == c \in Given \/ \E t \in Tokens : Exists(t) /\ table[t].replacedBy = c

\* A family whose requests did not overlap: one request at a time reads it, ...
Solo(f) ==
  \A p, q \in Requests :
    Reading(p) /\ Reading(q) /\ FamilyOf(p) = f /\ FamilyOf(q) = f => p = q

\* ... which is right about the row it has read and rotates the only live token
\* anybody can use; each token was exchanged once; ...
CurrentOf(p, f) ==
  LET t == request[p].current IN
  /\ request[p].at = "lookup" => table[t].replacedBy = request[p].child
  /\ request[p].at \in {"insert", "mark", "logout"} => table[t].replacedBy = None
  /\ request[p].at \in {"insert", "mark"} =>
       \A c \in Tokens : Active(c) /\ Family(c) = f /\ Reachable(c) => c = t

Current(f) == \A p \in Requests : Reading(p) /\ FamilyOf(p) = f => CurrentOf(p, f)

OneReachable(f) ==
  \A c, d \in Tokens :
    /\ Active(c) /\ Reachable(c) /\ Family(c) = f
    /\ Active(d) /\ Reachable(d) /\ Family(d) = f
    => c = d

Exchanged(f) ==
  \A c \in Given : Family(c) = f /\ table[c].parent # None =>
                     table[table[c].parent].replacedBy = c

\* ... and the family is dead once a replay has been detected.
Orderly(f) ==
  /\ Solo(f) /\ Current(f) /\ OneReachable(f) /\ Exchanged(f)
  /\ f \in burned => Dead(f)

OrderlyInv == \A f \in Tokens \ raced : Orderly(f)

-----------------------------------------------------------------------------
(* The rows a statement leaves                                             *)

LEMMA NoneIsNoToken ==
  None \notin Tokens /\ None \notin Row /\ Tokens \cap Requests = {}
BY TokensAssumption

LEMMA IdleIsLocals == Idle \in Locals
BY DEF Idle, Locals, Stages

LEMMA ExistsIsRow ==
  ASSUME TypeOK, NEW t \in Tokens
  PROVE  Exists(t) <=> table[t] \in Row
BY NoneIsNoToken DEF TypeOK, Exists

\* A row of no token has changed.
SameRow(t) ==
  /\ Exists(t)' <=> Exists(t)
  /\ table'[t] = table[t]

\* No row disappears, or changes its family or its parent.
Kept ==
  \A t \in Tokens : Exists(t) =>
    Exists(t)' /\ Family(t)' = Family(t) /\ table'[t].parent = table[t].parent

LEMMA InsertRow ==
  ASSUME TypeOK, NEW n \in Tokens, NEW f \in Tokens, NEW par \in Tokens \cup {None},
         Insert(n, f, par)
  PROVE  /\ table' \in [Tokens -> Row \cup {None}]
         /\ ~ Exists(n) /\ Exists(n)' /\ Active(n)'
         /\ table'[n].family = f /\ table'[n].parent = par /\ table'[n].replacedBy = None
         /\ \A t \in Tokens \ {n} : SameRow(t)
         /\ Kept
         /\ UNCHANGED <<expired, recent>>
<1>1. NewRow(f, par) \in Row /\ NewRow(f, par) # None
  <2>1. NewRow(f, par) \in Row
    BY DEF NewRow, Row
  <2>2. QED BY <2>1, NoneIsNoToken
<1>2. /\ ~ Exists(n) /\ table'[n] = NewRow(f, par)
      /\ \A t \in Tokens \ {n} : table'[t] = table[t]
      /\ table' \in [Tokens -> Row \cup {None}]
  BY <1>1 DEF Insert, TypeOK
<1>3. /\ NewRow(f, par).family = f /\ NewRow(f, par).parent = par
      /\ NewRow(f, par).replacedBy = None /\ NewRow(f, par).revoked = FALSE
  BY DEF NewRow
<1>4. Exists(n)' /\ Active(n)'
  BY <1>1, <1>2, <1>3 DEF Exists, Active
<1>5. \A t \in Tokens \ {n} : SameRow(t)
  BY <1>2 DEF SameRow, Exists
<1>6. Kept
  BY <1>2, <1>5 DEF Kept, SameRow, Family
<1>7. QED BY <1>2, <1>3, <1>4, <1>5, <1>6 DEF Insert

LEMMA MarkRow ==
  ASSUME TypeOK, NEW t \in Tokens, Exists(t), NEW by \in Tokens \cup {None},
         MarkRevoked(t, by)
  PROVE  /\ table' \in [Tokens -> Row \cup {None}]
         /\ expired' \in SUBSET Tokens /\ recent' \in SUBSET Tokens
         /\ Exists(t)' /\ table'[t].revoked /\ table'[t].replacedBy = by
         /\ \A u \in Tokens \ {t} : SameRow(u)
         /\ Kept
<1> DEFINE row == [table[t] EXCEPT !.revoked = TRUE, !.replacedBy = by]
<1>1. table[t] \in Row
  BY ExistsIsRow
<1>2. /\ row \in Row /\ row # None /\ row.revoked /\ row.replacedBy = by
      /\ row.family = table[t].family /\ row.parent = table[t].parent
  BY <1>1, NoneIsNoToken DEF Row
<1>3. table' = [table EXCEPT ![t] = row]
  BY DEF MarkRevoked
<1> HIDE DEF row
<1>4. /\ table'[t] = row /\ table' \in [Tokens -> Row \cup {None}]
      /\ \A u \in Tokens \ {t} : table'[u] = table[u]
  BY <1>2, <1>3 DEF TypeOK
<1>5. expired' \in SUBSET Tokens /\ recent' \in SUBSET Tokens
  BY DEF MarkRevoked, TypeOK
<1>6. \A u \in Tokens \ {t} : SameRow(u)
  BY <1>4 DEF SameRow, Exists
<1>7. Exists(t)' /\ Family(t)' = Family(t) /\ table'[t].parent = table[t].parent
  BY <1>2, <1>4 DEF Exists, Family
<1>8. Kept
  BY <1>4, <1>6, <1>7 DEF Kept, SameRow, Family
<1>9. QED BY <1>2, <1>4, <1>5, <1>6, <1>7, <1>8

LEMMA RevokeRows ==
  ASSUME TypeOK, NEW ts \in SUBSET {t \in Tokens : Active(t)}, Revoke(ts)
  PROVE  /\ table' \in [Tokens -> Row \cup {None}]
         /\ expired' \in SUBSET Tokens /\ recent' \in SUBSET Tokens
         /\ \A t \in Tokens : Exists(t)' <=> Exists(t)
         /\ \A t \in Tokens : Exists(t) =>
              /\ table'[t].family = table[t].family
              /\ table'[t].parent = table[t].parent
              /\ table'[t].replacedBy = table[t].replacedBy
              /\ table'[t].revoked <=> table[t].revoked \/ t \in ts
         /\ Kept
<1>1. ASSUME NEW t \in ts
      PROVE  /\ table'[t] \in Row /\ Exists(t) /\ Exists(t)'
             /\ table'[t].family = table[t].family
             /\ table'[t].parent = table[t].parent
             /\ table'[t].replacedBy = table[t].replacedBy
             /\ table'[t].revoked
  <2>1. Exists(t) /\ table[t] \in Row /\ t \in Tokens
    BY ExistsIsRow DEF Active
  <2>2. table'[t] = [table[t] EXCEPT !.revoked = TRUE]
    BY <2>1 DEF Revoke
  <2>3. [table[t] EXCEPT !.revoked = TRUE] \in Row
    BY <2>1 DEF Row
  <2>4. QED BY <2>1, <2>2, <2>3, NoneIsNoToken DEF Exists, Row
<1>2. \A t \in Tokens \ ts : table'[t] = table[t]
  BY DEF Revoke
<1>3. table' \in [Tokens -> Row \cup {None}]
  <2>1. table' = [t \in Tokens |-> table'[t]]
    BY DEF Revoke
  <2>2. \A t \in Tokens : table'[t] \in Row \cup {None}
    BY <1>1, <1>2 DEF TypeOK
  <2>3. QED BY <2>1, <2>2
<1>4. expired' \in SUBSET Tokens /\ recent' \in SUBSET Tokens
  BY DEF Revoke, TypeOK
<1>5. \A t \in Tokens : Exists(t)' <=> Exists(t)
  BY <1>1, <1>2 DEF Exists
<1>6. \A t \in Tokens : Exists(t) =>
        /\ table'[t].family = table[t].family
        /\ table'[t].parent = table[t].parent
        /\ table'[t].replacedBy = table[t].replacedBy
        /\ table'[t].revoked <=> table[t].revoked \/ t \in ts
  BY <1>1, <1>2
<1>7. Kept
  BY <1>5, <1>6 DEF Kept, Family
<1>8. QED BY <1>3, <1>4, <1>5, <1>6, <1>7

-----------------------------------------------------------------------------
(* Rows and requests                                                       *)

LEMMA InsertKeepsRows ==
  ASSUME TokensInv, NEW n \in Tokens, NEW f \in Tokens, NEW par \in Tokens \cup {None},
         Insert(n, f, par), par = None => f = n,
         par # None => Exists(par) /\ Family(par) = f
  PROVE  \A t \in Tokens : RowOK(t)'
<1> USE DEF TokensInv
<1> SUFFICES ASSUME NEW t \in Tokens PROVE RowOK(t)'
  OBVIOUS
<1>1. /\ ~ Exists(n) /\ Exists(n)'
      /\ table'[n].family = f /\ table'[n].parent = par /\ table'[n].replacedBy = None
      /\ \A u \in Tokens \ {n} : SameRow(u)
      /\ Kept
  BY InsertRow
<1>2. CASE t = n
  <2>1. Exists(f)'
    <3>1. CASE par = None
      BY <1>1, <3>1
    <3>2. CASE par # None
      <4>1. Exists(par) /\ par \in Tokens /\ Family(par) = f
        BY <3>2
      <4>2. Exists(f)
        BY <4>1 DEF RowOK
      <4>3. QED BY <1>1, <4>2 DEF Kept
    <3>3. QED BY <3>1, <3>2
  <2>2. par # None => Exists(par)' /\ Family(par)' = f
    BY <1>1 DEF Kept
  <2>3. QED BY <1>1, <1>2, <2>1, <2>2 DEF RowOK, Family
<1>3. CASE t # n
  <2>1. SUFFICES ASSUME Exists(t)' PROVE RowOK(t)'
    BY DEF RowOK
  <2>2. Exists(t) /\ table'[t] = table[t] /\ RowOK(t) /\ table[t] \in Row
    BY <1>1, <1>3, <2>1, ExistsIsRow DEF SameRow
  <2>3. \A u \in Tokens : Exists(u) => Exists(u)' /\ Family(u)' = Family(u)
                            /\ table'[u].parent = table[u].parent
    BY <1>1 DEF Kept
  <2>4. QED BY <2>2, <2>3 DEF RowOK, Family, Row
<1>4. QED BY <1>2, <1>3

LEMMA MarkKeepsRows ==
  ASSUME TokensInv, NEW x \in Tokens, Exists(x), NEW by \in Tokens \cup {None},
         MarkRevoked(x, by),
         by # None => Exists(by) /\ table[by].parent = x /\ Family(by) = Family(x)
  PROVE  \A t \in Tokens : RowOK(t)'
<1> USE DEF TokensInv
<1> SUFFICES ASSUME NEW t \in Tokens, Exists(t)' PROVE RowOK(t)'
  BY DEF RowOK
<1>1. /\ Exists(x)' /\ table'[x].revoked /\ table'[x].replacedBy = by
      /\ \A u \in Tokens \ {x} : SameRow(u)
      /\ Kept
  BY MarkRow
<1>2. \A u \in Tokens : Exists(u) => Exists(u)' /\ Family(u)' = Family(u)
                          /\ table'[u].parent = table[u].parent
  BY <1>1 DEF Kept
<1>3. Exists(t) /\ RowOK(t) /\ table[t] \in Row
  BY <1>1, ExistsIsRow DEF SameRow
<1>4. CASE t = x
  BY <1>1, <1>2, <1>3, <1>4 DEF RowOK, Family, Row
<1>5. CASE t # x
  BY <1>1, <1>2, <1>3, <1>5 DEF RowOK, Family, Row, SameRow
<1>6. QED BY <1>4, <1>5

LEMMA RevokeKeepsRows ==
  ASSUME TokensInv, NEW ts \in SUBSET {t \in Tokens : Active(t)}, Revoke(ts)
  PROVE  \A t \in Tokens : RowOK(t)'
<1> USE DEF TokensInv
<1> SUFFICES ASSUME NEW t \in Tokens, Exists(t)' PROVE RowOK(t)'
  BY DEF RowOK
<1>1. /\ \A u \in Tokens : Exists(u)' <=> Exists(u)
      /\ \A u \in Tokens : Exists(u) =>
           /\ table'[u].family = table[u].family
           /\ table'[u].parent = table[u].parent
           /\ table'[u].replacedBy = table[u].replacedBy
           /\ table'[u].revoked <=> table[u].revoked \/ u \in ts
  BY RevokeRows
<1>2. Exists(t) /\ RowOK(t) /\ table[t] \in Row
  BY <1>1, ExistsIsRow
<1>3. QED BY <1>1, <1>2 DEF RowOK, Family, Row

\* A step of one request that keeps the rows leaves the others what they rely on.
LEMMA TokensFrame ==
  ASSUME TokensInv, TypeOK', NEW p \in Requests,
         \A x \in Requests \ {p} : request'[x] = request[x],
         Kept, \A t \in Tokens : RowOK(t)', RequestOK(p)', \A t \in known' : Exists(t)'
  PROVE  TokensInv'
<1>1. ASSUME NEW x \in Requests \ {p} PROVE RequestOK(x)'
  <2>1. RequestOK(x) /\ request'[x] = request[x]
    BY DEF TokensInv
  <2>2. \A t \in Tokens : Exists(t) =>
          Exists(t)' /\ Family(t)' = Family(t) /\ table'[t].parent = table[t].parent
    BY DEF Kept
  <2>3. QED BY <2>1, <2>2 DEF RequestOK, Reading, FamilyOf
<1>2. QED BY <1>1 DEF TokensInv

\* request is changed at p only.
Moves(p, q) == q \in Locals /\ request' = [request EXCEPT ![p] = q]

LEMMA MovesOnly ==
  ASSUME TypeOK, NEW p \in Requests, NEW q, Moves(p, q)
  PROVE  /\ request'[p] = q /\ request' \in [Requests -> Locals]
         /\ \A x \in Requests \ {p} : request'[x] = request[x]
BY DEF TypeOK, Moves

LEMMA StartMoves ==
  ASSUME NEW p \in Requests, NEW q \in Locals, Start(p, q)
  PROVE  Moves(p, q) /\ request[p] = Idle
BY DEF Start, Moves

LEMMA GotoMoves ==
  ASSUME TypeOK, NEW p \in Requests, NEW stage \in Stages, Goto(p, stage)
  PROVE  Moves(p, [request[p] EXCEPT !.at = stage])
BY DEF Goto, Moves, Locals, TypeOK

LEMMA FinishMoves ==
  ASSUME NEW p \in Requests, Finish(p)
  PROVE  Moves(p, Idle)
BY IdleIsLocals DEF Finish, Moves

\* The step of one request that leaves the rows alone.
LEMMA TokensReadStep ==
  ASSUME TokensInv, NEW p \in Requests, NEW q, Moves(p, q), TypeOK',
         table' = table, RequestOK(p)', \A t \in known' : Exists(t)
  PROVE  TokensInv'
<1>1. \A x \in Requests \ {p} : request'[x] = request[x]
  BY MovesOnly DEF TokensInv
<1>2. Kept
  BY DEF Kept, Exists, Family
<1>3. \A t \in Tokens : RowOK(t)'
  BY DEF TokensInv, RowOK, Exists, Family
<1>4. \A t \in known' : Exists(t)'
  BY DEF Exists
<1>5. QED BY <1>1, <1>2, <1>3, <1>4, TokensFrame

\* A request that ends, or is about the user only, relies on nothing.
LEMMA NothingRead ==
  ASSUME NEW p \in Requests,
         request'[p].at \in {"idle", "insertRoot", "setPassword", "revokeAll"}
  PROVE  RequestOK(p)'
BY DEF RequestOK, Reading

LEMMA TokensInit == Init => TokensInv
<1> SUFFICES ASSUME Init PROVE TokensInv
  OBVIOUS
<1>1. TypeOK
  BY IdleIsLocals DEF Init, TypeOK
<1>2. \A p \in Requests : RequestOK(p)
  BY DEF Init, RequestOK, Reading, Idle
<1>3. \A t \in Tokens : RowOK(t)
  BY DEF Init, RowOK, Exists
<1>4. QED BY <1>1, <1>2, <1>3 DEF TokensInv, Init

LEMMA TokensLogin ==
  ASSUME TokensInv, NEW p \in Requests, LoginVerify(p) \/ LoginInsert(p)
  PROVE  TokensInv'
<1> USE DEF TokensInv
<1>1. CASE LoginVerify(p)
  <2> DEFINE q == [Idle EXCEPT !.at = "insertRoot", !.version = password]
  <2>1. q \in Locals /\ q.at = "insertRoot"
    BY IdleIsLocals DEF Locals, Stages, TypeOK
  <2>2. Start(p, q) /\ UNCHANGED <<rowVars, password, ghosts>>
    BY <1>1 DEF LoginVerify
  <2> HIDE DEF q
  <2>3. Moves(p, q)
    BY <2>1, <2>2, StartMoves
  <2>4. request'[p] = q /\ request' \in [Requests -> Locals]
    BY <2>3, MovesOnly
  <2>5. TypeOK'
    BY <2>2, <2>4 DEF TypeOK, rowVars, ghosts
  <2>6. RequestOK(p)'
    BY <2>1, <2>4, NothingRead
  <2>7. QED BY <2>2, <2>3, <2>5, <2>6, TokensReadStep DEF rowVars, ghosts
<1>2. CASE LoginInsert(p)
  <2>1. PICK n \in Tokens :
          /\ Insert(n, n, None)
          /\ request' = [request EXCEPT ![p].at = "respond", ![p].child = n]
          /\ cred' = [cred EXCEPT ![n] = request[p].version]
          /\ stragglers' = (stragglers \ {p}) \cup (IF p \in stragglers THEN {n} ELSE {})
    BY <1>2 DEF LoginInsert
  <2> DEFINE q == [request[p] EXCEPT !.at = "respond", !.child = n]
  <2>2. q \in Locals /\ q.at = "respond" /\ q.child = n /\ request[p].version \in Nat
    BY DEF Locals, Stages, TypeOK
  <2>3. Moves(p, q)
    BY <2>1, <2>2 DEF Moves
  <2> HIDE DEF q
  <2>4. /\ request'[p] = q /\ request' \in [Requests -> Locals]
        /\ \A x \in Requests \ {p} : request'[x] = request[x]
    BY <2>3, MovesOnly
  <2>5. table' \in [Tokens -> Row \cup {None}] /\ Exists(n)' /\ Kept
        /\ UNCHANGED <<expired, recent>>
    BY <2>1, InsertRow
  <2>6. TypeOK'
    <3>1. cred' \in [Tokens -> Nat] /\ stragglers' \in SUBSET (Tokens \cup Requests)
      BY <2>1, <2>2 DEF TypeOK
    <3>2. UNCHANGED <<password, known, swept, burned, raced, erased>>
      BY <1>2 DEF LoginInsert
    <3>3. QED BY <2>4, <2>5, <3>1, <3>2 DEF TypeOK
  <2>7. RequestOK(p)'
    BY <2>2, <2>4, <2>5 DEF RequestOK, Reading
  <2>8. \A t \in Tokens : RowOK(t)'
    BY <2>1, InsertKeepsRows
  <2>9. \A t \in known' : Exists(t)'
    BY <1>2, <2>5 DEF LoginInsert, Kept, TypeOK
  <2>10. QED BY <2>4, <2>5, <2>6, <2>7, <2>8, <2>9, TokensFrame
<1>3. QED BY <1>1, <1>2

LEMMA TokensRefreshRead ==
  ASSUME TokensInv, NEW p \in Requests, RefreshRead(p)
  PROVE  TokensInv'
<1> USE DEF TokensInv
<1>1. PICK t \in known :
        /\ \/ MayRotate(t) /\ Start(p, [Idle EXCEPT !.at = "insert", !.current = t])
           \/ InGrace(t) /\ Start(p, [Idle EXCEPT !.at = "lookup", !.current = t,
                                                 !.child = table[t].replacedBy])
           \/ IsReplay(t) /\ Start(p, [Idle EXCEPT !.at = "burn", !.current = t])
        /\ NoteRead(t)
        /\ UNCHANGED <<rowVars, password, known, cred, swept, stragglers, burned, erased>>
  BY DEF RefreshRead
<1>2. t \in Tokens /\ Exists(t) /\ table[t] \in Row /\ RowOK(t)
  BY ExistsIsRow DEF TypeOK
<1>3. raced' \in SUBSET Tokens
  BY <1>1, <1>2 DEF NoteRead, Family, Row, TypeOK
<1>4. ASSUME NEW q \in Locals, Start(p, q), q.current = t, q.at \in {"insert", "lookup", "burn"},
             q.at = "lookup" => q.child = table[t].replacedBy /\ InGrace(t)
      PROVE  TokensInv'
  <2>1. Moves(p, q)
    BY <1>4, StartMoves
  <2>2. request'[p] = q /\ request' \in [Requests -> Locals]
    BY <2>1, MovesOnly
  <2>3. TypeOK'
    BY <1>1, <1>3, <2>2 DEF TypeOK, rowVars
  <2>4. table' = table /\ known' = known
    BY <1>1 DEF rowVars
  <2>5. q.at = "lookup" => q.child \in Tokens /\ Exists(q.child) /\ Family(q.child) = Family(t)
    BY <1>2, <1>4 DEF InGrace, RowOK, Row
  <2>6. RequestOK(p)'
    BY <1>2, <1>4, <2>2, <2>4, <2>5 DEF RequestOK, Reading, FamilyOf, Exists, Family
  <2>7. QED BY <2>1, <2>3, <2>4, <2>6, TokensReadStep
<1>5. CASE Start(p, [Idle EXCEPT !.at = "insert", !.current = t])
  <2> DEFINE q == [Idle EXCEPT !.at = "insert", !.current = t]
  <2>1. q \in Locals /\ q.at = "insert" /\ q.current = t
    BY <1>2, IdleIsLocals DEF Locals, Stages
  <2> HIDE DEF q
  <2>2. QED BY <1>4, <1>5, <2>1 DEF q
<1>6. CASE InGrace(t) /\ Start(p, [Idle EXCEPT !.at = "lookup", !.current = t,
                                              !.child = table[t].replacedBy])
  <2> DEFINE q == [Idle EXCEPT !.at = "lookup", !.current = t, !.child = table[t].replacedBy]
  <2>1. q \in Locals /\ q.at = "lookup" /\ q.current = t /\ q.child = table[t].replacedBy
    BY <1>2, IdleIsLocals DEF Locals, Stages, Row
  <2> HIDE DEF q
  <2>2. QED BY <1>4, <1>6, <2>1 DEF q
<1>7. CASE Start(p, [Idle EXCEPT !.at = "burn", !.current = t])
  <2> DEFINE q == [Idle EXCEPT !.at = "burn", !.current = t]
  <2>1. q \in Locals /\ q.at = "burn" /\ q.current = t
    BY <1>2, IdleIsLocals DEF Locals, Stages
  <2> HIDE DEF q
  <2>2. QED BY <1>4, <1>7, <2>1 DEF q
<1>8. QED BY <1>1, <1>5, <1>6, <1>7

LEMMA TokensRefreshLookup ==
  ASSUME TokensInv, NEW p \in Requests, RefreshLookup(p)
  PROVE  TokensInv'
<1> USE DEF TokensInv
<1>1. /\ request[p].at = "lookup" /\ RequestOK(p) /\ request[p] \in Locals
      /\ UNCHANGED <<rowVars, password, ghosts>>
  BY DEF RefreshLookup, TypeOK
<1>2. /\ request[p].current \in Tokens /\ Exists(request[p].current)
      /\ request[p].child \in Tokens /\ Exists(request[p].child)
  BY <1>1 DEF RequestOK, Reading
<1>3. ASSUME NEW q, Moves(p, q), q.at \in {"insert", "burn"},
             q.current \in Tokens, Exists(q.current)
      PROVE  TokensInv'
  <2>1. request'[p] = q /\ request' \in [Requests -> Locals]
    BY <1>3, MovesOnly
  <2>2. TypeOK'
    BY <1>1, <2>1 DEF TypeOK, rowVars, ghosts
  <2>3. table' = table /\ known' = known
    BY <1>1 DEF rowVars, ghosts
  <2>4. RequestOK(p)'
    BY <1>3, <2>1, <2>3 DEF RequestOK, Reading, FamilyOf, Exists, Family
  <2>5. QED BY <1>3, <2>2, <2>3, <2>4, TokensReadStep
<1>4. CASE Usable(request[p].child)
  <2> DEFINE q == [request[p] EXCEPT !.at = "insert", !.current = request[p].child,
                                     !.child = None]
  <2>1. q \in Locals /\ q.at = "insert" /\ q.current = request[p].child
    BY <1>1, <1>2 DEF Locals, Stages
  <2>2. Moves(p, q)
    BY <1>4, <2>1 DEF RefreshLookup, Moves
  <2> HIDE DEF q
  <2>3. QED BY <1>2, <1>3, <2>1, <2>2
<1>5. CASE Goto(p, "burn")
  <2> DEFINE q == [request[p] EXCEPT !.at = "burn"]
  <2>1. q.at = "burn" /\ q.current = request[p].current
    BY <1>1 DEF Locals
  <2>2. Moves(p, q)
    BY <1>5, GotoMoves DEF Stages
  <2> HIDE DEF q
  <2>3. QED BY <1>2, <1>3, <2>1, <2>2
<1>6. QED BY <1>4, <1>5 DEF RefreshLookup

LEMMA TokensRefreshInsert ==
  ASSUME TokensInv, NEW p \in Requests, RefreshInsert(p)
  PROVE  TokensInv'
<1> USE DEF TokensInv
<1>1. /\ request[p].at = "insert" /\ RequestOK(p) /\ request[p] \in Locals
      /\ UNCHANGED <<password, known, swept, burned, raced, erased>>
  BY DEF RefreshInsert, TypeOK
<1>2. PICK current \in Tokens : current = request[p].current /\ Exists(current)
  BY <1>1 DEF RequestOK, Reading
<1>3. Family(current) \in Tokens
  BY <1>2, ExistsIsRow DEF Family, Row
<1>4. PICK n \in Tokens :
        /\ Insert(n, Family(current), current)
        /\ request' = [request EXCEPT ![p].at = "mark", ![p].child = n]
        /\ cred' = [cred EXCEPT ![n] = cred[current]]
        /\ stragglers' = (stragglers \ {p}) \cup
             (IF p \in stragglers \/ current \in stragglers THEN {n} ELSE {})
  BY <1>2 DEF RefreshInsert
<1> DEFINE q == [request[p] EXCEPT !.at = "mark", !.child = n]
<1>5. q \in Locals /\ q.at = "mark" /\ q.child = n /\ q.current = current
  BY <1>1, <1>2 DEF Locals, Stages
<1>6. Moves(p, q)
  BY <1>4, <1>5 DEF Moves
<1> HIDE DEF q
<1>7. /\ request'[p] = q /\ request' \in [Requests -> Locals]
      /\ \A x \in Requests \ {p} : request'[x] = request[x]
  BY <1>6, MovesOnly
<1>8. /\ table' \in [Tokens -> Row \cup {None}] /\ Exists(n)' /\ Kept
      /\ table'[n].family = Family(current) /\ table'[n].parent = current
      /\ UNCHANGED <<expired, recent>>
  BY <1>3, <1>4, InsertRow
<1>9. TypeOK'
  BY <1>1, <1>4, <1>7, <1>8 DEF TypeOK
<1>10. RequestOK(p)'
  BY <1>2, <1>5, <1>7, <1>8 DEF RequestOK, Reading, FamilyOf, Kept, Family
<1>11. \A t \in Tokens : RowOK(t)'
  BY <1>2, <1>3, <1>4, InsertKeepsRows, NoneIsNoToken
<1>12. \A t \in known' : Exists(t)'
  BY <1>1, <1>8 DEF Kept, TypeOK
<1>13. QED BY <1>7, <1>8, <1>9, <1>10, <1>11, <1>12, TokensFrame

LEMMA TokensMark ==
  ASSUME TokensInv, NEW p \in Requests, RefreshMark(p) \/ LogoutMark(p)
  PROVE  TokensInv'
<1> USE DEF TokensInv
<1>1. /\ request[p].at \in {"mark", "logout"} /\ RequestOK(p) /\ request[p] \in Locals
      /\ UNCHANGED <<password, known, cred, swept, stragglers, burned, raced>>
      /\ erased' \in SUBSET Tokens
  BY DEF RefreshMark, LogoutMark, TypeOK, ghosts, RequestOK, Reading
<1>2. PICK current \in Tokens : current = request[p].current /\ Exists(current)
  BY <1>1 DEF RequestOK, Reading
<1>3. PICK by \in Tokens \cup {None} :
        /\ MarkRevoked(current, by)
        /\ by # None => /\ by = request[p].child /\ Exists(by)
                        /\ table[by].parent = current /\ Family(by) = Family(current)
  BY <1>1, <1>2, NoneIsNoToken DEF RefreshMark, LogoutMark, RequestOK, Reading, FamilyOf
<1>4. PICK q \in Locals :
        /\ request' = [request EXCEPT ![p] = q]
        /\ q.at = "idle" \/ (q.at = "respond" /\ q.child \in Tokens /\ Exists(q.child))
  <2>1. CASE RefreshMark(p)
    <3> DEFINE q == [request[p] EXCEPT !.at = "respond"]
    <3>1. q \in Locals /\ q.at = "respond" /\ q.child = request[p].child
      BY <1>1 DEF Locals, Stages
    <3>2. request' = [request EXCEPT ![p] = q]
      BY <2>1 DEF RefreshMark, Goto
    <3> HIDE DEF q
    <3>3. request[p].child \in Tokens /\ Exists(request[p].child)
      BY <1>1, <2>1 DEF RefreshMark, RequestOK
    <3>4. QED BY <3>1, <3>2, <3>3
  <2>2. CASE LogoutMark(p)
    <3>1. Idle.at = "idle"
      BY DEF Idle
    <3>2. request' = [request EXCEPT ![p] = Idle]
      BY <2>2 DEF LogoutMark, Finish
    <3>3. QED BY <3>1, <3>2, IdleIsLocals
  <2>3. QED BY <2>1, <2>2
<1>5. /\ request'[p] = q /\ request' \in [Requests -> Locals]
      /\ \A x \in Requests \ {p} : request'[x] = request[x]
  BY <1>4, MovesOnly DEF Moves
<1>6. /\ table' \in [Tokens -> Row \cup {None}] /\ Kept
      /\ expired' \in SUBSET Tokens /\ recent' \in SUBSET Tokens
  BY <1>2, <1>3, MarkRow
<1>7. TypeOK'
  BY <1>1, <1>5, <1>6 DEF TypeOK
<1>8. RequestOK(p)'
  BY <1>4, <1>5, <1>6 DEF RequestOK, Reading, Kept
<1>9. \A t \in Tokens : RowOK(t)'
  BY <1>2, <1>3, MarkKeepsRows
<1>10. \A t \in known' : Exists(t)'
  BY <1>1, <1>6 DEF Kept, TypeOK
<1>11. QED BY <1>5, <1>6, <1>7, <1>8, <1>9, <1>10, TokensFrame

LEMMA TokensRevoke ==
  ASSUME TokensInv, NEW p \in Requests, RefreshBurn(p) \/ ResetRevokeAll(p)
  PROVE  TokensInv'
<1> USE DEF TokensInv
<1>1. PICK ts \in SUBSET {t \in Tokens : Active(t)} : Revoke(ts)
  BY DEF RefreshBurn, ResetRevokeAll, ToBurn, ToRevoke
<1>2. /\ table' \in [Tokens -> Row \cup {None}] /\ Kept
      /\ expired' \in SUBSET Tokens /\ recent' \in SUBSET Tokens
  BY <1>1, RevokeRows
<1>3. Moves(p, Idle)
  BY FinishMoves DEF RefreshBurn, ResetRevokeAll
<1>4. /\ request'[p] = Idle /\ request' \in [Requests -> Locals]
      /\ \A x \in Requests \ {p} : request'[x] = request[x]
  BY <1>3, MovesOnly
<1>5. /\ UNCHANGED <<password, known, cred, raced, erased>>
      /\ burned' \in SUBSET Tokens /\ swept' \in Nat
      /\ stragglers' \in SUBSET (Tokens \cup Requests)
  <2>1. CASE RefreshBurn(p)
    <3>1. FamilyOf(p) \in Tokens
      BY <2>1, ExistsIsRow DEF RefreshBurn, RequestOK, Reading, FamilyOf, Family, Row
    <3>2. QED BY <2>1, <3>1 DEF RefreshBurn, TypeOK, FamilyOf
  <2>2. CASE ResetRevokeAll(p)
    BY <2>2 DEF ResetRevokeAll, TypeOK, Locals
  <2>3. QED BY <2>1, <2>2
<1>6. TypeOK'
  BY <1>2, <1>4, <1>5 DEF TypeOK
<1>7. RequestOK(p)'
  BY <1>4, NothingRead DEF Idle
<1>8. \A t \in Tokens : RowOK(t)'
  BY <1>1, RevokeKeepsRows
<1>9. \A t \in known' : Exists(t)'
  BY <1>2, <1>5 DEF Kept, TypeOK
<1>10. QED BY <1>2, <1>4, <1>6, <1>7, <1>8, <1>9, TokensFrame

LEMMA TokensLogoutRead ==
  ASSUME TokensInv, NEW p \in Requests, LogoutRead(p)
  PROVE  TokensInv'
<1> USE DEF TokensInv
<1>1. PICK t \in known :
        /\ Start(p, [Idle EXCEPT !.at = "logout", !.current = t]) /\ NoteRead(t)
        /\ UNCHANGED <<rowVars, password, known, cred, swept, stragglers, burned, erased>>
  BY DEF LogoutRead
<1>2. t \in Tokens /\ Exists(t) /\ table[t] \in Row
  BY ExistsIsRow DEF TypeOK
<1> DEFINE q == [Idle EXCEPT !.at = "logout", !.current = t]
<1>3. q \in Locals /\ q.at = "logout" /\ q.current = t
  BY <1>2, IdleIsLocals DEF Locals, Stages
<1>4. Moves(p, q)
  BY <1>1, <1>3, StartMoves
<1> HIDE DEF q
<1>5. request'[p] = q /\ request' \in [Requests -> Locals]
  BY <1>4, MovesOnly
<1>6. raced' \in SUBSET Tokens
  BY <1>1, <1>2 DEF NoteRead, Family, Row, TypeOK
<1>7. TypeOK'
  BY <1>1, <1>5, <1>6 DEF TypeOK, rowVars
<1>8. table' = table /\ known' = known
  BY <1>1 DEF rowVars
<1>9. RequestOK(p)'
  BY <1>2, <1>3, <1>5, <1>8 DEF RequestOK, Reading, Exists
<1>10. QED BY <1>4, <1>7, <1>8, <1>9, TokensReadStep

LEMMA TokensOther ==
  ASSUME TokensInv, NEW p \in Requests,
         Respond(p) \/ ResetConsume(p) \/ ResetPassword(p) \/ Crash(p)
  PROVE  TokensInv'
<1> USE DEF TokensInv
<1>1. PICK q : Moves(p, q) /\ q.at \in {"idle", "setPassword", "revokeAll"}
  <2>1. CASE Respond(p) \/ Crash(p)
    BY <2>1, FinishMoves DEF Respond, Crash, Idle
  <2>2. CASE ResetConsume(p)
    <3> DEFINE q == [Idle EXCEPT !.at = "setPassword"]
    <3>1. q \in Locals /\ q.at = "setPassword"
      BY IdleIsLocals DEF Locals, Stages
    <3>2. Moves(p, q)
      BY <2>2, <3>1, StartMoves DEF ResetConsume
    <3> HIDE DEF q
    <3>3. QED BY <3>1, <3>2
  <2>3. CASE ResetPassword(p)
    <3> DEFINE q == [request[p] EXCEPT !.at = "revokeAll", !.version = password + 1]
    <3>1. request[p] \in Locals /\ password + 1 \in Nat
      BY DEF TypeOK
    <3>2. q \in Locals /\ q.at = "revokeAll"
      BY <3>1 DEF Locals, Stages
    <3>3. Moves(p, q)
      BY <2>3, <3>2 DEF ResetPassword, Moves
    <3> HIDE DEF q
    <3>4. QED BY <3>2, <3>3
  <2>4. QED BY <2>1, <2>2, <2>3
<1>2. request'[p] = q /\ request' \in [Requests -> Locals]
  BY <1>1, MovesOnly
<1>3. known' \in SUBSET Tokens /\ \A t \in known' : Exists(t)
  <2>1. CASE Respond(p)
    BY <2>1 DEF Respond, TypeOK, RequestOK
  <2>2. CASE known' = known
    BY <2>2 DEF TypeOK
  <2>3. QED BY <2>1, <2>2 DEF ResetConsume, ResetPassword, Crash, ghosts
<1>4. /\ table' = table /\ expired' = expired /\ recent' = recent
      /\ password' \in Nat /\ stragglers' \in SUBSET (Tokens \cup Requests)
      /\ UNCHANGED <<cred, swept, burned, raced, erased>>
  BY DEF Respond, ResetConsume, ResetPassword, Crash, rowVars, ghosts, TypeOK
<1>5. TypeOK'
  BY <1>2, <1>3, <1>4 DEF TypeOK
<1>6. RequestOK(p)'
  BY <1>1, <1>2, NothingRead
<1>7. QED BY <1>1, <1>3, <1>4, <1>5, <1>6, TokensReadStep

LEMMA TokensTime ==
  ASSUME TokensInv, NEW t \in Tokens, GraceEnds(t) \/ Expire(t)
  PROVE  TokensInv'
<1>1. /\ UNCHANGED <<table, request, password, ghosts>>
      /\ expired' \in SUBSET Tokens /\ recent' \in SUBSET Tokens
  BY DEF GraceEnds, Expire, TokensInv, TypeOK
<1>2. TypeOK'
  BY <1>1 DEF TokensInv, TypeOK, ghosts
<1>3. QED
  BY <1>1, <1>2
  DEF TokensInv, RowOK, RequestOK, Reading, FamilyOf, Exists, Family, ghosts

LEMMA TokensNext == TokensInv /\ [Next]_vars => TokensInv'
<1> SUFFICES ASSUME TokensInv, [Next]_vars PROVE TokensInv'
  OBVIOUS
<1>1. CASE UNCHANGED vars
  BY <1>1
  DEF TokensInv, TypeOK, RowOK, RequestOK, Reading, FamilyOf, Exists, Family, vars, ghosts
<1>2. CASE Next
  BY <1>2, TokensLogin, TokensRefreshRead, TokensRefreshLookup, TokensRefreshInsert,
     TokensMark, TokensRevoke, TokensLogoutRead, TokensOther, TokensTime
  DEF Next, Refresh
<1>3. QED BY <1>1, <1>2

\* Whatever requests interleave or crash, the links between tokens stay exact, and what a
\* request knows of the row it read, which may be stale, is not contradicted by the table.
THEOREM TokensStayWhole == Spec => []TokensInv
BY TokensInit, TokensNext, PTL DEF Spec

\* refresh_tokens, and what every request knows of it, keeps its types.
THEOREM TokenTypes == Spec => []TypeOK
<1>1. TokensInv => TypeOK
  BY DEF TokensInv
<1>2. QED BY <1>1, TokensStayWhole, PTL

\* replaced_by_id and parent_id are inverse links inside one family, whatever the
\* interleaving of insert, markRevoked, revokeFamily and revokeAllForUser.
THEOREM ExactLinks == Spec => []LinksAreExact
<1>1. TokensInv => LinksAreExact
  BY DEF TokensInv, RowOK, LinksAreExact
<1>2. QED BY <1>1, TokensStayWhole, PTL

-----------------------------------------------------------------------------
(* What the steps do, for the parts of the invariant still to come         *)

Others(p) == \A x \in Requests \ {p} : request'[x] = request[x]

\* n has been added, t has been marked, the tokens of ts have been revoked.
Added(n) ==
  /\ ~ Exists(n) /\ Exists(n)' /\ Active(n)' /\ table'[n].replacedBy = None
  /\ \A t \in Tokens \ {n} : SameRow(t)

Marked(t, by) ==
  /\ Exists(t) /\ Exists(t)' /\ table'[t].revoked /\ table'[t].replacedBy = by
  /\ Family(t)' = Family(t) /\ table'[t].parent = table[t].parent
  /\ \A u \in Tokens \ {t} : SameRow(u)

Revoked(ts) ==
  \A t \in Tokens :
    /\ Exists(t)' <=> Exists(t)
    /\ Exists(t) =>
         /\ Family(t)' = Family(t)
         /\ table'[t].parent = table[t].parent
         /\ table'[t].replacedBy = table[t].replacedBy
         /\ table'[t].revoked <=> table[t].revoked \/ t \in ts

LEMMA RequestFields ==
  ASSUME TokensInv, NEW p \in Requests
  PROVE  /\ request[p] \in Locals /\ RequestOK(p)
         /\ Reading(p) => request[p].current \in Tokens /\ Exists(request[p].current)
                          /\ FamilyOf(p) \in Tokens
<1>1. request[p] \in Locals /\ RequestOK(p)
  BY DEF TokensInv, TypeOK
<1>2. Reading(p) => request[p].current \in Tokens /\ Exists(request[p].current)
  BY <1>1 DEF RequestOK
<1>3. TypeOK
  BY DEF TokensInv
<1>4. QED BY <1>1, <1>2, <1>3, ExistsIsRow DEF FamilyOf, Family, Row

LEMMA GivenExist ==
  ASSUME TokensInv, NEW c \in Given
  PROVE  c \in Tokens /\ Exists(c)
BY RequestFields DEF Given, TokensInv, TypeOK, RequestOK

LEMMA LoginInsertEffect ==
  ASSUME TokensInv, NEW p \in Requests, LoginInsert(p)
  PROVE  \E n \in Tokens :
           /\ Added(n) /\ Kept /\ Others(p)
           /\ table'[n].family = n /\ table'[n].parent = None
           /\ request[p].at = "insertRoot"
           /\ request'[p].at = "respond" /\ request'[p].child = n
           /\ cred' = [cred EXCEPT ![n] = request[p].version]
           /\ stragglers' = (stragglers \ {p}) \cup (IF p \in stragglers THEN {n} ELSE {})
<1>1. TypeOK /\ request[p].at = "insertRoot"
  BY DEF TokensInv, LoginInsert
<1>2. PICK n \in Tokens :
        /\ Insert(n, n, None)
        /\ request' = [request EXCEPT ![p].at = "respond", ![p].child = n]
        /\ cred' = [cred EXCEPT ![n] = request[p].version]
        /\ stragglers' = (stragglers \ {p}) \cup (IF p \in stragglers THEN {n} ELSE {})
  BY DEF LoginInsert
<1>3. request'[p].at = "respond" /\ request'[p].child = n /\ Others(p)
  BY <1>1, <1>2, RequestFields DEF Others, TypeOK, Locals
<1>4. Added(n) /\ Kept /\ table'[n].family = n /\ table'[n].parent = None
  BY <1>1, <1>2, InsertRow DEF Added
<1>5. QED BY <1>1, <1>2, <1>3, <1>4

LEMMA RefreshInsertEffect ==
  ASSUME TokensInv, NEW p \in Requests, RefreshInsert(p)
  PROVE  \E n \in Tokens :
           /\ Added(n) /\ Kept /\ Others(p)
           /\ table'[n].family = FamilyOf(p) /\ table'[n].parent = request[p].current
           /\ request[p].at = "insert"
           /\ request'[p].at = "mark" /\ request'[p].child = n
           /\ request'[p].current = request[p].current
           /\ cred' = [cred EXCEPT ![n] = cred[request[p].current]]
           /\ stragglers' = (stragglers \ {p}) \cup
                (IF p \in stragglers \/ request[p].current \in stragglers THEN {n} ELSE {})
<1>1. TypeOK /\ request[p].at = "insert" /\ Reading(p)
  BY DEF TokensInv, RefreshInsert, Reading
<1>2. PICK n \in Tokens :
        /\ Insert(n, Family(request[p].current), request[p].current)
        /\ request' = [request EXCEPT ![p].at = "mark", ![p].child = n]
        /\ cred' = [cred EXCEPT ![n] = cred[request[p].current]]
        /\ stragglers' = (stragglers \ {p}) \cup
             (IF p \in stragglers \/ request[p].current \in stragglers THEN {n} ELSE {})
  BY DEF RefreshInsert
<1>3. request[p].current \in Tokens /\ FamilyOf(p) \in Tokens
  BY <1>1, RequestFields
<1>4. /\ request'[p].at = "mark" /\ request'[p].child = n /\ Others(p)
      /\ request'[p].current = request[p].current
  BY <1>1, <1>2, RequestFields DEF Others, TypeOK, Locals
<1>5. /\ Added(n) /\ Kept /\ table'[n].family = FamilyOf(p)
      /\ table'[n].parent = request[p].current
  BY <1>1, <1>2, <1>3, InsertRow DEF Added, FamilyOf
<1>6. QED BY <1>1, <1>2, <1>4, <1>5

LEMMA MarkEffect ==
  ASSUME TokensInv, NEW p \in Requests, NEW t, NEW by, MarkRevoked(t, by),
         Reading(p), t = request[p].current, by = None \/ (request[p].at = "mark" /\ by = request[p].child)
  PROVE  Marked(t, by) /\ Kept
<1>1. TypeOK /\ t \in Tokens /\ Exists(t) /\ by \in Tokens \cup {None}
  BY RequestFields DEF TokensInv, RequestOK
<1>2. QED BY <1>1, MarkRow DEF Marked, Kept

LEMMA RefreshMarkEffect ==
  ASSUME TokensInv, NEW p \in Requests, RefreshMark(p)
  PROVE  \E t \in Tokens, c \in Tokens :
           /\ request[p].at = "mark" /\ Reading(p)
           /\ t = request[p].current /\ c = request[p].child
           /\ Marked(t, c) /\ Kept /\ Others(p)
           /\ request'[p].at = "respond" /\ request'[p].child = c
<1>1. request[p].at = "mark" /\ Reading(p)
  BY DEF RefreshMark, Reading
<1>2. PICK t \in Tokens, c \in Tokens : t = request[p].current /\ c = request[p].child
  BY <1>1, RequestFields DEF RequestOK
<1>3. Marked(t, c) /\ Kept
  BY <1>1, <1>2, MarkEffect DEF RefreshMark
<1>4. /\ request'[p].at = "respond" /\ request'[p].child = c /\ Others(p)
  BY <1>2, RequestFields DEF RefreshMark, Goto, Others, TokensInv, TypeOK, Locals
<1>5. QED BY <1>1, <1>2, <1>3, <1>4

LEMMA LogoutMarkEffect ==
  ASSUME TokensInv, NEW p \in Requests, LogoutMark(p)
  PROVE  \E t \in Tokens :
           /\ request[p].at = "logout" /\ Reading(p) /\ t = request[p].current
           /\ Marked(t, None) /\ Kept /\ Others(p) /\ request'[p] = Idle
<1>1. request[p].at = "logout" /\ Reading(p)
  BY DEF LogoutMark, Reading
<1>2. PICK t \in Tokens : t = request[p].current
  BY <1>1, RequestFields
<1>3. Marked(t, None) /\ Kept
  BY <1>1, <1>2, MarkEffect DEF LogoutMark
<1>4. Others(p) /\ request'[p] = Idle
  BY DEF LogoutMark, Finish, Others, TokensInv, TypeOK
<1>5. QED BY <1>1, <1>2, <1>3, <1>4

LEMMA RevokeEffect ==
  ASSUME TokensInv, NEW ts \in SUBSET {t \in Tokens : Active(t)}, Revoke(ts)
  PROVE  Revoked(ts) /\ Kept
<1>1. TypeOK
  BY DEF TokensInv
<1>2. QED BY <1>1, RevokeRows DEF Revoked, Family

LEMMA FinishEffect ==
  ASSUME TokensInv, NEW p \in Requests, Finish(p)
  PROVE  request'[p] = Idle /\ Others(p)
BY DEF TokensInv, TypeOK, Finish, Others

LEMMA BurnEffect ==
  ASSUME TokensInv, NEW p \in Requests, RefreshBurn(p)
  PROVE  /\ request[p].at = "burn" /\ Reading(p) /\ FamilyOf(p) \in Tokens
         /\ Revoked(ToBurn(request[p].current)) /\ Kept /\ Others(p) /\ request'[p] = Idle
<1>1. request[p].at = "burn" /\ Reading(p)
  BY DEF RefreshBurn, Reading
<1>2. FamilyOf(p) \in Tokens
  BY <1>1, RequestFields
<1>3. Revoked(ToBurn(request[p].current)) /\ Kept
  <2>1. ToBurn(request[p].current) \in SUBSET {t \in Tokens : Active(t)}
    BY DEF ToBurn
  <2>2. QED BY <2>1, RevokeEffect DEF RefreshBurn
<1>4. QED BY <1>1, <1>2, <1>3, FinishEffect DEF RefreshBurn

LEMMA RevokeAllEffect ==
  ASSUME TokensInv, NEW p \in Requests, ResetRevokeAll(p)
  PROVE  /\ request[p].at = "revokeAll"
         /\ Revoked(ToRevoke) /\ Kept /\ Others(p) /\ request'[p] = Idle
<1>1. Revoked(ToRevoke) /\ Kept
  <2>1. ToRevoke \in SUBSET {t \in Tokens : Active(t)}
    BY DEF ToRevoke
  <2>2. QED BY <2>1, RevokeEffect DEF ResetRevokeAll
<1>2. QED BY <1>1, FinishEffect DEF ResetRevokeAll

\* The steps that leave the rows alone.
Quiet(p) ==
  \/ LoginVerify(p) \/ RefreshRead(p) \/ RefreshLookup(p) \/ Respond(p) \/ LogoutRead(p)
  \/ ResetConsume(p) \/ ResetPassword(p) \/ Crash(p)

LEMMA QuietEffect ==
  ASSUME TokensInv, NEW p \in Requests, Quiet(p)
  PROVE  /\ table' = table /\ cred' = cred /\ swept' = swept /\ burned' = burned
         /\ erased' = erased /\ Others(p)
         /\ stragglers' = stragglers \/ (Crash(p) /\ stragglers' = stragglers \ {p})
         /\ request'[p].at # "respond"
         /\ request[p].at = "respond" => known' \subseteq known \cup {request[p].child}
         /\ request[p].at # "respond" => known' = known
<1>1. /\ table' = table /\ cred' = cred /\ swept' = swept /\ burned' = burned
      /\ erased' = erased
      /\ stragglers' = stragglers \/ (Crash(p) /\ stragglers' = stragglers \ {p})
  BY DEF Quiet, LoginVerify, RefreshRead, RefreshLookup, Respond, LogoutRead, ResetConsume,
         ResetPassword, Crash, rowVars, ghosts
<1>2. /\ request[p].at = "respond" => known' \subseteq known \cup {request[p].child}
      /\ request[p].at # "respond" => known' = known
  BY DEF Quiet, LoginVerify, RefreshRead, RefreshLookup, Respond, LogoutRead, ResetConsume,
         ResetPassword, Crash, rowVars, ghosts
<1>3. PICK q : q.at # "respond" /\ request' = [request EXCEPT ![p] = q]
  <2>1. request[p] \in Locals /\ Idle \in Locals
    BY RequestFields, IdleIsLocals
  <2>2. CASE LoginVerify(p) \/ RefreshRead(p) \/ LogoutRead(p) \/ ResetConsume(p)
    BY <2>2, <2>1 DEF LoginVerify, RefreshRead, LogoutRead, ResetConsume, Start, Locals
  <2>3. CASE RefreshLookup(p) \/ ResetPassword(p)
    BY <2>3, <2>1 DEF RefreshLookup, ResetPassword, Goto, Locals
  <2>4. CASE Respond(p) \/ Crash(p)
    BY <2>4 DEF Respond, Crash, Finish, Idle
  <2>5. QED BY <2>2, <2>3, <2>4 DEF Quiet
<1>4. request'[p].at # "respond" /\ Others(p)
  BY <1>3 DEF Others, TokensInv, TypeOK
<1>5. QED BY <1>1, <1>2, <1>4

-----------------------------------------------------------------------------
(* What clients are given                                                  *)

\* It is enough to look at what is given for the first time, and at the rows that
\* lose their link.
LEMMA GivenFrame ==
  ASSUME TokensInv, GivenInv, Kept, erased \subseteq erased',
         \A t \in Tokens : Linked(t) => Linked(t)' \/ t \in erased',
         \A c \in Given' :
           c \in Given \/ \A t \in Tokens : table'[c].parent = t => Linked(t)'
  PROVE  GivenInv'
<1> SUFFICES ASSUME NEW c \in Given', c \in Given, NEW t \in Tokens \ erased',
                    table'[c].parent = t
             PROVE  Linked(t)'
  BY DEF GivenInv
<1>1. c \in Tokens /\ Exists(c) /\ table'[c].parent = table[c].parent
  BY GivenExist DEF Kept
<1>2. Linked(t)
  BY <1>1 DEF GivenInv
<1>3. QED BY <1>2

LEMMA GivenQuiet ==
  ASSUME TokensInv, NEW p \in Requests, Others(p), request'[p].at # "respond",
         request[p].at = "respond" => known' \subseteq known \cup {request[p].child},
         request[p].at # "respond" => known' \subseteq known
  PROVE  Given' \subseteq Given
BY DEF Given, Others

LEMMA GivenInit == Init => GivenInv
BY DEF Init, GivenInv, Given, Idle

LEMMA GivenNext == TokensInv /\ GivenInv /\ [Next]_vars => GivenInv'
<1> SUFFICES ASSUME TokensInv, GivenInv, [Next]_vars PROVE GivenInv'
  OBVIOUS
<1>1. CASE UNCHANGED vars \/ \E t \in Tokens : GraceEnds(t) \/ Expire(t)
  <2>1. UNCHANGED <<table, request, known, erased>>
    BY <1>1 DEF GraceEnds, Expire, vars, ghosts
  <2>2. QED BY <2>1 DEF GivenInv, Given, Linked, Exists
<1>2. ASSUME NEW p \in Requests, Quiet(p) PROVE GivenInv'
  <2>1. Given' \subseteq Given
    BY <1>2, QuietEffect, GivenQuiet
  <2>2. table' = table /\ erased' = erased
    BY <1>2, QuietEffect
  <2>3. QED BY <2>1, <2>2 DEF GivenInv, Linked, Exists
<1>3. ASSUME NEW p \in Requests, LoginInsert(p) PROVE GivenInv'
  <2>1. PICK n \in Tokens :
          /\ Added(n) /\ Kept /\ Others(p) /\ table'[n].parent = None
          /\ request'[p].at = "respond" /\ request'[p].child = n
    BY <1>3, LoginInsertEffect
  <2>2. known' = known /\ erased' = erased
    BY <1>3 DEF LoginInsert
  <2>3. Given' \subseteq Given \cup {n}
    BY <2>1, <2>2 DEF Given, Others
  <2>4. \A t \in Tokens : Linked(t) => Linked(t)'
    BY <2>1 DEF Linked, Added, SameRow
  <2>5. \A t \in Tokens : table'[n].parent # t
    BY <2>1, NoneIsNoToken
  <2>6. QED BY <2>1, <2>2, <2>3, <2>4, <2>5, GivenFrame
<1>4. ASSUME NEW p \in Requests, RefreshInsert(p) PROVE GivenInv'
  <2>1. PICK n \in Tokens : /\ Added(n) /\ Kept /\ Others(p) /\ request'[p].at = "mark"
                            /\ request[p].at = "insert"
    BY <1>4, RefreshInsertEffect
  <2>2. known' = known /\ erased' = erased
    BY <1>4 DEF RefreshInsert
  <2>3. Given' \subseteq Given
    BY <2>1, <2>2, GivenQuiet
  <2>4. \A t \in Tokens : Linked(t) => Linked(t)'
    BY <2>1 DEF Linked, Added, SameRow
  <2>5. QED BY <2>1, <2>2, <2>3, <2>4, GivenFrame
<1>5. ASSUME NEW p \in Requests, RefreshMark(p) PROVE GivenInv'
  <2>1. PICK t \in Tokens, c \in Tokens :
          /\ request[p].at = "mark" /\ t = request[p].current /\ c = request[p].child
          /\ Marked(t, c) /\ Kept /\ Others(p)
          /\ request'[p].at = "respond" /\ request'[p].child = c
    BY <1>5, RefreshMarkEffect
  <2>2. known' = known /\ erased' = erased
    BY <1>5 DEF RefreshMark, ghosts
  <2>3. Given' \subseteq Given \cup {c}
    BY <2>1, <2>2 DEF Given, Others
  <2>4. Linked(t)' /\ \A u \in Tokens : Linked(u) => Linked(u)'
    BY <2>1, NoneIsNoToken DEF Linked, Marked, SameRow
  <2>5. table[c].parent = t /\ Exists(c)
    BY <2>1, RequestFields DEF RequestOK
  <2>6. table'[c].parent = t
    BY <2>1, <2>5 DEF Kept
  <2>7. QED BY <2>1, <2>2, <2>3, <2>4, <2>6, GivenFrame
<1>6. ASSUME NEW p \in Requests, LogoutMark(p) PROVE GivenInv'
  <2>1. PICK t \in Tokens :
          /\ request[p].at = "logout" /\ t = request[p].current
          /\ Marked(t, None) /\ Kept /\ Others(p) /\ request'[p] = Idle
    BY <1>6, LogoutMarkEffect
  <2>2. /\ known' = known
        /\ erased' = erased \cup {u \in {t} : table[u].replacedBy # None}
    BY <1>6, <2>1 DEF LogoutMark
  <2>3. Given' \subseteq Given
    BY <2>1, <2>2, GivenQuiet DEF Idle
  <2>4. \A u \in Tokens : Linked(u) => Linked(u)' \/ u \in erased'
    BY <2>1, <2>2 DEF Linked, Marked, SameRow
  <2>5. QED BY <2>1, <2>2, <2>3, <2>4, GivenFrame
<1>7. ASSUME NEW p \in Requests, RefreshBurn(p) \/ ResetRevokeAll(p) PROVE GivenInv'
  <2>1. PICK ts \in SUBSET Tokens : Revoked(ts)
    BY <1>7, BurnEffect, RevokeAllEffect DEF ToBurn, ToRevoke
  <2>2. Kept /\ Others(p) /\ request'[p] = Idle /\ request[p].at # "respond"
    BY <1>7, BurnEffect, RevokeAllEffect
  <2>3. known' = known /\ erased' = erased
    BY <1>7 DEF RefreshBurn, ResetRevokeAll
  <2>4. Given' \subseteq Given
    BY <2>2, <2>3, GivenQuiet DEF Idle
  <2>5. \A t \in Tokens : Linked(t) => Linked(t)'
    BY <2>1 DEF Linked, Revoked
  <2>6. QED BY <2>2, <2>3, <2>4, <2>5, GivenFrame
<1>8. QED
  BY <1>1, <1>2, <1>3, <1>4, <1>5, <1>6, <1>7 DEF Next, Refresh, Quiet

\* Whatever answers are lost and whatever requests crash between insert and
\* markRevoked, a token that was exchanged for one a client received is revoked and
\* linked to it, so that its replay is recognised; a logout may erase the link.
THEOREM ExchangesAreRecorded == Spec => []ExchangedTokenIsLinked
<1>1. TokensInv /\ GivenInv => ExchangedTokenIsLinked
  <2> SUFFICES ASSUME TokensInv, GivenInv, NEW c \in known,
                      table[c].parent \notin {None} \cup erased
               PROVE  table[table[c].parent].revoked /\ table[table[c].parent].replacedBy # None
    BY DEF ExchangedTokenIsLinked
  <2>1. c \in Given /\ table[c].parent \in Tokens
    BY ExistsIsRow DEF Given, TokensInv, TypeOK, Row
  <2>2. Linked(table[c].parent)
    BY <2>1 DEF GivenInv
  <2>3. QED BY <2>2 DEF Linked
<1>2. GivenInv /\ TokensInv /\ [Next]_vars => GivenInv'
  BY GivenNext
<1>3. QED BY <1>1, <1>2, GivenInit, TokensStayWhole, PTL DEF Spec

-----------------------------------------------------------------------------
(* Dead families                                                           *)

\* It is enough that no token of the family becomes live and that no request is
\* about to add one.
LEMMA DeadFrame ==
  ASSUME TokensInv, NEW f \in Tokens, Dead(f), NEW p \in Requests, Others(p), Kept,
         \A t \in Tokens : Active(t)' => Active(t) \/ Family(t)' # f,
         request'[p].at = "insert" =>
           request'[p].current \in Tokens /\ Exists(request'[p].current)
           /\ Family(request'[p].current) # f
  PROVE  Dead(f)'
<1>1. Exists(f)'
  BY DEF Dead, Kept
<1>2. ASSUME NEW t \in Tokens, Active(t)' PROVE Family(t)' # f
  BY <1>2 DEF Dead, Kept, Active
<1>3. ASSUME NEW x \in Requests, request'[x].at = "insert"
      PROVE  FamilyOf(x)' # f
  <2>1. CASE x = p
    BY <1>3, <2>1 DEF Kept, FamilyOf, Family
  <2>2. CASE x # p
    <3>1. request'[x] = request[x] /\ Reading(x)
      BY <1>3, <2>2 DEF Others, Reading
    <3>2. request[x].current \in Tokens /\ Exists(request[x].current)
      BY <3>1, RequestFields
    <3>3. FamilyOf(x)' = FamilyOf(x) /\ FamilyOf(x) # f
      BY <1>3, <3>1, <3>2 DEF Dead, Kept, FamilyOf, Family
    <3>4. QED BY <3>3
  <2>3. QED BY <2>1, <2>2
<1>4. QED BY <1>1, <1>2, <1>3 DEF Dead, FamilyOf

\* A request that gets ready to add a token has just seen a live one of the family.
LEMMA ReadyToInsert ==
  ASSUME TokensInv, NEW p \in Requests, Quiet(p), request'[p].at = "insert"
  PROVE  request'[p].current \in Tokens /\ Active(request'[p].current)
<1>1. TypeOK /\ request[p] \in Locals /\ RequestOK(p)
  BY RequestFields DEF TokensInv
<1>2. CASE RefreshRead(p)
  <2>1. PICK t \in known :
        \/ MayRotate(t) /\ Start(p, [Idle EXCEPT !.at = "insert", !.current = t])
        \/ Start(p, [Idle EXCEPT !.at = "lookup", !.current = t, !.child = table[t].replacedBy])
        \/ Start(p, [Idle EXCEPT !.at = "burn", !.current = t])
    BY <1>2 DEF RefreshRead
  <2>2. \A q : Start(p, q) => request'[p] = q
    BY <1>1 DEF Start, TypeOK
  <2>3. /\ [Idle EXCEPT !.at = "insert", !.current = t].current = t
        /\ [Idle EXCEPT !.at = "lookup", !.current = t,
                        !.child = table[t].replacedBy].at = "lookup"
        /\ [Idle EXCEPT !.at = "burn", !.current = t].at = "burn"
    BY DEF Idle
  <2>4. request'[p].current = t /\ MayRotate(t)
    BY <2>1, <2>2, <2>3
  <2>5. QED BY <2>4 DEF MayRotate, TokensInv, TypeOK
<1>3. CASE RefreshLookup(p)
  <2>1. request'[p].current = request[p].child /\ Usable(request[p].child)
    BY <1>1, <1>3 DEF RefreshLookup, Goto, TypeOK, Locals
  <2>2. request[p].child \in Tokens
    BY <1>1, <1>3 DEF RefreshLookup, RequestOK
  <2>3. QED BY <2>1, <2>2 DEF Usable
<1>4. CASE LoginVerify(p) \/ LogoutRead(p) \/ ResetConsume(p)
  <2>1. PICK q : q.at # "insert" /\ Start(p, q)
    BY <1>4 DEF LoginVerify, LogoutRead, ResetConsume, Idle
  <2>2. QED BY <1>1, <2>1 DEF Start, TypeOK
<1>5. CASE Respond(p) \/ Crash(p) \/ ResetPassword(p)
  BY <1>1, <1>5 DEF Respond, Crash, ResetPassword, Finish, Idle, TypeOK, Locals
<1>6. QED BY <1>2, <1>3, <1>4, <1>5 DEF Quiet

LEMMA DeadNext ==
  ASSUME TokensInv, [Next]_vars, NEW f \in Tokens, Dead(f)
  PROVE  Dead(f)'
<1>1. CASE UNCHANGED vars \/ \E t \in Tokens : GraceEnds(t) \/ Expire(t)
  <2>1. UNCHANGED <<table, request>>
    BY <1>1 DEF GraceEnds, Expire, vars
  <2>2. QED BY <2>1 DEF Dead, Active, Exists, Family
<1>2. ASSUME NEW p \in Requests, Quiet(p) PROVE Dead(f)'
  <2>1. table' = table /\ Others(p)
    BY <1>2, QuietEffect
  <2>2. Kept /\ \A t \in Tokens : Active(t)' => Active(t)
    BY <2>1 DEF Kept, Active, Exists, Family
  <2>3. request'[p].at = "insert" =>
          request'[p].current \in Tokens /\ Exists(request'[p].current)
          /\ Family(request'[p].current) # f
    BY <1>2, ReadyToInsert DEF Dead, Active
  <2>4. QED BY <2>1, <2>2, <2>3, DeadFrame
<1>3. ASSUME NEW p \in Requests, LoginInsert(p) PROVE Dead(f)'
  <2>1. PICK n \in Tokens : /\ Added(n) /\ Kept /\ Others(p) /\ table'[n].family = n
                            /\ request'[p].at = "respond"
    BY <1>3, LoginInsertEffect
  <2>2. \A t \in Tokens : Active(t)' => Active(t) \/ Family(t)' # f
    BY <2>1 DEF Added, SameRow, Active, Family, Dead
  <2>3. QED BY <2>1, <2>2, DeadFrame
<1>4. ASSUME NEW p \in Requests, RefreshInsert(p) PROVE Dead(f)'
  <2>1. PICK n \in Tokens :
          /\ Added(n) /\ Kept /\ Others(p) /\ table'[n].family = FamilyOf(p)
          /\ request[p].at = "insert" /\ request'[p].at = "mark"
    BY <1>4, RefreshInsertEffect
  <2>2. FamilyOf(p) # f
    BY <2>1 DEF Dead, FamilyOf
  <2>3. \A t \in Tokens : Active(t)' => Active(t) \/ Family(t)' # f
    BY <2>1, <2>2 DEF Added, SameRow, Active, Family
  <2>4. QED BY <2>1, <2>3, DeadFrame
<1>5. ASSUME NEW p \in Requests, RefreshMark(p) \/ LogoutMark(p) PROVE Dead(f)'
  <2>1. PICK t \in Tokens, b \in Tokens \cup {None} : Marked(t, b)
    BY <1>5, RefreshMarkEffect, LogoutMarkEffect
  <2>2. Kept /\ Others(p) /\ request'[p].at # "insert"
    BY <1>5, RefreshMarkEffect, LogoutMarkEffect DEF Idle
  <2>3. \A u \in Tokens : Active(u)' => Active(u)
    BY <2>1 DEF Marked, SameRow, Active
  <2>4. QED BY <2>2, <2>3, DeadFrame
<1>6. ASSUME NEW p \in Requests, RefreshBurn(p) \/ ResetRevokeAll(p) PROVE Dead(f)'
  <2>1. PICK ts \in SUBSET Tokens : Revoked(ts)
    BY <1>6, BurnEffect, RevokeAllEffect DEF ToBurn, ToRevoke
  <2>2. Kept /\ Others(p) /\ request'[p].at # "insert"
    BY <1>6, BurnEffect, RevokeAllEffect DEF Idle
  <2>3. \A u \in Tokens : Active(u)' => Active(u)
    BY <2>1 DEF Revoked, Active
  <2>4. QED BY <2>2, <2>3, DeadFrame
<1>7. QED
  BY <1>1, <1>2, <1>3, <1>4, <1>5, <1>6 DEF Next, Refresh, Quiet

\* No replay, no retry in the grace window and no late answer revives a family all of
\* whose tokens are revoked.
THEOREM TheDeadStayDead == Spec => DeadFamiliesStayDead
<1>1. TokensInv /\ [Next]_vars => [\A f \in Tokens : Dead(f) => Dead(f)']_vars
  BY DeadNext
<1>2. QED BY <1>1, TokensStayWhole, PTL DEF Spec, DeadFamiliesStayDead

-----------------------------------------------------------------------------
(* Password resets                                                         *)

LEMMA ResetInit == Init => ResetInv
<1> SUFFICES ASSUME Init PROVE ResetInv
  OBVIOUS
<1>1. \A p \in Requests : request[p].at = "idle"
  BY DEF Init, Idle
<1>2. ResetEndsOldSessions
  BY DEF Init, ResetEndsOldSessions, Active, Exists
<1>3. QED BY <1>1, <1>2 DEF Init, ResetInv

\* What a step of p has to keep for the others, and to show for itself.
LEMMA ResetFrame ==
  ASSUME TokensInv, TokensInv', ResetInv, NEW p \in Requests, Others(p),
         password <= password', swept' = swept, stragglers \ {p} \subseteq stragglers',
         \A t \in Tokens : Exists(t) => cred'[t] = cred[t],
         \A t \in Tokens : Active(t)' => Active(t) \/ cred'[t] >= swept \/ t \in stragglers',
         request'[p].at = "revokeAll" => request'[p].version <= password',
         request'[p].at = "insertRoot" /\ request'[p].version < swept => p \in stragglers',
         request'[p].at = "insert" /\ cred'[request'[p].current] < swept =>
           p \in stragglers' \/ request'[p].current \in stragglers'
  PROVE  ResetInv'
<1>1. /\ password \in Nat /\ password' \in Nat /\ swept \in Nat
      /\ cred \in [Tokens -> Nat] /\ cred' \in [Tokens -> Nat]
      /\ request \in [Requests -> Locals] /\ request' \in [Requests -> Locals]
  BY DEF TokensInv, TypeOK
<1>2. swept' <= password'
  BY <1>1 DEF ResetInv
<1>3. ASSUME NEW x \in Requests, request'[x].at = "revokeAll"
      PROVE  request'[x].version <= password'
  <2>1. CASE x = p
    BY <1>3, <2>1
  <2>2. CASE x # p
    <3>1. request'[x] = request[x] /\ request[x].version \in Nat
      BY <1>1, <2>2 DEF Others, Locals
    <3>2. request[x].version <= password
      BY <1>3, <3>1 DEF ResetInv
    <3>3. QED BY <1>1, <3>1, <3>2
  <2>3. QED BY <2>1, <2>2
<1>4. ResetEndsOldSessions'
  <2> SUFFICES ASSUME NEW t \in Tokens, Active(t)', cred'[t] < swept'
               PROVE  t \in stragglers'
    BY DEF ResetEndsOldSessions
  <2>1. CASE Active(t)
    <3>1. cred[t] < swept
      BY <2>1 DEF Active
    <3>2. t \in stragglers /\ t # p
      BY <2>1, <3>1, NoneIsNoToken DEF ResetInv, ResetEndsOldSessions
    <3>3. QED BY <3>2
  <2>2. CASE ~ Active(t)
    BY <1>1, <2>2
  <2>3. QED BY <2>1, <2>2
<1>5. ASSUME NEW x \in Requests, request'[x].at = "insertRoot", request'[x].version < swept'
      PROVE  x \in stragglers'
  BY <1>5 DEF Others, ResetInv
<1>6. ASSUME NEW x \in Requests, request'[x].at = "insert",
             cred'[request'[x].current] < swept'
      PROVE  x \in stragglers' \/ request'[x].current \in stragglers'
  <2>1. CASE x = p
    BY <1>6, <2>1
  <2>2. CASE x # p
    <3>1. request'[x] = request[x] /\ Reading(x)
      BY <1>6, <2>2 DEF Others, Reading
    <3>2. PICK t \in Tokens : t = request[x].current /\ Exists(t)
      BY <3>1, RequestFields
    <3>3. cred[t] < swept
      BY <1>6, <3>1, <3>2
    <3>4. x \in stragglers \/ t \in stragglers
      BY <1>6, <3>1, <3>2, <3>3 DEF ResetInv
    <3>5. t # p
      BY NoneIsNoToken
    <3>6. QED BY <2>2, <3>1, <3>2, <3>4, <3>5
  <2>3. QED BY <2>1, <2>2
<1>7. QED BY <1>2, <1>3, <1>4, <1>5, <1>6 DEF ResetInv

LEMMA ResetNext == TokensInv /\ TokensInv' /\ ResetInv /\ [Next]_vars => ResetInv'
<1> SUFFICES ASSUME TokensInv, TokensInv', ResetInv, [Next]_vars PROVE ResetInv'
  OBVIOUS
<1>0. /\ password \in Nat /\ swept \in Nat /\ cred \in [Tokens -> Nat]
      /\ request \in [Requests -> Locals]
  BY DEF TokensInv, TypeOK
<1>1. CASE UNCHANGED vars \/ \E t \in Tokens : GraceEnds(t) \/ Expire(t)
  <2>1. UNCHANGED <<table, request, password, cred, swept, stragglers>>
    BY <1>1 DEF GraceEnds, Expire, vars, ghosts
  <2>2. QED BY <2>1 DEF ResetInv, ResetEndsOldSessions, Active, Exists
<1>2. ASSUME NEW p \in Requests, Quiet(p), ~ LoginVerify(p), ~ ResetPassword(p)
      PROVE  ResetInv'
  <2>1. /\ table' = table /\ cred' = cred /\ swept' = swept /\ Others(p)
        /\ stragglers \ {p} \subseteq stragglers'
    BY <1>2, QuietEffect
  <2>2. password' = password /\ request'[p].at \notin {"revokeAll", "insertRoot"}
    <3>1. password' = password
      BY <1>2 DEF Quiet, RefreshRead, RefreshLookup, Respond, LogoutRead, ResetConsume, Crash,
                  ghosts
    <3>2. CASE RefreshRead(p) \/ LogoutRead(p) \/ ResetConsume(p)
      <4>1. PICK q : q.at \notin {"revokeAll", "insertRoot"} /\ Start(p, q)
        BY <3>2 DEF RefreshRead, LogoutRead, ResetConsume, Idle
      <4>2. QED BY <1>0, <3>1, <4>1 DEF Start
    <3>3. CASE RefreshLookup(p) \/ Respond(p) \/ Crash(p)
      BY <1>0, <3>1, <3>3 DEF RefreshLookup, Respond, Crash, Goto, Finish, Idle, Locals
    <3>4. QED BY <1>2, <3>2, <3>3 DEF Quiet
  <2>3. request'[p].at = "insert" /\ cred'[request'[p].current] < swept =>
          request'[p].current \in stragglers /\ ~ Crash(p)
    <3>1. SUFFICES ASSUME request'[p].at = "insert", cred[request'[p].current] < swept
                   PROVE  request'[p].current \in stragglers /\ ~ Crash(p)
      BY <2>1
    <3>2. request'[p].current \in Tokens /\ Active(request'[p].current)
      BY <1>2, <3>1, ReadyToInsert
    <3>3. request'[p].current \in stragglers
      BY <3>1, <3>2 DEF ResetInv, ResetEndsOldSessions
    <3>4. ~ Crash(p)
      BY <3>1, <1>0 DEF Crash, Finish, Idle
    <3>5. QED BY <3>3, <3>4
  <2>4. \A t \in Tokens : Active(t)' => Active(t)
    BY <2>1 DEF Active, Exists
  <2>5. request'[p].at = "insert" /\ cred'[request'[p].current] < swept =>
          request'[p].current \in stragglers'
    BY <1>2, <2>3, QuietEffect
  <2>6. password <= password'
    BY <1>0, <2>2
  <2>7. QED BY <2>1, <2>2, <2>4, <2>5, <2>6, ResetFrame
<1>3. ASSUME NEW p \in Requests, LoginVerify(p) PROVE ResetInv'
  <2>1. /\ UNCHANGED <<table, password, cred, swept, stragglers>>
    BY <1>3 DEF LoginVerify, rowVars, ghosts
  <2>2. request'[p].at = "insertRoot" /\ request'[p].version = password /\ Others(p)
    BY <1>0, <1>3 DEF LoginVerify, Start, Others, Idle
  <2>3. ~ (password < swept) /\ password <= password'
    BY <1>0, <2>1 DEF ResetInv
  <2>4. \A t \in Tokens : Active(t)' => Active(t)
    BY <2>1 DEF Active, Exists
  <2>5. QED BY <2>1, <2>2, <2>3, <2>4, ResetFrame
<1>4. ASSUME NEW p \in Requests, ResetPassword(p) PROVE ResetInv'
  <2>1. /\ UNCHANGED <<table, cred, swept, stragglers>> /\ password' = password + 1
    BY <1>4 DEF ResetPassword, rowVars, ghosts
  <2>2. /\ request'[p].at = "revokeAll" /\ request'[p].version = password + 1 /\ Others(p)
    BY <1>0, <1>4 DEF ResetPassword, Others, Locals
  <2>3. request'[p].version <= password' /\ password <= password'
    BY <1>0, <2>1, <2>2
  <2>4. \A t \in Tokens : Active(t)' => Active(t)
    BY <2>1 DEF Active, Exists
  <2>5. QED BY <2>1, <2>2, <2>3, <2>4, ResetFrame
<1>5. ASSUME NEW p \in Requests, LoginInsert(p) PROVE ResetInv'
  <2>1. PICK n \in Tokens :
          /\ Added(n) /\ Others(p)
          /\ request[p].at = "insertRoot" /\ request'[p].at = "respond"
          /\ cred' = [cred EXCEPT ![n] = request[p].version]
          /\ stragglers' = (stragglers \ {p}) \cup (IF p \in stragglers THEN {n} ELSE {})
    BY <1>5, LoginInsertEffect
  <2>2. swept' = swept /\ password' = password /\ password <= password'
    BY <1>0, <1>5 DEF LoginInsert
  <2>3. cred'[n] = request[p].version /\ request[p].version \in Nat
    BY <1>0, <2>1 DEF Locals
  <2>4. \A t \in Tokens : Exists(t) => cred'[t] = cred[t]
    BY <1>0, <2>1 DEF Added
  <2>5. cred'[n] >= swept \/ n \in stragglers'
    BY <1>0, <2>1, <2>3 DEF ResetInv
  <2>6. \A t \in Tokens : Active(t)' => Active(t) \/ t = n
    BY <2>1 DEF Added, SameRow, Active
  <2>7. QED BY <2>1, <2>2, <2>4, <2>5, <2>6, ResetFrame
<1>6. ASSUME NEW p \in Requests, RefreshInsert(p) PROVE ResetInv'
  <2>1. PICK n \in Tokens :
          /\ Added(n) /\ Others(p)
          /\ request[p].at = "insert" /\ request'[p].at = "mark"
          /\ cred' = [cred EXCEPT ![n] = cred[request[p].current]]
          /\ stragglers' = (stragglers \ {p}) \cup
               (IF p \in stragglers \/ request[p].current \in stragglers THEN {n} ELSE {})
    BY <1>6, RefreshInsertEffect
  <2>2. swept' = swept /\ password' = password /\ password <= password'
    BY <1>0, <1>6 DEF RefreshInsert
  <2>3. request[p].current \in Tokens
    BY <2>1, RequestFields DEF Reading
  <2>4. cred'[n] = cred[request[p].current] /\ cred'[n] \in Nat
    BY <1>0, <2>1, <2>3
  <2>5. \A t \in Tokens : Exists(t) => cred'[t] = cred[t]
    BY <1>0, <2>1 DEF Added
  <2>6. cred'[n] >= swept \/ n \in stragglers'
    BY <1>0, <2>1, <2>4 DEF ResetInv
  <2>7. \A t \in Tokens : Active(t)' => Active(t) \/ t = n
    BY <2>1 DEF Added, SameRow, Active
  <2>8. QED BY <2>1, <2>2, <2>5, <2>6, <2>7, ResetFrame
<1>7. ASSUME NEW p \in Requests, RefreshMark(p) \/ LogoutMark(p) \/ RefreshBurn(p)
      PROVE  ResetInv'
  <2>1. UNCHANGED <<password, cred, swept, stragglers>>
    BY <1>7 DEF RefreshMark, LogoutMark, RefreshBurn, ghosts
  <2>2. Others(p) /\ request'[p].at \notin {"revokeAll", "insertRoot", "insert"}
    BY <1>7, RefreshMarkEffect, LogoutMarkEffect, BurnEffect DEF Idle
  <2>3. \A t \in Tokens : Active(t)' => Active(t)
    <3>1. CASE RefreshMark(p) \/ LogoutMark(p)
      <4>1. PICK t \in Tokens, b \in Tokens \cup {None} : Marked(t, b)
        BY <3>1, RefreshMarkEffect, LogoutMarkEffect
      <4>2. QED BY <4>1 DEF Marked, SameRow, Active
    <3>2. CASE RefreshBurn(p)
      <4>1. PICK ts : Revoked(ts)
        BY <3>2, BurnEffect
      <4>2. QED BY <4>1 DEF Revoked, Active
    <3>3. QED BY <1>7, <3>1, <3>2
  <2>4. password <= password'
    BY <1>0, <2>1
  <2>5. QED BY <2>1, <2>2, <2>3, <2>4, ResetFrame
<1>8. ASSUME NEW p \in Requests, ResetRevokeAll(p) PROVE ResetInv'
  <2>1. /\ request[p].at = "revokeAll" /\ Revoked(ToRevoke) /\ Others(p)
        /\ request'[p] = Idle
    BY <1>8, RevokeAllEffect
  <2>2. /\ swept' = IF request[p].version > swept THEN request[p].version ELSE swept
        /\ stragglers' = stragglers \cup
             {q \in Requests : request[q].at \in {"insertRoot", "insert"}}
        /\ password' = password
    BY <1>8 DEF ResetRevokeAll
  <2>3. swept' <= password'
    BY <2>1, <2>2 DEF ResetInv
  <2>4. \A t \in Tokens : ~ Active(t)'
    BY <2>1 DEF Revoked, ToRevoke, Active
  <2>5. ResetEndsOldSessions'
    BY <2>4 DEF ResetEndsOldSessions
  <2>6. \A x \in Requests : request'[x].at = "revokeAll" => request'[x].version <= password'
    BY <2>1, <2>2 DEF Others, Idle, ResetInv
  <2>7. \A x \in Requests : request'[x].at \in {"insertRoot", "insert"} => x \in stragglers'
    BY <2>1, <2>2 DEF Others, Idle
  <2>8. QED BY <2>3, <2>5, <2>6, <2>7 DEF ResetInv
<1>9. QED
  BY <1>1, <1>2, <1>3, <1>4, <1>5, <1>6, <1>7, <1>8 DEF Next, Refresh, Quiet

\* After revokeAllForUser every session with an older password is over, but those of
\* requests that were about to insert a token at that moment.
THEOREM ResetsEndSessions == Spec => []ResetEndsOldSessions
<1>1. ResetInv => ResetEndsOldSessions
  BY DEF ResetInv
<1>2. TokensInv /\ TokensInv' /\ ResetInv /\ [Next]_vars => ResetInv'
  BY ResetNext
<1>3. QED BY <1>1, <1>2, ResetInit, TokensStayWhole, PTL DEF Spec

-----------------------------------------------------------------------------
(* Families whose requests did not overlap                                 *)

LEMMA OrderlyInit == Init => OrderlyInv
<1> SUFFICES ASSUME Init, NEW f \in Tokens PROVE Orderly(f)
  BY DEF OrderlyInv
<1>1. \A p \in Requests : ~ Reading(p) /\ request[p].at # "respond"
  BY DEF Init, Idle, Reading
<1>2. \A c \in Tokens : ~ Active(c)
  BY DEF Init, Active, Exists
<1>3. Given = {}
  BY <1>1 DEF Given, Init
<1>4. burned = {}
  BY DEF Init
<1>5. QED BY <1>1, <1>2, <1>3, <1>4 DEF Orderly, Solo, Current, OneReachable, Exchanged

\* For most steps, and most families, it is enough that no live token becomes
\* reachable, that no link changes and that the request is right about what it reads.
LEMMA OrderlyFrame ==
  ASSUME TokensInv, TokensInv', NEW f \in Tokens, Orderly(f), NEW p \in Requests,
         Others(p), Kept,
         \A c \in Tokens : Active(c)' /\ Family(c)' = f /\ Reachable(c)' =>
           Active(c) /\ Reachable(c),
         \A t \in Tokens : Exists(t) /\ Family(t) = f =>
           table'[t].replacedBy = table[t].replacedBy,
         \A c \in Given' : Family(c)' = f => c \in Given,
         Reading(p)' /\ FamilyOf(p)' = f =>
           /\ CurrentOf(p, f)'
           /\ \A q \in Requests \ {p} : ~ (Reading(q) /\ FamilyOf(q) = f),
         f \in burned' => Dead(f)'
  PROVE  Orderly(f)'
<1>1. ASSUME NEW x \in Requests \ {p}, Reading(x)'
      PROVE  /\ request'[x] = request[x] /\ Reading(x)
             /\ \E t \in Tokens : /\ t = request[x].current /\ Exists(t) /\ Family(t) = FamilyOf(x)
             /\ FamilyOf(x)' = FamilyOf(x)
  <2>1. request'[x] = request[x] /\ Reading(x)
    BY <1>1 DEF Others, Reading
  <2>2. PICK t \in Tokens : t = request[x].current /\ Exists(t)
    BY <2>1, RequestFields
  <2>3. FamilyOf(x)' = FamilyOf(x) /\ FamilyOf(x) = Family(t)
    BY <2>1, <2>2 DEF FamilyOf, Kept, Family
  <2>4. QED BY <2>1, <2>2, <2>3
<1>2. Solo(f)'
  <2> SUFFICES ASSUME NEW x \in Requests, NEW y \in Requests, Reading(x)', Reading(y)',
                      FamilyOf(x)' = f, FamilyOf(y)' = f, x # y
               PROVE  FALSE
    BY DEF Solo
  <2>1. CASE x # p /\ y # p
    BY <1>1, <2>1 DEF Orderly, Solo
  <2>2. CASE x = p \/ y = p
    BY <1>1, <2>2
  <2>3. QED BY <2>1, <2>2
<1>3. Current(f)'
  <2> SUFFICES ASSUME NEW x \in Requests, Reading(x)', FamilyOf(x)' = f, x # p
               PROVE  CurrentOf(x, f)'
    BY DEF Current
  <2>1. request'[x] = request[x] /\ Reading(x) /\ FamilyOf(x) = f
    BY <1>1
  <2>2. PICK t \in Tokens : t = request[x].current /\ Exists(t) /\ Family(t) = f
    BY <1>1, <2>1
  <2>3. table'[t].replacedBy = table[t].replacedBy
    BY <2>2
  <2>4. CurrentOf(x, f)
    BY <2>1 DEF Orderly, Current
  <2>5. \A c \in Tokens : Active(c)' /\ Family(c)' = f /\ Reachable(c)' =>
          Active(c) /\ Family(c) = f /\ Reachable(c)
    BY DEF Active, Kept
  <2>6. QED BY <2>1, <2>2, <2>3, <2>4, <2>5 DEF CurrentOf
<1>4. OneReachable(f)'
  BY DEF Orderly, OneReachable, Active, Kept
<1>5. Exchanged(f)'
  <2> SUFFICES ASSUME NEW c \in Given', Family(c)' = f, table'[c].parent # None
               PROVE  table'[table'[c].parent].replacedBy = c
    BY DEF Exchanged
  <2>1. c \in Given /\ c \in Tokens /\ Exists(c)
    BY GivenExist
  <2>2. Family(c) = f /\ table'[c].parent = table[c].parent
    BY <2>1 DEF Kept
  <2>3. PICK t \in Tokens : t = table[c].parent /\ Exists(t) /\ Family(t) = f
    BY <2>1, <2>2, ExistsIsRow DEF TokensInv, RowOK, Row
  <2>4. table[t].replacedBy = c
    BY <2>1, <2>2, <2>3 DEF Orderly, Exchanged
  <2>5. QED BY <2>2, <2>3, <2>4
<1>6. QED BY <1>2, <1>3, <1>4, <1>5 DEF Orderly

\* A row a request has found live has no replacement.
LEMMA LiveIsNotReplaced ==
  ASSUME TokensInv, NEW t \in Tokens, Active(t)
  PROVE  table[t].replacedBy = None
BY DEF TokensInv, RowOK, Active

LEMMA OrderlyQuiet ==
  ASSUME TokensInv, TokensInv', [Next]_vars, NEW p \in Requests, Quiet(p),
         NEW f \in Tokens, f \notin raced', f \notin raced => Orderly(f)
  PROVE  Orderly(f)'
<1>1. /\ table' = table /\ burned' = burned /\ Others(p) /\ TypeOK
      /\ request'[p].at # "respond" /\ Given' \subseteq Given
  BY QuietEffect, GivenQuiet DEF TokensInv
<1>2. /\ \A c : Active(c)' <=> Active(c)
      /\ \A c : Exists(c)' <=> Exists(c)
      /\ \A c : Family(c)' = Family(c)
      /\ \A c : Reachable(c)' => Reachable(c)
      /\ Kept
  BY <1>1 DEF Active, Exists, Family, Reachable, Kept
<1>3. f \notin raced
  BY DEF Quiet, LoginVerify, RefreshRead, RefreshLookup, Respond, LogoutRead, ResetConsume,
         ResetPassword, Crash, ghosts, NoteRead
<1>4. Orderly(f) /\ (f \in burned' => Dead(f)')
  BY <1>1, <1>3, DeadNext DEF Orderly
<1>5. ASSUME Reading(p)', FamilyOf(p)' = f
      PROVE  /\ CurrentOf(p, f)'
             /\ \A q \in Requests \ {p} : ~ (Reading(q) /\ FamilyOf(q) = f)
  <2>1. CASE RefreshRead(p) \/ LogoutRead(p)
    <3>1. PICK t \in known :
            /\ NoteRead(t)
            /\ \/ /\ Active(t)
                  /\ \/ Start(p, [Idle EXCEPT !.at = "insert", !.current = t])
                     \/ Start(p, [Idle EXCEPT !.at = "logout", !.current = t])
               \/ Start(p, [Idle EXCEPT !.at = "lookup", !.current = t,
                                        !.child = table[t].replacedBy])
               \/ Start(p, [Idle EXCEPT !.at = "burn", !.current = t])
      BY <2>1 DEF RefreshRead, LogoutRead, MayRotate
    <3>2. \A q : Start(p, q) => request'[p] = q
      BY <1>1 DEF Start, TypeOK
    <3>3. t \in Tokens /\ Exists(t) /\ t \in Given
      BY DEF TokensInv, TypeOK, Given
    <3>4. /\ request'[p].current = t
          /\ request'[p].at \in {"insert", "logout"} => Active(t)
          /\ request'[p].at = "lookup" => request'[p].child = table[t].replacedBy
          /\ request'[p].at # "mark"
      <4>1. /\ [Idle EXCEPT !.at = "insert", !.current = t].current = t
            /\ [Idle EXCEPT !.at = "insert", !.current = t].at = "insert"
            /\ [Idle EXCEPT !.at = "logout", !.current = t].current = t
            /\ [Idle EXCEPT !.at = "logout", !.current = t].at = "logout"
            /\ [Idle EXCEPT !.at = "burn", !.current = t].current = t
            /\ [Idle EXCEPT !.at = "burn", !.current = t].at = "burn"
        BY DEF Idle
      <4>2. /\ [Idle EXCEPT !.at = "lookup", !.current = t,
                            !.child = table[t].replacedBy].current = t
            /\ [Idle EXCEPT !.at = "lookup", !.current = t,
                            !.child = table[t].replacedBy].at = "lookup"
            /\ [Idle EXCEPT !.at = "lookup", !.current = t,
                            !.child = table[t].replacedBy].child = table[t].replacedBy
        BY DEF Idle
      <4>3. QED BY <3>1, <3>2, <4>1, <4>2
    <3>5. Family(t) = f
      BY <1>2, <1>5, <3>4 DEF FamilyOf, Family
    <3>6. \A q \in Requests : ~ (Reading(q) /\ FamilyOf(q) = f)
      <4>1. f \notin {g \in {Family(t)} : \E q \in Requests :
              request[q].at \in {"lookup", "insert", "mark", "burn", "logout"}
                /\ Family(request[q].current) = g}
        BY <3>1 DEF NoteRead
      <4>2. QED BY <3>5, <4>1 DEF Reading, FamilyOf
    <3>7. Active(t) => table[t].replacedBy = None
      BY <3>3, LiveIsNotReplaced
    <3>8. Active(t) => \A c \in Tokens : Active(c) /\ Family(c) = f /\ Reachable(c) => c = t
      BY <1>4, <3>3, <3>5 DEF Orderly, OneReachable, Reachable
    <3>9. CurrentOf(p, f)'
      BY <1>1, <1>2, <3>4, <3>7, <3>8 DEF CurrentOf
    <3>10. QED BY <3>6, <3>9
  <2>2. CASE RefreshLookup(p)
    <3>1. request[p].at = "lookup" /\ Reading(p) /\ request[p] \in Locals
      BY <2>2, RequestFields DEF RefreshLookup, Reading
    <3>2. PICK t \in Tokens, u \in Tokens :
            /\ t = request[p].current /\ u = request[p].child
            /\ Exists(t) /\ Exists(u) /\ Family(u) = Family(t) /\ FamilyOf(p) = Family(t)
      BY <3>1, RequestFields DEF RequestOK, FamilyOf
    <3>3. \/ /\ Active(u) /\ request'[p].at = "insert" /\ request'[p].current = u
          \/ /\ request'[p].at = "burn" /\ request'[p].current = t
      BY <1>1, <2>2, <3>1, <3>2 DEF RefreshLookup, Usable, Goto, TypeOK, Locals
    <3>4. FamilyOf(p) = f
      BY <1>2, <1>5, <3>2, <3>3 DEF FamilyOf, Family
    <3>5. \A q \in Requests \ {p} : ~ (Reading(q) /\ FamilyOf(q) = f)
      BY <1>4, <3>1, <3>4 DEF Orderly, Solo
    <3>6. table[t].replacedBy = u
      BY <1>4, <3>1, <3>2, <3>4 DEF Orderly, Current, CurrentOf
    <3>7. Reachable(u) /\ (Active(u) => table[u].replacedBy = None)
      BY <3>2, <3>6, LiveIsNotReplaced DEF Reachable
    <3>8. Active(u) => \A c \in Tokens : Active(c) /\ Family(c) = f /\ Reachable(c) => c = u
      BY <1>4, <3>2, <3>4, <3>7 DEF Orderly, OneReachable
    <3>9. CurrentOf(p, f)'
      BY <1>1, <1>2, <3>3, <3>7, <3>8 DEF CurrentOf
    <3>10. QED BY <3>5, <3>9
  <2>3. CASE LoginVerify(p) \/ ResetConsume(p)
    <3>1. /\ [Idle EXCEPT !.at = "insertRoot", !.version = password].at = "insertRoot"
          /\ [Idle EXCEPT !.at = "setPassword"].at = "setPassword"
      BY DEF Idle
    <3>2. request'[p].at \in {"insertRoot", "setPassword"}
      BY <1>1, <2>3, <3>1 DEF LoginVerify, ResetConsume, Start, TypeOK
    <3>3. QED BY <1>5, <3>2 DEF Reading
  <2>4. CASE Respond(p) \/ Crash(p) \/ ResetPassword(p)
    BY <1>1, <1>5, <2>4
    DEF Respond, Crash, ResetPassword, Finish, Idle, TypeOK, Locals, Reading
  <2>5. QED BY <2>1, <2>2, <2>3, <2>4 DEF Quiet
<1>6. QED BY <1>1, <1>2, <1>4, <1>5, OrderlyFrame

\* A new token: nobody can reach it yet, unless it starts its family.
LEMMA OrderlyInsert ==
  ASSUME TokensInv, TokensInv', OrderlyInv, [Next]_vars, NEW p \in Requests,
         LoginInsert(p) \/ RefreshInsert(p), NEW f \in Tokens \ raced'
  PROVE  Orderly(f)'
<1>1. PICK n \in Tokens :
        /\ Added(n) /\ Kept /\ Others(p)
        /\ \/ /\ LoginInsert(p) /\ table'[n].family = n /\ table'[n].parent = None
              /\ request'[p].at = "respond" /\ request'[p].child = n
           \/ /\ RefreshInsert(p) /\ table'[n].family = FamilyOf(p)
              /\ request[p].at = "insert" /\ request'[p].at = "mark"
              /\ request'[p].current = request[p].current
  BY LoginInsertEffect, RefreshInsertEffect
<1>2. /\ known' = known /\ burned' = burned /\ raced' = raced
  BY DEF LoginInsert, RefreshInsert
<1>3. Orderly(f)
  BY <1>2 DEF OrderlyInv
<1>4. n \notin Given /\ \A t \in Tokens : Exists(t) => table[t].replacedBy # n /\ Family(t) # n
  <2>1. ~ Exists(n) /\ n # None
    BY <1>1, NoneIsNoToken DEF Added
  <2>2. ASSUME NEW t \in Tokens, Exists(t) PROVE table[t].replacedBy # n /\ Family(t) # n
    BY <2>1, <2>2 DEF TokensInv, RowOK
  <2>3. QED BY <2>1, <2>2, GivenExist
<1>5. Given' \subseteq Given \cup {n} /\ (RefreshInsert(p) => Given' \subseteq Given)
  <2>1. CASE LoginInsert(p)
    <3>1. Given' \subseteq Given \cup {n}
      BY <1>1, <1>2, <2>1 DEF Given, Others
    <3>2. ~ RefreshInsert(p)
      BY <2>1 DEF LoginInsert, RefreshInsert
    <3>3. QED BY <3>1, <3>2
  <2>2. CASE RefreshInsert(p)
    BY <1>1, <1>2, <2>2, GivenQuiet, RefreshInsertEffect
  <2>3. QED BY <1>1, <2>1, <2>2
<1>6. \A c \in Tokens \ {n} : /\ Active(c)' => Active(c)
                              /\ Reachable(c)' => Reachable(c)
  <2> SUFFICES ASSUME NEW c \in Tokens \ {n}
               PROVE  (Active(c)' => Active(c)) /\ (Reachable(c)' => Reachable(c))
    OBVIOUS
  <2>1. Active(c)' => Active(c)
    BY <1>1 DEF Added, SameRow, Active
  <2>2. ASSUME NEW t \in Tokens, Exists(t)', table'[t].replacedBy = c
        PROVE  Exists(t) /\ table[t].replacedBy = c
    BY <1>1, <2>2, NoneIsNoToken DEF Added, SameRow
  <2>3. QED BY <1>5, <2>1, <2>2 DEF Reachable
<1>7. \A t \in Tokens : Exists(t) => table'[t].replacedBy = table[t].replacedBy
  BY <1>1 DEF Added, SameRow
<1>8. f \in burned' => Dead(f)'
  BY <1>2, <1>3, DeadNext DEF Orderly
<1>9. CASE LoginInsert(p) /\ f = n
  <2>1. \A c \in Tokens : Exists(c)' /\ Family(c)' = n => c = n
    BY <1>1, <1>4 DEF Added, SameRow, Family
  <2>2. \A x \in Requests : Reading(x)' => FamilyOf(x)' # n
    <3> SUFFICES ASSUME NEW x \in Requests, Reading(x)' PROVE FamilyOf(x)' # n
      OBVIOUS
    <3>1. x # p
      BY <1>1, <1>9 DEF Reading, RefreshInsert, LoginInsert
    <3>2. request'[x] = request[x] /\ Reading(x)
      BY <1>1, <3>1 DEF Others, Reading
    <3>3. PICK t \in Tokens : t = request[x].current /\ Exists(t)
      BY <3>2, RequestFields
    <3>4. FamilyOf(x)' = Family(t)
      BY <1>1, <3>2, <3>3 DEF FamilyOf, Kept, Family
    <3>5. QED BY <1>4, <3>3, <3>4
  <2>3. \A c \in Given' : c \in Tokens /\ Exists(c)'
    <3>1. \A c \in Given : c \in Tokens /\ Exists(c)
      BY GivenExist
    <3>2. QED BY <1>1, <1>5, <3>1 DEF Added, Kept
  <2>4. table'[n].parent = None
    BY <1>1, <1>9 DEF LoginInsert, RefreshInsert
  <2>5. Exchanged(f)'
    BY <1>9, <2>1, <2>3, <2>4 DEF Exchanged
  <2>6. Solo(f)' /\ Current(f)'
    BY <1>9, <2>2 DEF Solo, Current
  <2>7. OneReachable(f)'
    BY <1>9, <2>1 DEF OneReachable, Active
  <2>8. QED BY <1>8, <2>5, <2>6, <2>7 DEF Orderly
<1>10. CASE ~ (LoginInsert(p) /\ f = n)
  <2>1. \A c \in Given' : Family(c)' = f => c \in Given
    BY <1>1, <1>5, <1>10 DEF Family
  <2>2. ~ Reachable(n)' \/ Family(n)' # f
    <3>1. CASE RefreshInsert(p)
      <4>1. n \notin Given'
        BY <1>4, <1>5, <3>1
      <4>2. \A t \in Tokens : Exists(t)' => table'[t].replacedBy # n
        BY <1>1, <1>4, NoneIsNoToken DEF Added, SameRow
      <4>3. QED BY <4>1, <4>2 DEF Reachable
    <3>2. CASE ~ RefreshInsert(p)
      BY <1>1, <1>10, <3>2 DEF Family
    <3>3. QED BY <3>1, <3>2
  <2>3. \A c \in Tokens : Active(c)' /\ Family(c)' = f /\ Reachable(c)' =>
          Active(c) /\ Reachable(c)
    BY <1>6, <2>2
  <2>4. ASSUME Reading(p)', FamilyOf(p)' = f
        PROVE  /\ CurrentOf(p, f)'
               /\ \A q \in Requests \ {p} : ~ (Reading(q) /\ FamilyOf(q) = f)
    <3>1. /\ request[p].at = "insert" /\ request'[p].at = "mark"
          /\ request'[p].current = request[p].current
      BY <1>1, <2>4 DEF Reading
    <3>2. PICK t \in Tokens : t = request[p].current /\ Exists(t)
      BY <3>1, RequestFields DEF Reading
    <3>3. Reading(p) /\ FamilyOf(p) = f /\ Family(t) = f
      BY <1>1, <2>4, <3>1, <3>2 DEF Reading, FamilyOf, Kept, Family
    <3>4. CurrentOf(p, f) /\ \A q \in Requests \ {p} : ~ (Reading(q) /\ FamilyOf(q) = f)
      BY <1>3, <3>3 DEF Orderly, Current, Solo
    <3>5. table'[t].replacedBy = None
      BY <1>7, <3>1, <3>2, <3>4 DEF CurrentOf
    <3>6. \A c \in Tokens : Active(c)' /\ Family(c)' = f /\ Reachable(c)' => c = t
      BY <1>1, <2>3, <3>1, <3>2, <3>4 DEF CurrentOf, Kept, Active
    <3>7. QED BY <3>1, <3>2, <3>4, <3>5, <3>6 DEF CurrentOf
  <2>5. QED BY <1>1, <1>3, <1>7, <1>8, <2>1, <2>3, <2>4, OrderlyFrame
<1>11. QED BY <1>9, <1>10

LEMMA OrderlyRevoke ==
  ASSUME TokensInv, TokensInv', OrderlyInv, [Next]_vars, NEW p \in Requests,
         RefreshBurn(p) \/ ResetRevokeAll(p), NEW f \in Tokens \ raced'
  PROVE  Orderly(f)'
<1>1. PICK ts \in SUBSET Tokens :
        /\ Revoked(ts)
        /\ RefreshBurn(p) => ts = ToBurn(request[p].current)
  <2>1. CASE RefreshBurn(p)
    BY <2>1, BurnEffect DEF ToBurn
  <2>2. CASE ResetRevokeAll(p)
    BY <2>2, RevokeAllEffect DEF ToRevoke, ResetRevokeAll, RefreshBurn
  <2>3. QED BY <2>1, <2>2
<1>2. /\ Kept /\ Others(p) /\ request'[p] = Idle /\ request[p].at # "respond"
  BY BurnEffect, RevokeAllEffect
<1>3. known' = known /\ raced' = raced /\ Given' \subseteq Given
  BY <1>2, GivenQuiet DEF RefreshBurn, ResetRevokeAll, Idle
<1>4. Orderly(f)
  BY <1>3 DEF OrderlyInv
<1>5. ~ Reading(p)'
  BY <1>2 DEF Reading, Idle
<1>6. \A c \in Tokens : /\ Active(c)' => Active(c)
                        /\ Reachable(c)' => Reachable(c)
  BY <1>1, <1>3 DEF Revoked, Active, Reachable
<1>7. \A t \in Tokens : Exists(t) => table'[t].replacedBy = table[t].replacedBy
  BY <1>1 DEF Revoked
<1>8. \A c \in Given' : Family(c)' = f => c \in Given
  BY <1>3
<1>9. f \in burned' => Dead(f)'
  <2>1. CASE f \in burned
    BY <1>4, <2>1, DeadNext DEF Orderly
  <2>2. CASE f \in burned' \ burned
    <3>1. RefreshBurn(p) /\ f = FamilyOf(p) /\ Reading(p)
      BY <2>2, BurnEffect DEF RefreshBurn, ResetRevokeAll, FamilyOf
    <3>2. PICK t \in Tokens : t = request[p].current /\ Exists(t) /\ Family(t) = f
      BY <3>1, RequestFields DEF FamilyOf
    <3>3. Exists(f)'
      BY <1>2, <3>2 DEF TokensInv, RowOK, Kept
    <3>4. \A c \in Tokens : Active(c)' => Family(c)' # f
      <4>1. ts = {u \in Tokens : Active(u) /\ Family(u) = f}
        BY <1>1, <3>1, <3>2 DEF ToBurn
      <4>2. QED BY <1>1, <4>1 DEF Revoked, Active
    <3>5. \A x \in Requests : request'[x].at = "insert" => FamilyOf(x)' # f
      <4> SUFFICES ASSUME NEW x \in Requests, request'[x].at = "insert" PROVE FamilyOf(x)' # f
        OBVIOUS
      <4>1. x # p
        BY <1>2 DEF Idle
      <4>2. request'[x] = request[x] /\ Reading(x)
        BY <1>2, <4>1 DEF Others, Reading
      <4>3. PICK u \in Tokens : u = request[x].current /\ Exists(u)
        BY <4>2, RequestFields
      <4>4. FamilyOf(x)' = FamilyOf(x)
        BY <1>2, <4>2, <4>3 DEF FamilyOf, Kept, Family
      <4>5. FamilyOf(x) # f
        BY <1>4, <3>1, <4>1, <4>2 DEF Orderly, Solo
      <4>6. QED BY <4>4, <4>5
    <3>6. QED BY <3>3, <3>4, <3>5 DEF Dead, FamilyOf
  <2>3. QED BY <2>1, <2>2
<1>10. QED BY <1>2, <1>4, <1>5, <1>6, <1>7, <1>8, <1>9, OrderlyFrame

\* A token that is revoked, and linked to its successor or by a logout.
LEMMA OrderlyMark ==
  ASSUME TokensInv, TokensInv', OrderlyInv, [Next]_vars, NEW p \in Requests,
         RefreshMark(p) \/ LogoutMark(p), NEW f \in Tokens \ raced'
  PROVE  Orderly(f)'
<1>1. PICK t \in Tokens, b \in Tokens \cup {None} :
        /\ t = request[p].current /\ Reading(p)
        /\ Marked(t, b) /\ Kept /\ Others(p)
        /\ \/ /\ RefreshMark(p) /\ request[p].at = "mark" /\ b = request[p].child /\ b \in Tokens
              /\ request'[p].at = "respond" /\ request'[p].child = b
           \/ /\ LogoutMark(p) /\ request[p].at = "logout" /\ b = None
              /\ request'[p] = Idle
  BY RefreshMarkEffect, LogoutMarkEffect
<1>2. known' = known /\ raced' = raced /\ burned' = burned
  BY DEF RefreshMark, LogoutMark, ghosts
<1>3. Orderly(f)
  BY <1>2 DEF OrderlyInv
<1>4. f \in burned' => Dead(f)'
  BY <1>2, <1>3, DeadNext DEF Orderly
<1>5. Exists(t) /\ FamilyOf(p) = Family(t) /\ ~ Reading(p)'
  BY <1>1, RequestFields DEF FamilyOf, Reading, Idle
<1>6. Given' \subseteq Given \cup {b} /\ (b = None => Given' \subseteq Given)
  BY <1>1, <1>2, NoneIsNoToken DEF Given, Others, Idle
<1>7. b # None => b \in Tokens /\ Exists(b) /\ Family(b) = Family(t) /\ table[b].parent = t
  BY <1>1, RequestFields DEF RequestOK, FamilyOf
<1>8. \A c \in Tokens : /\ Active(c)' => Active(c) /\ c # t
                        /\ Reachable(c)' => Reachable(c) \/ c = b
  <2> SUFFICES ASSUME NEW c \in Tokens
               PROVE  /\ Active(c)' => Active(c) /\ c # t
                      /\ Reachable(c)' => Reachable(c) \/ c = b
    OBVIOUS
  <2>1. Active(c)' => Active(c) /\ c # t
    BY <1>1 DEF Marked, SameRow, Active
  <2>2. ASSUME NEW u \in Tokens, Exists(u)', table'[u].replacedBy = c
        PROVE  c = b \/ (Exists(u) /\ table[u].replacedBy = c)
    BY <1>1, <2>2 DEF Marked, SameRow
  <2>3. Reachable(c)' => Reachable(c) \/ c = b
    BY <1>6, <2>2 DEF Reachable
  <2>4. QED BY <2>1, <2>3
<1>9. CASE f # Family(t)
  <2>1. \A c \in Tokens : Active(c)' /\ Family(c)' = f /\ Reachable(c)' =>
          Active(c) /\ Reachable(c)
    BY <1>1, <1>7, <1>8, <1>9, NoneIsNoToken DEF Kept
  <2>2. \A u \in Tokens : Exists(u) /\ Family(u) = f =>
          table'[u].replacedBy = table[u].replacedBy
    BY <1>1, <1>9 DEF Marked, SameRow
  <2>3. \A c \in Given' : Family(c)' = f => c \in Given
    BY <1>1, <1>6, <1>7, <1>9 DEF Kept
  <2>4. QED BY <1>1, <1>3, <1>4, <1>5, <2>1, <2>2, <2>3, OrderlyFrame
<1>10. CASE f = Family(t)
  <2>1. CurrentOf(p, f) /\ \A q \in Requests \ {p} : ~ (Reading(q) /\ FamilyOf(q) = f)
    BY <1>1, <1>3, <1>5, <1>10 DEF Orderly, Current, Solo
  <2>2. table[t].replacedBy = None
    BY <1>1, <2>1 DEF CurrentOf
  <2>3. \A x \in Requests : Reading(x)' => FamilyOf(x)' # f
    <3> SUFFICES ASSUME NEW x \in Requests, Reading(x)' PROVE FamilyOf(x)' # f
      OBVIOUS
    <3>1. x # p
      BY <1>5
    <3>2. request'[x] = request[x] /\ Reading(x)
      BY <1>1, <3>1 DEF Others, Reading
    <3>3. PICK u \in Tokens : u = request[x].current /\ Exists(u)
      BY <3>2, RequestFields
    <3>4. FamilyOf(x)' = FamilyOf(x)
      BY <1>1, <3>2, <3>3 DEF FamilyOf, Kept, Family
    <3>5. QED BY <2>1, <3>1, <3>2, <3>4
  <2>4. Solo(f)' /\ Current(f)'
    BY <2>3 DEF Solo, Current
  <2>5. OneReachable(f)'
    <3>1. CASE b = None
      BY <1>1, <1>3, <1>8, <3>1, NoneIsNoToken DEF Orderly, OneReachable, Kept, Active
    <3>2. CASE b # None
      <4>1. request[p].at = "mark"
        BY <1>1, <3>2
      <4>2. ASSUME NEW c \in Tokens, Active(c)', Reachable(c)', Family(c)' = f
            PROVE  c = b
        <5>1. Active(c) /\ c # t /\ Family(c) = f /\ (Reachable(c) \/ c = b)
          BY <1>1, <1>8, <4>2 DEF Kept, Active
        <5>2. Reachable(c) => c = t
          BY <1>1, <2>1, <4>1, <5>1 DEF CurrentOf
        <5>3. QED BY <5>1, <5>2
      <4>3. QED BY <4>2 DEF OneReachable
    <3>3. QED BY <3>1, <3>2
  <2>6. Exchanged(f)'
    <3> SUFFICES ASSUME NEW c \in Given', Family(c)' = f, table'[c].parent # None
                 PROVE  table'[table'[c].parent].replacedBy = c
      BY DEF Exchanged
    <3>1. CASE c = b
      <4>1. table'[c].parent = t
        <5>1. b # None
          BY <1>6, <3>1, GivenExist, NoneIsNoToken
        <5>2. QED BY <1>1, <1>7, <3>1, <5>1 DEF Kept
      <4>2. QED BY <1>1, <3>1, <4>1 DEF Marked
    <3>2. CASE c # b
      <4>1. c \in Given /\ c \in Tokens /\ Exists(c)
        BY <1>6, <3>2, GivenExist
      <4>2. Family(c) = f /\ table'[c].parent = table[c].parent
        BY <1>1, <4>1 DEF Kept
      <4>3. PICK u \in Tokens : u = table[c].parent /\ Exists(u)
        BY <4>1, <4>2, ExistsIsRow DEF TokensInv, RowOK, Row
      <4>4. table[u].replacedBy = c
        BY <1>3, <4>1, <4>2, <4>3 DEF Orderly, Exchanged
      <4>5. u # t
        BY <2>2, <4>1, <4>4, NoneIsNoToken
      <4>6. QED BY <1>1, <4>2, <4>3, <4>4, <4>5 DEF Marked, SameRow
    <3>3. QED BY <3>1, <3>2
  <2>7. QED BY <1>4, <2>4, <2>5, <2>6 DEF Orderly
<1>11. QED BY <1>9, <1>10

LEMMA OrderlyNext == TokensInv /\ TokensInv' /\ OrderlyInv /\ [Next]_vars => OrderlyInv'
<1> SUFFICES ASSUME TokensInv, TokensInv', OrderlyInv, [Next]_vars, NEW f \in Tokens \ raced'
             PROVE  Orderly(f)'
  BY DEF OrderlyInv
<1>1. CASE UNCHANGED vars \/ \E t \in Tokens : GraceEnds(t) \/ Expire(t)
  <2>1. UNCHANGED <<table, request, known, burned, raced>>
    BY <1>1 DEF GraceEnds, Expire, vars, ghosts
  <2>2. Orderly(f)
    BY <2>1 DEF OrderlyInv
  <2>3. QED
    BY <2>1, <2>2
    DEF Orderly, Solo, Current, CurrentOf, OneReachable, Exchanged, Dead, Reachable, Given,
        Reading, FamilyOf, Active, Exists, Family
<1>2. ASSUME NEW p \in Requests, Quiet(p) PROVE Orderly(f)'
  <2>1. f \notin raced => Orderly(f)
    BY DEF OrderlyInv
  <2>2. QED BY <1>2, <2>1, OrderlyQuiet
<1>3. QED
  BY <1>1, <1>2, OrderlyInsert, OrderlyRevoke, OrderlyMark DEF Next, Refresh, Quiet

LEMMA OrderlyAlways == Spec => []OrderlyInv
<1>1. TokensInv /\ TokensInv' /\ OrderlyInv /\ [Next]_vars => OrderlyInv'
  BY OrderlyNext
<1>2. QED BY <1>1, OrderlyInit, TokensStayWhole, PTL DEF Spec

\* As long as the requests of a family do not overlap, no token is exchanged for two,
\* whatever answers are lost and exchanges retried.
THEOREM TokensAreExchangedOnce == Spec => []ExchangedOnce
<1>1. TokensInv /\ OrderlyInv => ExchangedOnce
  <2> SUFFICES ASSUME TokensInv, OrderlyInv, NEW c \in known, NEW d \in known,
                      table[c].parent # None, table[c].parent = table[d].parent,
                      Family(c) \notin raced
               PROVE  c = d
    BY DEF ExchangedOnce
  <2>1. /\ c \in Tokens /\ d \in Tokens /\ Exists(c) /\ Exists(d)
        /\ c \in Given /\ d \in Given
    BY DEF TokensInv, TypeOK, Given
  <2>2. Family(c) \in Tokens /\ Family(d) = Family(c)
    BY <2>1, ExistsIsRow DEF TokensInv, RowOK, Row, Family
  <2>3. Exchanged(Family(c))
    BY <2>2 DEF OrderlyInv, Orderly
  <2>4. QED BY <2>1, <2>2, <2>3 DEF Exchanged
<1>2. QED BY <1>1, OrderlyAlways, TokensStayWhole, PTL

\* ... at most one token of the family that clients hold is live, ...
THEOREM OneTokenIsUsable == Spec => []OneUsableToken
<1>1. TokensInv /\ OrderlyInv => OneUsableToken
  <2> SUFFICES ASSUME TokensInv, OrderlyInv, NEW c \in known, NEW d \in known,
                      Active(c), Active(d), Family(c) = Family(d), Family(c) \notin raced
               PROVE  c = d
    BY DEF OneUsableToken
  <2>1. /\ c \in Tokens /\ d \in Tokens /\ Exists(c)
        /\ Reachable(c) /\ Reachable(d)
    BY DEF TokensInv, TypeOK, Given, Reachable
  <2>2. Family(c) \in Tokens
    BY <2>1, ExistsIsRow DEF TokensInv, Row, Family
  <2>3. OneReachable(Family(c))
    BY <2>2 DEF OrderlyInv, Orderly
  <2>4. QED BY <2>1, <2>3 DEF OneReachable
<1>2. QED BY <1>1, OrderlyAlways, TokensStayWhole, PTL

\* ... and a detected replay ends the whole family for good.
THEOREM ReplaysEndFamilies == Spec => []ReplayEndsFamily
<1>1. TokensInv /\ OrderlyInv => ReplayEndsFamily
  BY ExistsIsRow
  DEF TokensInv, TypeOK, Row, Family, OrderlyInv, Orderly, Dead, Active, ReplayEndsFamily
<1>2. QED BY <1>1, OrderlyAlways, TokensStayWhole, PTL
=============================================================================
