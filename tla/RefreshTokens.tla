--------------------------- MODULE RefreshTokens ---------------------------
(***************************************************************************)
(* The refresh tokens of one user: login, refresh with rotation and replay *)
(* detection, logout and password reset (src/application/use-cases/auth),  *)
(* over the refresh_tokens table (pg-refresh-token-repository.ts).         *)
(*                                                                         *)
(* Every use case is a chain of statements, each committed on its own, and *)
(* requests served by any instance interleave between them.  A step below  *)
(* is one statement together with the code that runs on its result up to   *)
(* the next statement.  Every query is keyed by a token, a family or the   *)
(* user, so another user's tokens are independent of these.                *)
(***************************************************************************)
EXTENDS Naturals, FiniteSets

CONSTANTS
  Tokens,     \* token ids; a family is named after its first token
  Requests,   \* requests in flight at once
  None,       \* SQL NULL, and the absence of a row
  Grace,      \* REFRESH_GRACE_WINDOW_SECS > 0
  MaxResets   \* bound on password resets

Row == [family : Tokens, parent : Tokens \cup {None},
        replacedBy : Tokens \cup {None}, revoked : BOOLEAN]

ASSUME TokensAssumption ==
  /\ None \notin Tokens \cup Row
  /\ Tokens \cap Requests = {}
  /\ Grace \in BOOLEAN
  /\ MaxResets \in Nat

VARIABLES
  table,     \* refresh_tokens: token id -> row, None before its insert
  expired,   \* unrevoked tokens whose expires_at has passed
  recent,    \* revoked tokens with a replacement whose revoked_at is within the
             \* grace window: no code looks at it, or at expires_at, for others
  request,   \* what each request waits for, and the locals it carries
  password,  \* the version of the password hash stored for the user
  \* What the clients and the specification know:
  known,     \* tokens some client has been given
  cred,      \* password version the login of the token's family verified
  swept,     \* newest password version whose reset has revoked all tokens
  stragglers,\* requests, and tokens descending from them, that had passed their
             \* check but not inserted yet when all tokens were revoked
  burned,    \* families revoked because one of their tokens was replayed
  raced,     \* families of which a token was read while another request was
             \* rotating, burning or revoking one
  erased     \* tokens whose replacement a logout has overwritten

rowVars == <<table, expired, recent>>
ghosts == <<known, cred, swept, stragglers, burned, raced, erased>>
vars == <<table, expired, recent, request, password, ghosts>>

Stages == {"idle", "insertRoot", "lookup", "insert", "mark", "burn", "respond",
           "logout", "setPassword", "revokeAll"}

Locals == [at : Stages, current : Tokens \cup {None}, child : Tokens \cup {None},
           version : Nat]
Idle == [at |-> "idle", current |-> None, child |-> None, version |-> 0]

TypeOK ==
  /\ table \in [Tokens -> Row \cup {None}]
  /\ expired \in SUBSET Tokens /\ recent \in SUBSET Tokens
  /\ request \in [Requests -> Locals]
  /\ password \in Nat
  /\ known \in SUBSET Tokens
  /\ cred \in [Tokens -> Nat]
  /\ swept \in Nat
  /\ stragglers \in SUBSET (Tokens \cup Requests)
  /\ burned \in SUBSET Tokens
  /\ raced \in SUBSET Tokens /\ erased \in SUBSET Tokens

Init ==
  /\ table = [t \in Tokens |-> None]
  /\ expired = {} /\ recent = {}
  /\ request = [p \in Requests |-> Idle]
  /\ password = 0
  /\ known = {}
  /\ cred = [t \in Tokens |-> 0]
  /\ swept = 0
  /\ stragglers = {}
  /\ burned = {}
  /\ raced = {} /\ erased = {}

-----------------------------------------------------------------------------
Exists(t) == table[t] # None
Active(t) == Exists(t) /\ ~ table[t].revoked
Family(t) == table[t].family

Goto(p, stage) == request' = [request EXCEPT ![p].at = stage]
Finish(p) == request' = [request EXCEPT ![p] = Idle]
\* What is noted of a request that has read t.
NoteRead(t) ==
  raced' = raced \cup {f \in {Family(t)} : \E q \in Requests :
    request[q].at \in {"lookup", "insert", "mark", "burn", "logout"}
      /\ Family(request[q].current) = f}
Start(p, r) == request[p] = Idle /\ request' = [request EXCEPT ![p] = r]

\* UPDATE ... SET revoked_at = now() on the tokens of ts, all of them unrevoked.
Revoke(ts) ==
  /\ table' = [t \in Tokens |-> IF t \in ts THEN [table[t] EXCEPT !.revoked = TRUE]
                                           ELSE table[t]]
  /\ expired' = expired \ ts
  /\ recent' = recent \cup {t \in ts : Grace /\ table[t].replacedBy # None}

\* markRevoked(t, by): unconditional, it overwrites revoked_at and replaced_by_id.
MarkRevoked(t, by) ==
  /\ table' = [table EXCEPT ![t].revoked = TRUE, ![t].replacedBy = by]
  /\ expired' = expired \ {t}
  /\ recent' = IF Grace /\ by # None THEN recent \cup {t} ELSE recent \ {t}

\* The variant does not record the parent.
NewRowDetached(family, parent) ==
  [family |-> family, parent |-> None, replacedBy |-> None, revoked |-> FALSE]
NewRow(family, parent) ==
  [family |-> family, parent |-> parent, replacedBy |-> None, revoked |-> FALSE]

Insert(n, family, parent) ==
  /\ ~ Exists(n)
  /\ table' = [table EXCEPT ![n] = NewRow(family, parent)]
  /\ UNCHANGED <<expired, recent>>

-----------------------------------------------------------------------------
(* login-user.ts and _session.ts                                           *)

\* findByEmail and verify: the password given is the one stored.
LoginVerify(p) ==
  /\ Start(p, [Idle EXCEPT !.at = "insertRoot", !.version = password])
  /\ UNCHANGED <<rowVars, password, ghosts>>

\* createSession: the first token of a new family.
LoginInsert(p) ==
  /\ request[p].at = "insertRoot"
  /\ \E n \in Tokens :
       /\ Insert(n, n, None)
       /\ request' = [request EXCEPT ![p].at = "respond", ![p].child = n]
       /\ cred' = [cred EXCEPT ![n] = request[p].version]
       /\ stragglers' = (stragglers \ {p}) \cup (IF p \in stragglers THEN {n} ELSE {})
  /\ UNCHANGED <<password, known, swept, burned, raced, erased>>

(* refresh-session.ts                                                      *)

\* findByHash of a token a client holds, and the decision on the row read.  The
\* tokens that are refused without a further statement are left out.
\* The variant does not look at revoked_at.
MayRotateAny(t) == t \notin expired
MayRotate(t) == Active(t) /\ t \notin expired
InGrace(t) == /\ ~ Active(t) /\ table[t].replacedBy # None
              /\ Grace /\ t \in recent
IsReplay(t) == ~ Active(t) /\ ~ InGrace(t) /\ table[t].replacedBy # None

RefreshRead(p) ==
  \E t \in known :
    /\ \/ MayRotate(t) /\ Start(p, [Idle EXCEPT !.at = "insert", !.current = t])
       \/ InGrace(t) /\ Start(p, [Idle EXCEPT !.at = "lookup", !.current = t,
                                             !.child = table[t].replacedBy])
       \/ IsReplay(t) /\ Start(p, [Idle EXCEPT !.at = "burn", !.current = t])
    /\ NoteRead(t)
    /\ UNCHANGED <<rowVars, password, known, cred, swept, stragglers, burned, erased>>

\* Within the grace window, findById of the replacement the row named when it was
\* read: rotate it if it is still usable, otherwise treat the token as replayed.
\* The variant trusts the replacement.
UsableAlways(t) == t \notin expired
Usable(t) == Active(t) /\ t \notin expired

RefreshLookup(p) ==
  LET replacement == request[p].child
  IN /\ request[p].at = "lookup"
     /\ IF Usable(replacement)
        THEN request' = [request EXCEPT ![p].at = "insert", ![p].current = replacement,
                                        ![p].child = None]
        ELSE Goto(p, "burn")
     /\ UNCHANGED <<rowVars, password, ghosts>>

\* rotateToken: insert the successor ...
RefreshInsert(p) ==
  LET current == request[p].current
  IN /\ request[p].at = "insert"
     /\ \E n \in Tokens :
          /\ Insert(n, Family(current), current)
          /\ request' = [request EXCEPT ![p].at = "mark", ![p].child = n]
          /\ cred' = [cred EXCEPT ![n] = cred[current]]
          /\ stragglers' = (stragglers \ {p}) \cup
               (IF p \in stragglers \/ current \in stragglers THEN {n} ELSE {})
     /\ UNCHANGED <<password, known, swept, burned, raced, erased>>

\* ... and then revoke the token, whatever has become of it.  Variants: the
\* successor is not recorded; nothing is revoked.
RefreshMarkUnlinked(p) ==
  /\ request[p].at = "mark"
  /\ MarkRevoked(request[p].current, None)
  /\ Goto(p, "respond")
  /\ UNCHANGED <<password, ghosts>>

RefreshMarkNothing(p) ==
  /\ request[p].at = "mark"
  /\ Goto(p, "respond")
  /\ UNCHANGED <<rowVars, password, ghosts>>

RefreshMark(p) ==
  /\ request[p].at = "mark"
  /\ MarkRevoked(request[p].current, request[p].child)
  /\ Goto(p, "respond")
  /\ UNCHANGED <<password, ghosts>>

\* A replayed token: revokeFamily, and the request is refused.  The variant revokes
\* only the replacement of the token.
ToBurnReplacement(t) == {u \in Tokens : Active(u) /\ u = table[t].replacedBy}
ToBurn(t) == {u \in Tokens : Active(u) /\ Family(u) = Family(t)}

RefreshBurn(p) ==
  /\ request[p].at = "burn"
  /\ Revoke(ToBurn(request[p].current))
  /\ burned' = burned \cup {Family(request[p].current)}
  /\ Finish(p)
  /\ UNCHANGED <<password, known, cred, swept, stragglers, raced, erased>>

\* The answer of a login or a refresh reaches the client.
Respond(p) ==
  /\ request[p].at = "respond"
  /\ known' = known \cup {request[p].child}
  /\ Finish(p)
  /\ UNCHANGED <<rowVars, password, cred, swept, stragglers, burned, raced, erased>>

(* revoke-session.ts                                                       *)

LogoutRead(p) ==
  /\ \E t \in known :
       /\ Active(t)
       /\ Start(p, [Idle EXCEPT !.at = "logout", !.current = t])
       /\ NoteRead(t)
  /\ UNCHANGED <<rowVars, password, known, cred, swept, stragglers, burned, erased>>

LogoutMark(p) ==
  /\ request[p].at = "logout"
  /\ MarkRevoked(request[p].current, None)
  /\ erased' = erased \cup {t \in {request[p].current} : table[t].replacedBy # None}
  /\ Finish(p)
  /\ UNCHANGED <<password, known, cred, swept, stragglers, burned, raced>>

(* confirm-password-reset.ts                                               *)

\* consume: one of the reset links sent (external) is used up.
ResetConsume(p) ==
  /\ password + Cardinality({q \in Requests : request[q].at = "setPassword"}) < MaxResets
  /\ Start(p, [Idle EXCEPT !.at = "setPassword"])
  /\ UNCHANGED <<rowVars, password, ghosts>>

ResetPassword(p) ==
  /\ request[p].at = "setPassword"
  /\ password' = password + 1
  /\ request' = [request EXCEPT ![p].at = "revokeAll", ![p].version = password + 1]
  /\ UNCHANGED <<rowVars, ghosts>>

\* revokeAllForUser.  The requests that will still insert a token are noted.  The
\* variant revokes only the tokens that start a family.
ToRevokeRoots == {t \in Tokens : Active(t) /\ table[t].parent = None}
ToRevoke == {t \in Tokens : Active(t)}

ResetRevokeAll(p) ==
  /\ request[p].at = "revokeAll"
  /\ Revoke(ToRevoke)
  /\ swept' = IF request[p].version > swept THEN request[p].version ELSE swept
  /\ stragglers' = stragglers \cup
       {q \in Requests : request[q].at \in {"insertRoot", "insert"}}
  /\ Finish(p)
  /\ UNCHANGED <<password, known, cred, burned, raced, erased>>

(* Failures and time                                                       *)

\* A statement fails, the process stops, or the answer is lost.
Crash(p) ==
  /\ request[p] # Idle
  /\ Finish(p)
  /\ stragglers' = stragglers \ {p}
  /\ UNCHANGED <<rowVars, password, known, cred, swept, burned, raced, erased>>

GraceEnds(t) ==
  /\ t \in recent
  /\ recent' = recent \ {t}
  /\ UNCHANGED <<table, expired, request, password, ghosts>>

Expire(t) ==
  /\ Active(t) /\ t \notin expired
  /\ expired' = expired \cup {t}
  /\ UNCHANGED <<table, recent, request, password, ghosts>>

Refresh(p) == RefreshRead(p) \/ RefreshLookup(p) \/ RefreshInsert(p)
              \/ RefreshMark(p) \/ RefreshBurn(p)

Next ==
  \/ \E p \in Requests :
       \/ LoginVerify(p) \/ LoginInsert(p) \/ Refresh(p) \/ Respond(p)
       \/ LogoutRead(p) \/ LogoutMark(p)
       \/ ResetConsume(p) \/ ResetPassword(p) \/ ResetRevokeAll(p)
       \/ Crash(p)
  \/ \E t \in Tokens : GraceEnds(t) \/ Expire(t)

Spec == Init /\ [][Next]_vars

-----------------------------------------------------------------------------
(* However requests interleave, fail or lose their answers                 *)

\* replaced_by_id and parent_id are inverse links inside one family, and only a
\* revoked token has a replacement: insert and markRevoked are two statements
\* (refresh-session.ts, 64-77), and other requests write the same rows between.
LinksAreExact ==
  \A t \in Tokens : Exists(t) /\ table[t].replacedBy # None =>
    LET c == table[t].replacedBy
    IN /\ table[t].revoked
       /\ Exists(c) /\ table[c].parent = t /\ Family(c) = Family(t)

\* A family is dead when all its tokens are revoked and no request that has
\* passed its check is about to add one.
Dead(f) ==
  /\ Exists(f)
  /\ \A t \in Tokens : Active(t) => Family(t) # f
  /\ \A p \in Requests : request[p].at = "insert" => Family(request[p].current) # f

\* A dead family stays dead: no replay, no retry in the grace window and no
\* answer on its way brings a session back (refresh-session.ts, 32-50).
DeadFamiliesStayDead == [][\A f \in Tokens : Dead(f) => Dead(f)']_vars

\* Once a password reset has revoked all tokens, the only live tokens obtained
\* with an older password descend from requests that had passed their check, and
\* not inserted yet, at that moment (confirm-password-reset.ts, 24-25): every
\* other session is over, in whatever state its requests were.
ResetEndsOldSessions ==
  \A t \in Tokens : Active(t) /\ cred[t] < swept => t \in stragglers

\* A token exchanged for another one, which a client received, is revoked and
\* linked to a replacement: its replay is recognised (refresh-session.ts, 45).  A
\* logout that read the token before it was exchanged and revokes it afterwards
\* erases the link: the only exception.
ExchangedTokenIsLinked ==
  \A c \in known : table[c].parent \notin {None} \cup erased =>
    LET t == table[c].parent IN table[t].revoked /\ table[t].replacedBy # None

(* What only holds of a family whose requests did not overlap              *)

\* "Old refresh is revoked - reuse should be 401" (auth.test.ts): no token is
\* exchanged for two others.
ExchangedOnce ==
  \A c, d \in known :
    /\ table[c].parent # None /\ table[c].parent = table[d].parent
    /\ Family(c) \notin raced
    => c = d

\* Of the tokens clients hold, at most one per family is live, even when answers
\* are lost and the exchange is retried.
OneUsableToken ==
  \A c, d \in known :
    Active(c) /\ Active(d) /\ Family(c) = Family(d) /\ Family(c) \notin raced => c = d

\* "revoke entire family if the token was legitimately rotated"
\* (refresh-session.ts, 44): once a replay was detected, no client holds a live
\* token of the family.
ReplayEndsFamily ==
  \A c \in known : Active(c) => Family(c) \notin burned \ raced
=============================================================================
