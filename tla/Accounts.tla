------------------------------ MODULE Accounts ------------------------------
(***************************************************************************)
(* Accounts and the tokens mailed to their owners: registration, e-mail    *)
(* verification and password reset (src/application/use-cases/auth) over   *)
(* the users and email_tokens tables.                                      *)
(*                                                                         *)
(* A step is one statement together with the code that runs on its result. *)
(* There is at most one account for an e-mail address (a key of users), so *)
(* an account is named by its address.  The session a registration opens,  *)
(* and those a reset ends, are in RefreshTokens.                           *)
(***************************************************************************)
EXTENDS Naturals

CONSTANTS
  Emails, Passwords,
  Tokens,      \* the tokens mailed, by the hash stored
  Requests,    \* requests in flight at once
  None         \* SQL NULL, and the absence of a row

ASSUME AccountsAssumption ==
  /\ None \notin Emails \cup Tokens \cup Passwords
  /\ None \notin [password : Passwords, verified : BOOLEAN]
  /\ None \notin [email : Emails, kind : {"verify", "reset"}, used : BOOLEAN,
                  expired : BOOLEAN]

VARIABLES
  users,     \* e-mail address -> row, None if there is none
  tokens,    \* email_tokens: token -> row, None before its insert
  mailed,    \* tokens whose link has been sent
  request,   \* what each request waits for, and the locals it carries
  accepted,  \* how often each token has been consumed
  wasted     \* tokens consumed by a request that crashed before it used them

vars == <<users, tokens, mailed, request, accepted, wasted>>

Kinds == {"verify", "reset"}
User == [password : Passwords, verified : BOOLEAN]
TokenRow == [email : Emails, kind : Kinds, used : BOOLEAN, expired : BOOLEAN]

Stages == {"idle", "create", "insertToken", "send", "setVerified", "setPassword"}

Idle == [at |-> "idle", email |-> None, password |-> None, kind |-> "verify", token |-> None]

TypeOK ==
  /\ users \in [Emails -> User \cup {None}]
  /\ tokens \in [Tokens -> TokenRow \cup {None}]
  /\ mailed \in SUBSET Tokens
  /\ request \in [Requests ->
       [at : Stages, email : Emails \cup {None}, password : Passwords \cup {None},
        kind : Kinds, token : Tokens \cup {None}]]
  /\ accepted \in [Tokens -> Nat]
  /\ wasted \in SUBSET Tokens

Init ==
  /\ users = [e \in Emails |-> None]
  /\ tokens = [t \in Tokens |-> None]
  /\ mailed = {}
  /\ request = [p \in Requests |-> Idle]
  /\ accepted = [t \in Tokens |-> 0]
  /\ wasted = {}

-----------------------------------------------------------------------------
Registered(e) == users[e] # None

Start(p, r) == request[p] = Idle /\ request' = [request EXCEPT ![p] = r]
Finish(p) == request' = [request EXCEPT ![p] = Idle]

(* register-user.ts                                                        *)

\* findByEmail: the address is free.
RegisterFind(p) ==
  /\ \E e \in Emails, w \in Passwords :
       /\ ~ Registered(e)
       /\ Start(p, [Idle EXCEPT !.at = "create", !.email = e, !.password = w])
  /\ UNCHANGED <<users, tokens, mailed, accepted, wasted>>

\* create: the key refuses a second account.  The variant replaces the first one.
MayCreateAgain(e) == TRUE
MayCreate(e) == ~ Registered(e)

NewUser(password) == [password |-> password, verified |-> FALSE]

RegisterCreate(p) ==
  LET r == request[p]
  IN /\ r.at = "create"
     /\ IF MayCreate(r.email)
        THEN /\ users' = [users EXCEPT ![r.email] = NewUser(r.password)]
             /\ request' = [request EXCEPT ![p].at = "insertToken"]
        ELSE /\ Finish(p)
             /\ UNCHANGED users
     /\ UNCHANGED <<tokens, mailed, accepted, wasted>>

(* request-email-verification.ts, request-password-reset.ts                *)

VerifyRequest(p) ==
  /\ \E e \in Emails :
       /\ Registered(e) /\ ~ users[e].verified
       /\ Start(p, [Idle EXCEPT !.at = "insertToken", !.email = e])
  /\ UNCHANGED <<users, tokens, mailed, accepted, wasted>>

ResetRequest(p) ==
  /\ \E e \in Emails :
       /\ Registered(e)
       /\ Start(p, [Idle EXCEPT !.at = "insertToken", !.email = e, !.kind = "reset"])
  /\ UNCHANGED <<users, tokens, mailed, accepted, wasted>>

TokenInsert(p) ==
  LET new == [email |-> request[p].email, kind |-> request[p].kind, used |-> FALSE,
              expired |-> FALSE]
  IN /\ request[p].at = "insertToken"
     /\ \E t \in Tokens :
          /\ tokens[t] = None
          /\ tokens' = [tokens EXCEPT ![t] = new]
          /\ request' = [request EXCEPT ![p].at = "send", ![p].token = t]
     /\ UNCHANGED <<users, mailed, accepted, wasted>>

SendMail(p) ==
  /\ request[p].at = "send"
  /\ mailed' = mailed \cup {request[p].token}
  /\ Finish(p)
  /\ UNCHANGED <<users, tokens, accepted, wasted>>

(* confirm-email-verification.ts, confirm-password-reset.ts                *)

\* The condition of PgEmailTokenRepository.consume, which tests and sets in one
\* statement.  Variants: any kind will do; used tokens will do.
ConsumableAsAny(t, kind) == tokens[t] # None /\ ~ tokens[t].used /\ ~ tokens[t].expired
ConsumableAgain(t, kind) ==
  tokens[t] # None /\ tokens[t].kind = kind /\ ~ tokens[t].expired
Consumable(t, kind) ==
  tokens[t] # None /\ tokens[t].kind = kind /\ ~ tokens[t].used /\ ~ tokens[t].expired

Consume(t, kind) ==
  /\ t \in mailed
  /\ Consumable(t, kind)
  /\ tokens' = [tokens EXCEPT ![t].used = TRUE]
  /\ accepted' = [accepted EXCEPT ![t] = @ + 1]

ConfirmVerification(p) ==
  /\ \E t \in Tokens :
       /\ Consume(t, "verify")
       /\ Start(p, [Idle EXCEPT !.at = "setVerified", !.email = tokens[t].email,
                                !.token = t])
  /\ UNCHANGED <<users, mailed, wasted>>

SetVerified(p) ==
  /\ request[p].at = "setVerified"
  /\ users' = [users EXCEPT ![request[p].email].verified = TRUE]
  /\ Finish(p)
  /\ UNCHANGED <<tokens, mailed, accepted, wasted>>

ConfirmReset(p) ==
  /\ \E t \in Tokens, w \in Passwords :
       /\ Consume(t, "reset")
       /\ Start(p, [Idle EXCEPT !.at = "setPassword", !.email = tokens[t].email,
                                !.password = w, !.token = t])
  /\ UNCHANGED <<users, mailed, wasted>>

\* The update, and then revokeAllForUser.
SetPassword(p) ==
  /\ request[p].at = "setPassword"
  /\ users' = [users EXCEPT ![request[p].email].password = request[p].password]
  /\ Finish(p)
  /\ UNCHANGED <<tokens, mailed, accepted, wasted>>

Crash(p) ==
  /\ request[p] # Idle
  /\ Finish(p)
  /\ wasted' = wasted \cup {t \in {request[p].token} :
                             request[p].at \in {"setVerified", "setPassword"}}
  /\ UNCHANGED <<users, tokens, mailed, accepted>>

Expire(t) ==
  /\ tokens[t] # None /\ ~ tokens[t].expired
  /\ tokens' = [tokens EXCEPT ![t].expired = TRUE]
  /\ UNCHANGED <<users, mailed, request, accepted, wasted>>

Register(p) == RegisterFind(p) \/ RegisterCreate(p)
Mail(p) == VerifyRequest(p) \/ ResetRequest(p) \/ TokenInsert(p) \/ SendMail(p)
Verify(p) == ConfirmVerification(p) \/ SetVerified(p)
Reset(p) == ConfirmReset(p) \/ SetPassword(p)

Next ==
  \/ \E p \in Requests : Register(p) \/ Mail(p) \/ Verify(p) \/ Reset(p) \/ Crash(p)
  \/ \E t \in Tokens : Expire(t)

Spec == Init /\ [][Next]_vars

-----------------------------------------------------------------------------
\* The tokens mailed are one-time tokens, however many requests present the same one
\* at once: "token is single-use" (auth.test.ts).
Fresh == {t \in Tokens : tokens[t] = None}
Valid == {t \in Tokens : tokens[t] # None /\ ~ tokens[t].used /\ ~ tokens[t].expired}
Mailed == INSTANCE OneTimeToken WITH fresh <- Fresh, valid <- Valid
TokensAreOneTime == Mailed!Spec

\* An address is only verified once a token of the verify kind, mailed to that very
\* address, has been used (confirm-email-verification.ts, 14-20).
VerifiedByMail ==
  \A e \in Emails : Registered(e) /\ users[e].verified =>
    \E t \in mailed : tokens[t].used /\ tokens[t].kind = "verify" /\ tokens[t].email = e

\* A verification token that was used has verified its address, or is about to: a
\* token is not used up in vain, unless the request that used it crashed.
UsedTokensTakeEffect ==
  \A t \in Tokens \ wasted :
    tokens[t] # None /\ tokens[t].used /\ tokens[t].kind = "verify" =>
      \/ users[tokens[t].email].verified
      \/ \E p \in Requests : request[p].at = "setVerified" /\ request[p].token = t
=============================================================================
