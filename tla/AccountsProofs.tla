--------------------------- MODULE AccountsProofs ---------------------------
(***************************************************************************)
(* Proofs about Accounts, for any sets of addresses, passwords, tokens and *)
(* requests.                                                               *)
(***************************************************************************)
EXTENDS Accounts, TLAPS

\* Where a request stands and the locals it carries.
Locals == [at : Stages, email : Emails \cup {None}, password : Passwords \cup {None},
           kind : Kinds, token : Tokens \cup {None}]

\* What a request carries across its awaits: the address of an account that exists,
\* once it has got beyond the creation of one, and what its next statement writes.
Carried ==
  \A p \in Requests :
    /\ request[p].at # "idle" => request[p].email \in Emails
    /\ request[p].at \notin {"idle", "create"} => Registered(request[p].email)
    /\ request[p].at \in {"create", "setPassword"} => request[p].password \in Passwords
    /\ request[p].at \in {"send", "setVerified", "setPassword"} => request[p].token \in Tokens

\* email_tokens.user_id references users, and users are never deleted.
TokensHaveUsers == \A t \in Tokens : tokens[t] # None => Registered(tokens[t].email)

Sound == TypeOK /\ Carried /\ TokensHaveUsers

LEMMA InitSound == Init => Sound
  BY DEF Init, Sound, TypeOK, Carried, TokensHaveUsers, Idle, Stages, Kinds

\* Starting and ending a request keep what the requests carry.
LEMMA StartRequest ==
  ASSUME Sound, NEW p \in Requests, NEW r,
         Start(p, r),
         r \in Locals,
         \A e \in Emails : Registered(e) => Registered(e)',
         r.email \in Emails,
         r.at # "create" => Registered(r.email)',
         r.at \in {"create", "setPassword"} => r.password \in Passwords,
         r.at \in {"send", "setVerified", "setPassword"} => r.token \in Tokens
  PROVE  /\ request' \in [Requests -> Locals]
         /\ Carried'
  BY DEF Sound, TypeOK, Locals, Carried, Start

LEMMA FinishRequest ==
  ASSUME Sound, NEW p \in Requests, Finish(p),
         \A e \in Emails : Registered(e) => Registered(e)'
  PROVE  /\ request' \in [Requests -> Locals]
         /\ Carried'
  BY DEF Sound, TypeOK, Locals, Carried, Finish, Idle, Stages, Kinds

\* Accounts and token rows are made of what the statements carry.
LEMMA UserRow ==
  ASSUME Sound, NEW e \in Emails, Registered(e)
  PROVE  /\ users[e] \in User
         /\ [users[e] EXCEPT !.verified = TRUE] \in User
         /\ \A w \in Passwords : [users[e] EXCEPT !.password = w] \in User
  BY DEF Sound, TypeOK, Registered, User

LEMMA ConsumeType ==
  ASSUME TypeOK, NEW t \in Tokens, NEW kind, Consume(t, kind)
  PROVE  /\ tokens[t] \in TokenRow /\ tokens[t] # None
         /\ tokens' \in [Tokens -> TokenRow \cup {None}]
         /\ accepted' \in [Tokens -> Nat]
<1>1. tokens[t] \in TokenRow /\ tokens[t] # None
  BY DEF Consume, Consumable, TypeOK
<1>2. [tokens[t] EXCEPT !.used = TRUE] \in TokenRow
  BY <1>1 DEF TokenRow
<1>3. tokens' = [tokens EXCEPT ![t] = [tokens[t] EXCEPT !.used = TRUE]]
  BY DEF Consume
<1>4. tokens' \in [Tokens -> TokenRow \cup {None}]
  BY <1>2, <1>3 DEF TypeOK
<1>5. accepted' \in [Tokens -> Nat]
  BY DEF Consume, TypeOK
<1>6. QED BY <1>1, <1>4, <1>5

LEMMA NotNone ==
  /\ \A row \in User : row # None
  /\ \A row \in TokenRow : row # None
  BY AccountsAssumption DEF User, TokenRow, Kinds

\* Every step keeps the types, and what requests and tokens refer to.
LEMMA NextSound == ASSUME Sound, [Next]_vars PROVE Sound'
<1> USE DEF Sound
<1>1. ASSUME NEW p \in Requests, RegisterFind(p) PROVE Sound'
  <2>1. PICK e \in Emails, w \in Passwords :
          Start(p, [Idle EXCEPT !.at = "create", !.email = e, !.password = w])
    BY <1>1 DEF RegisterFind
  <2>2. request' \in [Requests -> Locals] /\ Carried'
    BY <1>1, <2>1, StartRequest DEF Locals, RegisterFind, Idle, Stages, Kinds, Registered
  <2>3. QED BY <1>1, <2>2 DEF RegisterFind, TypeOK, Locals, TokensHaveUsers, Registered
<1>2. ASSUME NEW p \in Requests, RegisterCreate(p) PROVE Sound'
  <2> DEFINE r == request[p]
  <2>1. r.email \in Emails /\ r.password \in Passwords
    BY <1>2 DEF RegisterCreate, Carried
  <2>2. CASE MayCreate(r.email)
    <3>1. /\ users' = [users EXCEPT ![r.email] = NewUser(r.password)]
          /\ request' = [request EXCEPT ![p].at = "insertToken"]
          /\ UNCHANGED <<tokens, mailed, accepted, wasted>>
      BY <1>2, <2>2 DEF RegisterCreate
    <3>2. NewUser(r.password) \in User
      BY <2>1 DEF NewUser, User
    <3>3. TypeOK'
      BY <2>1, <3>1, <3>2 DEF TypeOK, Locals, Stages
    <3>4. \A e \in Emails : Registered(e) \/ e = r.email => Registered(e)'
      BY <2>1, <3>1, <3>2, NotNone DEF TypeOK, Registered
    <3>5. Carried'
      BY <2>1, <3>1, <3>4 DEF TypeOK, Carried, Registered
    <3>6. TokensHaveUsers'
      BY <3>1, <3>4 DEF TypeOK, TokensHaveUsers, TokenRow, Registered
    <3>7. QED BY <3>3, <3>5, <3>6
  <2>3. CASE ~ MayCreate(r.email)
    <3>1. Finish(p) /\ UNCHANGED <<users, tokens, mailed, accepted, wasted>>
      BY <1>2, <2>3 DEF RegisterCreate
    <3>2. request' \in [Requests -> Locals] /\ Carried'
      BY <3>1, FinishRequest DEF Registered
    <3>3. QED BY <3>1, <3>2 DEF TypeOK, Locals, TokensHaveUsers, Registered
  <2>4. QED BY <2>2, <2>3
<1>3. ASSUME NEW p \in Requests, VerifyRequest(p) PROVE Sound'
  <2>1. PICK e \in Emails : /\ Registered(e)
                            /\ Start(p, [Idle EXCEPT !.at = "insertToken", !.email = e])
    BY <1>3 DEF VerifyRequest
  <2>2. request' \in [Requests -> Locals] /\ Carried'
    BY <1>3, <2>1, StartRequest DEF Locals, VerifyRequest, Idle, Stages, Kinds, Registered
  <2>3. QED BY <1>3, <2>2 DEF VerifyRequest, TypeOK, Locals, TokensHaveUsers, Registered
<1>4. ASSUME NEW p \in Requests, ResetRequest(p) PROVE Sound'
  <2>1. PICK e \in Emails : /\ Registered(e)
                            /\ Start(p, [Idle EXCEPT !.at = "insertToken", !.email = e,
                                                     !.kind = "reset"])
    BY <1>4 DEF ResetRequest
  <2>2. request' \in [Requests -> Locals] /\ Carried'
    BY <1>4, <2>1, StartRequest DEF Locals, ResetRequest, Idle, Stages, Kinds, Registered
  <2>3. QED BY <1>4, <2>2 DEF ResetRequest, TypeOK, Locals, TokensHaveUsers, Registered
<1>5. ASSUME NEW p \in Requests, TokenInsert(p) PROVE Sound'
  <2> DEFINE new == [email |-> request[p].email, kind |-> request[p].kind,
                     used |-> FALSE, expired |-> FALSE]
  <2>1. PICK t \in Tokens :
          /\ tokens' = [tokens EXCEPT ![t] = new]
          /\ request' = [request EXCEPT ![p].at = "send", ![p].token = t]
    BY <1>5 DEF TokenInsert
  <2>2. /\ request[p].at = "insertToken"
        /\ UNCHANGED <<users, mailed, accepted, wasted>>
    BY <1>5 DEF TokenInsert
  <2>3. request[p].email \in Emails /\ Registered(request[p].email)
    BY <2>2 DEF Carried
  <2>4. new \in TokenRow
    BY <2>3 DEF TypeOK, TokenRow
  <2>5. TypeOK'
    <3> HIDE DEF new
    <3>1. tokens' \in [Tokens -> TokenRow \cup {None}]
      BY <2>1, <2>4 DEF TypeOK
    <3>2. request' = [request EXCEPT ![p] = [request[p] EXCEPT !.at = "send", !.token = t]]
      BY <2>1 DEF TypeOK
    <3>3. [request[p] EXCEPT !.at = "send", !.token = t] \in Locals
      BY DEF TypeOK, Locals, Stages
    <3>4. request' \in [Requests -> Locals]
      BY <3>2, <3>3 DEF TypeOK, Locals
    <3>5. QED BY <2>2, <3>1, <3>4 DEF TypeOK, Locals
  <2>6. Carried'
    BY <2>1, <2>2, <2>3 DEF TypeOK, Carried, Registered
  <2>7. TokensHaveUsers'
    BY <2>1, <2>2, <2>3 DEF TypeOK, TokensHaveUsers, Registered
  <2>8. QED BY <2>5, <2>6, <2>7
<1>6. ASSUME NEW p \in Requests, SendMail(p) PROVE Sound'
  <2>1. request[p].token \in Tokens
    BY <1>6 DEF SendMail, Carried
  <2>2. request' \in [Requests -> Locals] /\ Carried'
    BY <1>6, FinishRequest DEF SendMail, Registered
  <2>3. QED BY <1>6, <2>1, <2>2 DEF SendMail, TypeOK, Locals, TokensHaveUsers, Registered
<1>7. ASSUME NEW p \in Requests, ConfirmVerification(p) PROVE Sound'
  <2>1. PICK t \in Tokens :
          /\ Consume(t, "verify")
          /\ Start(p, [Idle EXCEPT !.at = "setVerified", !.email = tokens[t].email,
                                   !.token = t])
    BY <1>7 DEF ConfirmVerification
  <2>2. UNCHANGED <<users, mailed, wasted>>
    BY <1>7 DEF ConfirmVerification
  <2>3. tokens[t] \in TokenRow /\ tokens[t] # None
    BY <2>1, ConsumeType
  <2>4. tokens[t].email \in Emails /\ Registered(tokens[t].email)
    BY <2>3 DEF TokenRow, TokensHaveUsers
  <2>5. request' \in [Requests -> Locals] /\ Carried'
    BY <2>1, <2>2, <2>4, StartRequest DEF Locals, Idle, Stages, Kinds, Registered
  <2>6. tokens' \in [Tokens -> TokenRow \cup {None}] /\ accepted' \in [Tokens -> Nat]
    BY <2>1, ConsumeType
  <2>7. TokensHaveUsers'
    BY <2>1, <2>2, <2>3 DEF Consume, TokensHaveUsers, TypeOK, TokenRow, Registered
  <2>8. QED BY <2>2, <2>5, <2>6, <2>7 DEF TypeOK, Locals
<1>8. ASSUME NEW p \in Requests, SetVerified(p) PROVE Sound'
  <2> DEFINE e == request[p].email
  <2>1. e \in Emails /\ Registered(e)
    BY <1>8 DEF SetVerified, Carried
  <2>2. users' = [users EXCEPT ![e] = [users[e] EXCEPT !.verified = TRUE]]
    BY <1>8 DEF SetVerified
  <2>3. users' \in [Emails -> User \cup {None}] /\ \A x \in Emails : Registered(x) => Registered(x)'
    BY <2>1, <2>2, UserRow, NotNone DEF TypeOK, Registered
  <2>4. request' \in [Requests -> Locals] /\ Carried'
    BY <1>8, <2>3, FinishRequest DEF SetVerified
  <2>5. QED BY <1>8, <2>3, <2>4 DEF SetVerified, TypeOK, Locals, TokensHaveUsers, TokenRow, Registered
<1>9. ASSUME NEW p \in Requests, ConfirmReset(p) PROVE Sound'
  <2>1. PICK t \in Tokens, w \in Passwords :
          /\ Consume(t, "reset")
          /\ Start(p, [Idle EXCEPT !.at = "setPassword", !.email = tokens[t].email,
                                   !.password = w, !.token = t])
    BY <1>9 DEF ConfirmReset
  <2>2. UNCHANGED <<users, mailed, wasted>>
    BY <1>9 DEF ConfirmReset
  <2>3. tokens[t] \in TokenRow /\ tokens[t] # None
    BY <2>1, ConsumeType
  <2>4. tokens[t].email \in Emails /\ Registered(tokens[t].email)
    BY <2>3 DEF TokenRow, TokensHaveUsers
  <2>5. request' \in [Requests -> Locals] /\ Carried'
    BY <2>1, <2>2, <2>4, StartRequest DEF Locals, Idle, Stages, Kinds, Registered
  <2>6. tokens' \in [Tokens -> TokenRow \cup {None}] /\ accepted' \in [Tokens -> Nat]
    BY <2>1, ConsumeType
  <2>7. TokensHaveUsers'
    BY <2>1, <2>2, <2>3 DEF Consume, TokensHaveUsers, TypeOK, TokenRow, Registered
  <2>8. QED BY <2>2, <2>5, <2>6, <2>7 DEF TypeOK, Locals
<1>10. ASSUME NEW p \in Requests, SetPassword(p) PROVE Sound'
  <2> DEFINE e == request[p].email
  <2>1. e \in Emails /\ Registered(e) /\ request[p].password \in Passwords
    BY <1>10 DEF SetPassword, Carried
  <2>2. users' = [users EXCEPT ![e] = [users[e] EXCEPT !.password = request[p].password]]
    BY <1>10 DEF SetPassword
  <2>3. users' \in [Emails -> User \cup {None}] /\ \A x \in Emails : Registered(x) => Registered(x)'
    BY <2>1, <2>2, UserRow, NotNone DEF TypeOK, Registered
  <2>4. request' \in [Requests -> Locals] /\ Carried'
    BY <1>10, <2>3, FinishRequest DEF SetPassword
  <2>5. QED BY <1>10, <2>3, <2>4 DEF SetPassword, TypeOK, Locals, TokensHaveUsers, TokenRow, Registered
<1>11. ASSUME NEW p \in Requests, Crash(p) PROVE Sound'
  <2>1. request' \in [Requests -> Locals] /\ Carried'
    BY <1>11, FinishRequest DEF Crash, Registered
  <2>2. request[p].at \in {"setVerified", "setPassword"} => request[p].token \in Tokens
    BY DEF Carried
  <2>3. wasted' \in SUBSET Tokens
    BY <1>11, <2>2 DEF Crash, TypeOK
  <2>4. QED BY <1>11, <2>1, <2>3 DEF Crash, TypeOK, Locals, TokensHaveUsers, Registered
<1>12. ASSUME NEW t \in Tokens, Expire(t) PROVE Sound'
  <2>1. tokens' \in [Tokens -> TokenRow \cup {None}]
    BY <1>12 DEF Expire, TypeOK, TokenRow
  <2>2. TokensHaveUsers'
    BY <1>12 DEF Expire, TypeOK, TokensHaveUsers, TokenRow, Registered
  <2>3. QED BY <1>12, <2>1, <2>2 DEF Expire, TypeOK, Carried, Registered
<1>13. CASE UNCHANGED vars
  BY <1>13 DEF vars, TypeOK, Carried, TokensHaveUsers, Registered
<1>14. QED
  BY <1>1, <1>2, <1>3, <1>4, <1>5, <1>6, <1>7, <1>8, <1>9, <1>10, <1>11, <1>12, <1>13
  DEF Next, Register, Mail, Verify, Reset

\* The tables and the locals of the use cases have their types, and the accounts that
\* requests and tokens name exist.
THEOREM AccountsSound == Spec => []Sound
  BY InitSound, NextSound, PTL DEF Spec

-----------------------------------------------------------------------------
(* Mailed tokens are one-time tokens                                       *)

\* What a step does to the tokens.
LEMMA TokenSteps ==
  ASSUME [Next]_vars
  PROVE  /\ \/ UNCHANGED <<tokens, accepted>>
            \/ \E p \in Requests : TokenInsert(p)
            \/ \E t \in Tokens, kind \in Kinds : Consume(t, kind)
            \/ \E t \in Tokens : Expire(t)
         /\ mailed \subseteq mailed'
         /\ wasted \subseteq wasted'
  BY DEF Next, vars, Register, Mail, Verify, Reset, RegisterFind, RegisterCreate,
         VerifyRequest, ResetRequest, TokenInsert, SendMail, ConfirmVerification, Consume,
         SetVerified, ConfirmReset, SetPassword, Crash, Expire, Kinds

\* A token's row stays, for the same account and of the same kind, and a used one
\* stays used.
LEMMA RowsKept ==
  ASSUME Sound, [Next]_vars, NEW t \in Tokens, tokens[t] # None
  PROVE  /\ tokens'[t] # None
         /\ tokens'[t].email = tokens[t].email
         /\ tokens'[t].kind = tokens[t].kind
         /\ tokens[t].used => tokens'[t].used
<1>1. tokens[t] \in TokenRow
  BY DEF Sound, TypeOK
<1>2. /\ \A u \in Tokens : tokens'[u] = None \/ tokens'[u] \in TokenRow
      /\ DOMAIN tokens = Tokens
  BY NextSound DEF Sound, TypeOK
<1>3. CASE UNCHANGED tokens
  BY <1>3
<1>4. ASSUME NEW p \in Requests, TokenInsert(p) PROVE tokens'[t] = tokens[t]
  BY <1>4, <1>2 DEF TokenInsert
<1>5. ASSUME NEW u \in Tokens, NEW row, row \in TokenRow,
             tokens' = [tokens EXCEPT ![u] = row], tokens[u] # None,
             row.email = tokens[u].email, row.kind = tokens[u].kind,
             tokens[u].used => row.used
      PROVE  /\ tokens'[t] # None /\ tokens'[t].email = tokens[t].email
             /\ tokens'[t].kind = tokens[t].kind /\ (tokens[t].used => tokens'[t].used)
  BY <1>2, <1>5, NotNone
<1>6. ASSUME NEW u \in Tokens, NEW kind \in Kinds, Consume(u, kind)
      PROVE  /\ tokens'[t] # None /\ tokens'[t].email = tokens[t].email
             /\ tokens'[t].kind = tokens[t].kind /\ (tokens[t].used => tokens'[t].used)
  <2> DEFINE row == [tokens[u] EXCEPT !.used = TRUE]
  <2>1. tokens[u] \in TokenRow /\ tokens[u] # None
    BY <1>6, ConsumeType DEF Sound
  <2>2. /\ row \in TokenRow /\ row.email = tokens[u].email
        /\ row.kind = tokens[u].kind /\ row.used
    BY <2>1 DEF TokenRow
  <2>3. tokens' = [tokens EXCEPT ![u] = row]
    BY <1>6 DEF Consume
  <2>4. QED
    <3> HIDE DEF row
    <3>1. QED BY <1>5, <2>1, <2>2, <2>3
<1>7. ASSUME NEW u \in Tokens, Expire(u)
      PROVE  /\ tokens'[t] # None /\ tokens'[t].email = tokens[t].email
             /\ tokens'[t].kind = tokens[t].kind /\ (tokens[t].used => tokens'[t].used)
  <2> DEFINE row == [tokens[u] EXCEPT !.expired = TRUE]
  <2>1. tokens[u] \in TokenRow /\ tokens[u] # None
    BY <1>7 DEF Expire, Sound, TypeOK
  <2>2. /\ row \in TokenRow /\ row.email = tokens[u].email
        /\ row.kind = tokens[u].kind /\ row.used = tokens[u].used
    BY <2>1 DEF TokenRow
  <2>3. tokens' = [tokens EXCEPT ![u] = row]
    BY <1>7 DEF Expire
  <2>4. QED
    <3> HIDE DEF row
    <3>1. QED BY <1>5, <2>1, <2>2, <2>3
<1>8. QED BY <1>3, <1>4, <1>6, <1>7, TokenSteps

\* A statement that inserts, consumes or expires a token issues, accepts or lapses
\* it; expiry of a used token is nothing to the abstract token.
LEMMA InsertIssues ==
  ASSUME Sound, NEW p \in Requests, TokenInsert(p)
  PROVE  \E t \in Tokens : Mailed!Issue(t)
<1> DEFINE new == [email |-> request[p].email, kind |-> request[p].kind,
                   used |-> FALSE, expired |-> FALSE]
<1>1. PICK t \in Tokens : tokens[t] = None /\ tokens' = [tokens EXCEPT ![t] = new]
  BY DEF TokenInsert
<1>2. new # None
  <2>1. request[p].email \in Emails /\ request[p].kind \in Kinds
    BY DEF TokenInsert, Sound, Carried, TypeOK, Locals
  <2>2. new \in TokenRow
    BY <2>1 DEF TokenRow
  <2>3. QED BY <2>2, NotNone
<1>3. ~ new.used /\ ~ new.expired
  OBVIOUS
<1> HIDE DEF new
<1>4. DOMAIN tokens = Tokens
  BY DEF Sound, TypeOK
<1>5. tokens'[t] = new /\ \A u \in Tokens \ {t} : tokens'[u] = tokens[u]
  BY <1>1, <1>4
<1>6. Fresh' = Fresh \ {t} /\ t \in Fresh
  BY <1>1, <1>2, <1>5 DEF Fresh
<1>7. Valid' = Valid \cup {t}
  BY <1>1, <1>2, <1>3, <1>5 DEF Valid
<1>8. QED BY <1>6, <1>7 DEF Mailed!Issue, TokenInsert

LEMMA ConsumeAccepts ==
  ASSUME Sound, NEW t \in Tokens, NEW kind \in Kinds, Consume(t, kind)
  PROVE  Mailed!Accept(t)
<1> DEFINE row == [tokens[t] EXCEPT !.used = TRUE]
<1>1. tokens[t] \in TokenRow /\ tokens[t] # None
  BY ConsumeType DEF Sound
<1>2. row \in TokenRow /\ row.used /\ row # None
  <2>1. row \in TokenRow /\ row.used
    BY <1>1 DEF TokenRow
  <2>2. QED BY <2>1, NotNone
<1>3. tokens' = [tokens EXCEPT ![t] = row]
  BY DEF Consume
<1> HIDE DEF row
<1>4. tokens'[t] = row /\ \A u \in Tokens \ {t} : tokens'[u] = tokens[u]
  BY <1>3 DEF Sound, TypeOK
<1>5. Fresh' = Fresh
  BY <1>1, <1>2, <1>4 DEF Fresh
<1>6. Valid' = Valid \ {t} /\ t \in Valid
  BY <1>1, <1>2, <1>4 DEF Valid, Consume, Consumable
<1>7. QED BY <1>5, <1>6 DEF Mailed!Accept, Consume

LEMMA ExpireLapses ==
  ASSUME Sound, NEW t \in Tokens, Expire(t)
  PROVE  Mailed!Lapse(t) \/ UNCHANGED Mailed!tokenVars
<1> DEFINE row == [tokens[t] EXCEPT !.expired = TRUE]
<1>1. tokens[t] \in TokenRow /\ tokens[t] # None /\ ~ tokens[t].expired
  BY DEF Expire, Sound, TypeOK
<1>2. row \in TokenRow /\ row.expired /\ row # None
  <2>1. row \in TokenRow /\ row.expired
    BY <1>1 DEF TokenRow
  <2>2. QED BY <2>1, NotNone
<1>3. tokens' = [tokens EXCEPT ![t] = row]
  BY DEF Expire
<1> HIDE DEF row
<1>4. tokens'[t] = row /\ \A u \in Tokens \ {t} : tokens'[u] = tokens[u]
  BY <1>3 DEF Sound, TypeOK
<1>5. Fresh' = Fresh
  BY <1>1, <1>2, <1>4 DEF Fresh
<1>6. Valid' = Valid \ {t}
  BY <1>1, <1>2, <1>4 DEF Valid
<1>7. CASE t \in Valid
  BY <1>5, <1>6, <1>7 DEF Mailed!Lapse, Expire
<1>8. CASE t \notin Valid
  BY <1>5, <1>6, <1>8 DEF Mailed!tokenVars, Expire
<1>9. QED BY <1>7, <1>8

LEMMA TokensRefine ==
  ASSUME Sound, [Next]_vars
  PROVE  [Mailed!Next]_(Mailed!tokenVars)
<1>1. CASE UNCHANGED <<tokens, accepted>>
  BY <1>1 DEF Mailed!tokenVars, Fresh, Valid
<1>2. ASSUME NEW p \in Requests, TokenInsert(p) PROVE Mailed!Next
  BY <1>2, InsertIssues DEF Mailed!Next
<1>3. ASSUME NEW t \in Tokens, NEW kind \in Kinds, Consume(t, kind) PROVE Mailed!Next
  BY <1>3, ConsumeAccepts DEF Mailed!Next
<1>4. ASSUME NEW t \in Tokens, Expire(t)
      PROVE  Mailed!Next \/ UNCHANGED Mailed!tokenVars
  BY <1>4, ExpireLapses DEF Mailed!Next
<1>5. QED BY <1>1, <1>2, <1>3, <1>4, TokenSteps

\* The tokens mailed implement one-time tokens, however many requests present them
\* (PgEmailTokenRepository.consume tests and sets in one statement).
THEOREM MailedOnce == Spec => TokensAreOneTime
<1>1. Init => Mailed!Init
  BY DEF Init, Mailed!Init, Fresh, Valid
<1>2. QED
  BY <1>1, AccountsSound, TokensRefine, PTL DEF Spec, TokensAreOneTime, Mailed!Spec

-----------------------------------------------------------------------------
(* Addresses are verified by mail, and tokens take effect                  *)

\* A token that proves that e is the address of its owner has been used.
Proves(t, e) ==
  t \in mailed /\ tokens[t] # None /\ tokens[t].used /\ tokens[t].kind = "verify"
  /\ tokens[t].email = e

\* The requests that will mark an address as verified have used such a token.
VerifiersHaveProof ==
  \A p \in Requests :
    request[p].at = "setVerified" => Proves(request[p].token, request[p].email)

\* So has somebody for every address that is verified: VerifiedByMail, and that the
\* token has a row.
VerifiedHaveProof ==
  \A e \in Emails : Registered(e) /\ users[e].verified => \E t \in Tokens : Proves(t, e)

MailInv == Sound /\ VerifiersHaveProof /\ VerifiedHaveProof /\ UsedTokensTakeEffect

LEMMA ProofsStay ==
  ASSUME Sound, [Next]_vars, NEW t \in Tokens, NEW e, Proves(t, e)
  PROVE  Proves(t, e)'
  BY RowsKept, TokenSteps DEF Proves

\* A request is only about to verify an address after ConfirmVerification, and
\* leaves that stage by SetVerified or a crash.
LEMMA VerifierSteps ==
  ASSUME Sound, [Next]_vars, NEW p \in Requests
  PROVE  /\ request'[p].at = "setVerified" =>
              request'[p] = request[p] \/ ConfirmVerification(p)
         /\ request[p].at = "setVerified" =>
              request'[p] = request[p] \/ SetVerified(p) \/ Crash(p)
<1>1. DOMAIN request = Requests /\ \A q \in Requests : request[q] \in Locals
  BY DEF Sound, TypeOK, Locals
<1>2. Idle.at = "idle"
  BY DEF Idle
<1>3. ASSUME NEW q \in Requests, Register(q) \/ Mail(q) \/ Reset(q), p = q
      PROVE  request[p].at # "setVerified" /\ request'[p].at # "setVerified"
  <2>1. CASE Register(q)
    <3>1. CASE RegisterFind(q)
      BY <1>1, <1>3, <3>1 DEF RegisterFind, Start, Idle
    <3>2. CASE RegisterCreate(q)
      <4>1. request[p].at = "create"
        BY <1>3, <3>2 DEF RegisterCreate
      <4>2. \/ request' = [request EXCEPT ![p].at = "insertToken"]
            \/ request' = [request EXCEPT ![p] = Idle]
        BY <1>3, <3>2 DEF RegisterCreate, Finish
      <4>3. request'[p].at \in {"insertToken", "idle"}
        BY <1>1, <1>2, <4>2 DEF Locals
      <4>4. QED BY <4>1, <4>3
    <3>3. QED BY <2>1, <3>1, <3>2 DEF Register
  <2>2. CASE VerifyRequest(q) \/ ResetRequest(q)
    <3>1. PICK r : r.at = "insertToken" /\ Start(p, r)
      BY <1>3, <2>2 DEF VerifyRequest, ResetRequest, Idle
    <3>2. QED BY <1>1, <1>2, <3>1 DEF Start
  <2>3. CASE TokenInsert(q)
    BY <1>1, <1>3, <2>3 DEF TokenInsert, Locals
  <2>4. CASE SendMail(q) \/ SetPassword(q)
    BY <1>1, <1>3, <2>4 DEF SendMail, SetPassword, Finish, Idle
  <2>5. CASE ConfirmReset(q)
    BY <1>1, <1>3, <2>5 DEF ConfirmReset, Start, Idle
  <2>6. QED BY <1>3, <2>1, <2>2, <2>3, <2>4, <2>5 DEF Mail, Reset
<1>4. ASSUME NEW q \in Requests,
             Register(q) \/ Mail(q) \/ Verify(q) \/ Reset(q) \/ Crash(q), p # q
      PROVE  request'[p] = request[p]
  <2>1. CASE Register(q)
    BY <1>1, <1>4, <2>1 DEF Register, RegisterFind, RegisterCreate, Start, Finish
  <2>2. CASE Mail(q)
    <3>1. CASE VerifyRequest(q) \/ ResetRequest(q)
      BY <1>1, <1>4, <3>1 DEF VerifyRequest, ResetRequest, Start
    <3>2. CASE TokenInsert(q) \/ SendMail(q)
      BY <1>1, <1>4, <3>2 DEF TokenInsert, SendMail, Finish
    <3>3. QED BY <2>2, <3>1, <3>2 DEF Mail
  <2>3. CASE Verify(q)
    BY <1>1, <1>4, <2>3 DEF Verify, ConfirmVerification, SetVerified, Start, Finish
  <2>4. CASE Reset(q)
    BY <1>1, <1>4, <2>4 DEF Reset, ConfirmReset, SetPassword, Start, Finish
  <2>5. CASE Crash(q)
    BY <1>1, <1>4, <2>5 DEF Crash, Finish
  <2>6. QED BY <1>4, <2>1, <2>2, <2>3, <2>4, <2>5
<1>5. ASSUME Verify(p) \/ Crash(p)
      PROVE  /\ request'[p].at = "setVerified" => ConfirmVerification(p)
             /\ request[p].at = "setVerified" => SetVerified(p) \/ Crash(p)
  <2>1. CASE ConfirmVerification(p)
    BY <1>2, <2>1 DEF ConfirmVerification, Start
  <2>2. CASE SetVerified(p) \/ Crash(p)
    <3>1. request'[p] = Idle
      BY <1>1, <2>2 DEF SetVerified, Crash, Finish
    <3>2. QED BY <1>2, <2>2, <3>1
  <2>3. QED BY <1>5, <2>1, <2>2 DEF Verify
<1>6. ASSUME NEW t \in Tokens, Expire(t) PROVE request'[p] = request[p]
  BY <1>6 DEF Expire
<1>7. QED BY <1>3, <1>4, <1>5, <1>6 DEF Next, vars

\* An address becomes verified by SetVerified, and stays verified.
LEMMA VerifiedSteps ==
  ASSUME Sound, [Next]_vars, NEW e \in Emails
  PROVE  /\ Registered(e)' /\ users'[e].verified =>
              \/ Registered(e) /\ users[e].verified
              \/ \E p \in Requests : SetVerified(p) /\ request[p].email = e
         /\ Registered(e) /\ users[e].verified => Registered(e)' /\ users'[e].verified
<1>1. /\ DOMAIN users = Emails
      /\ \A x \in Emails : Registered(x) => users[x] \in User
  BY DEF Sound, TypeOK, Registered
<1>2. ASSUME NEW p \in Requests, RegisterCreate(p)
      PROVE  users'[e] = users[e] \/ (~ Registered(e) /\ ~ users'[e].verified)
  BY <1>1, <1>2 DEF RegisterCreate, MayCreate, NewUser
<1>3. ASSUME NEW p \in Requests, SetVerified(p)
      PROVE  /\ request[p].email # e => users'[e] = users[e]
             /\ request[p].email = e => Registered(e)' /\ users'[e].verified
  <2> DEFINE row == [users[e] EXCEPT !.verified = TRUE]
  <2>1. Registered(request[p].email)
    BY <1>3 DEF SetVerified, Sound, Carried
  <2>2. CASE request[p].email = e
    <3>1. users'[e] = row
      BY <1>1, <1>3, <2>2 DEF SetVerified
    <3>2. row \in User /\ row.verified
      BY <1>1, <2>1, <2>2 DEF User
    <3>3. QED
      <4> HIDE DEF row
      <4>1. QED BY <2>2, <3>1, <3>2, NotNone DEF Registered
  <2>3. CASE request[p].email # e
    BY <1>1, <1>3, <2>3 DEF SetVerified
  <2>4. QED BY <2>2, <2>3
<1>4. ASSUME NEW p \in Requests, SetPassword(p)
      PROVE  \/ users'[e] = users[e]
             \/ Registered(e) /\ Registered(e)' /\ users'[e].verified = users[e].verified
  <2> DEFINE row == [users[e] EXCEPT !.password = request[p].password]
  <2>1. Registered(request[p].email) /\ request[p].password \in Passwords
    BY <1>4 DEF SetPassword, Sound, Carried
  <2>2. CASE request[p].email = e
    <3>1. users'[e] = row
      BY <1>1, <1>4, <2>2 DEF SetPassword
    <3>2. row \in User /\ row.verified = users[e].verified
      BY <1>1, <2>1, <2>2 DEF User
    <3>3. QED
      <4> HIDE DEF row
      <4>1. QED BY <2>1, <2>2, <3>1, <3>2, NotNone DEF Registered
  <2>3. CASE request[p].email # e
    BY <1>1, <1>4, <2>3 DEF SetPassword
  <2>4. QED BY <2>2, <2>3
<1>5. \/ UNCHANGED users
      \/ \E p \in Requests : RegisterCreate(p) \/ SetVerified(p) \/ SetPassword(p)
  BY DEF Next, vars, Register, Mail, Verify, Reset, RegisterFind, VerifyRequest,
     ResetRequest, TokenInsert, SendMail, ConfirmVerification, ConfirmReset, Crash, Expire
<1>6. QED BY <1>2, <1>3, <1>4, <1>5 DEF Registered

\* ConfirmVerification finds a token of the address, and leaves it used.
LEMMA ConfirmProves ==
  ASSUME Sound, NEW p \in Requests, ConfirmVerification(p)
  PROVE  \E t \in Tokens, e \in Emails :
           /\ request'[p].at = "setVerified" /\ request'[p].token = t
           /\ request'[p].email = e /\ tokens[t] # None
           /\ Consume(t, "verify") /\ Proves(t, e)'
<1>1. PICK t \in Tokens :
        /\ Consume(t, "verify")
        /\ Start(p, [Idle EXCEPT !.at = "setVerified", !.email = tokens[t].email,
                                 !.token = t])
  BY DEF ConfirmVerification
<1>2. tokens[t] \in TokenRow /\ tokens[t] # None /\ tokens[t].kind = "verify"
  BY <1>1, ConsumeType DEF Consume, Consumable, Sound
<1>3. tokens'[t] = [tokens[t] EXCEPT !.used = TRUE]
  BY <1>1 DEF Consume, Sound, TypeOK
<1>4. /\ tokens'[t] \in TokenRow /\ tokens'[t].used
      /\ tokens'[t].kind = "verify" /\ tokens'[t].email = tokens[t].email
  BY <1>2, <1>3 DEF TokenRow
<1>5. tokens'[t] # None
  BY <1>4, NotNone
<1>6. t \in mailed'
  BY <1>1 DEF Consume, ConfirmVerification
<1>7. /\ request'[p].at = "setVerified" /\ request'[p].token = t
      /\ request'[p].email = tokens[t].email
  BY <1>1 DEF Start, Sound, TypeOK, Idle
<1>8. PICK e \in Emails : e = tokens[t].email
  BY <1>2 DEF TokenRow
<1>9. Proves(t, e)'
  BY <1>4, <1>5, <1>6, <1>8 DEF Proves
<1>10. QED BY <1>1, <1>2, <1>7, <1>8, <1>9

\* A verification token becomes used by ConfirmVerification alone.
LEMMA UsedSteps ==
  ASSUME Sound, [Next]_vars, NEW t \in Tokens,
         tokens'[t] # None, tokens'[t].used, tokens'[t].kind = "verify"
  PROVE  \/ tokens[t] # None /\ tokens[t].used
         \/ \E p \in Requests : ConfirmVerification(p) /\ request'[p].token = t
<1>1. DOMAIN tokens = Tokens /\ \A u \in Tokens : tokens[u] # None => tokens[u] \in TokenRow
  BY DEF Sound, TypeOK
<1>2. ASSUME NEW p \in Requests, TokenInsert(p) PROVE tokens'[t] = tokens[t]
  BY <1>1, <1>2 DEF TokenInsert
<1>3. ASSUME NEW u \in Tokens, Expire(u)
      PROVE  tokens[t] # None /\ tokens'[t].used = tokens[t].used
  <2>1. CASE u = t
    BY <1>1, <1>3, <2>1 DEF Expire, TokenRow
  <2>2. CASE u # t
    BY <1>1, <1>3, <2>2 DEF Expire
  <2>3. QED BY <2>1, <2>2
<1>4. ASSUME NEW p \in Requests, ConfirmReset(p)
      PROVE  tokens[t] # None /\ tokens'[t].used = tokens[t].used
  <2>1. PICK u \in Tokens : Consume(u, "reset")
    BY <1>4 DEF ConfirmReset
  <2>2. tokens[u] \in TokenRow /\ tokens[u].kind = "reset" /\ tokens[u] # None
    BY <2>1, ConsumeType DEF Consume, Consumable, Sound
  <2>3. tokens'[u].kind = "reset"
    BY <2>2, RowsKept
  <2>4. u # t
    BY <2>3
  <2>5. QED BY <1>1, <2>1, <2>4 DEF Consume
<1>5. ASSUME NEW p \in Requests, ConfirmVerification(p)
      PROVE  request'[p].token = t \/ tokens'[t] = tokens[t]
  BY <1>1, <1>5, ConfirmProves DEF Consume
<1>6. \/ UNCHANGED tokens \/ \E p \in Requests : TokenInsert(p)
      \/ \E p \in Requests : ConfirmVerification(p) \/ ConfirmReset(p)
      \/ \E u \in Tokens : Expire(u)
  BY DEF Next, vars, Register, Mail, Verify, Reset, RegisterFind, RegisterCreate,
     VerifyRequest, ResetRequest, SendMail, SetVerified, SetPassword, Crash
<1>7. QED BY <1>2, <1>3, <1>4, <1>5, <1>6

LEMMA NextVerifiers ==
  ASSUME MailInv, [Next]_vars PROVE VerifiersHaveProof'
<1> SUFFICES ASSUME NEW p \in Requests, request'[p].at = "setVerified"
             PROVE  Proves(request[p].token, request[p].email)'
  BY DEF VerifiersHaveProof
<1>1. CASE request'[p] = request[p]
  <2>1. request[p].token \in Tokens /\ Proves(request[p].token, request[p].email)
    BY <1>1 DEF MailInv, VerifiersHaveProof, Sound, Carried
  <2>2. Proves(request[p].token, request[p].email)' <=>
          /\ request[p].token \in mailed' /\ tokens'[request[p].token] # None
          /\ tokens'[request[p].token].used /\ tokens'[request[p].token].kind = "verify"
          /\ tokens'[request[p].token].email = request[p].email
    BY <1>1 DEF Proves
  <2>3. QED BY <2>1, <2>2, RowsKept, TokenSteps DEF MailInv, Proves
<1>2. CASE ConfirmVerification(p)
  BY <1>2, ConfirmProves DEF MailInv, Proves
<1>3. QED BY <1>1, <1>2, VerifierSteps DEF MailInv

LEMMA NextVerified ==
  ASSUME MailInv, [Next]_vars PROVE VerifiedHaveProof'
<1> SUFFICES ASSUME NEW e \in Emails, Registered(e)', users'[e].verified
             PROVE  \E t \in Tokens : Proves(t, e)'
  BY DEF VerifiedHaveProof
<1>1. \E t \in Tokens : Proves(t, e)
  <2>1. CASE Registered(e) /\ users[e].verified
    BY <2>1 DEF MailInv, VerifiedHaveProof
  <2>2. ASSUME NEW p \in Requests, SetVerified(p), request[p].email = e
        PROVE  \E t \in Tokens : Proves(t, e)
    <3>1. request[p].token \in Tokens /\ Proves(request[p].token, e)
      BY <2>2 DEF SetVerified, MailInv, VerifiersHaveProof, Sound, Carried
    <3>2. QED BY <3>1
  <2>3. QED BY <2>1, <2>2, VerifiedSteps DEF MailInv
<1>2. QED BY <1>1, ProofsStay DEF MailInv

\* The request that used a token goes on, or has verified the address, or crashed.
LEMMA NextUsed ==
  ASSUME MailInv, [Next]_vars PROVE UsedTokensTakeEffect'
<1> DEFINE Effect(t) == \/ users[tokens[t].email].verified
                        \/ \E p \in Requests : /\ request[p].at = "setVerified"
                                               /\ request[p].token = t
<1> SUFFICES ASSUME NEW t \in Tokens, t \notin wasted', tokens'[t] # None,
                    tokens'[t].used, tokens'[t].kind = "verify"
             PROVE  Effect(t)'
  BY DEF UsedTokensTakeEffect
<1>1. CASE tokens[t] # None /\ tokens[t].used
  <2>1. tokens'[t].email = tokens[t].email /\ tokens[t].kind = "verify"
    BY <1>1, RowsKept DEF MailInv
  <2>2. tokens[t].email \in Emails /\ Registered(tokens[t].email)
    BY <1>1 DEF MailInv, Sound, TypeOK, TokenRow, TokensHaveUsers
  <2>3. t \notin wasted
    BY TokenSteps
  <2>4. CASE users[tokens[t].email].verified
    BY <2>1, <2>2, <2>4, VerifiedSteps DEF MailInv
  <2>5. ASSUME NEW p \in Requests, request[p].at = "setVerified", request[p].token = t
        PROVE  Effect(t)'
    <3>1. CASE request'[p] = request[p]
      BY <2>5, <3>1
    <3>2. CASE SetVerified(p)
      <4>1. request[p].email = tokens[t].email
        BY <2>5 DEF MailInv, VerifiersHaveProof, Proves
      <4>2. users'[tokens[t].email].verified
        BY <2>2, <3>2, <4>1 DEF SetVerified, MailInv, Sound, TypeOK, Registered, User
      <4>3. QED BY <2>1, <4>2
    <3>3. CASE Crash(p)
      BY <2>5, <3>3 DEF Crash
    <3>4. QED BY <2>5, <3>1, <3>2, <3>3, VerifierSteps DEF MailInv
  <2>6. QED BY <1>1, <2>1, <2>3, <2>4, <2>5 DEF MailInv, UsedTokensTakeEffect
<1>2. ASSUME NEW p \in Requests, ConfirmVerification(p), request'[p].token = t
      PROVE  Effect(t)'
  BY <1>2, ConfirmProves DEF MailInv
<1>3. QED BY <1>1, <1>2, UsedSteps DEF MailInv

LEMMA MailInvariant == Spec => []MailInv
<1>1. Init => MailInv
  BY InitSound DEF Init, MailInv, VerifiersHaveProof, VerifiedHaveProof,
     UsedTokensTakeEffect, Idle, Registered
<1>2. MailInv /\ [Next]_vars => MailInv'
  BY NextSound, NextVerifiers, NextVerified, NextUsed DEF MailInv
<1>3. QED BY <1>1, <1>2, PTL DEF Spec

\* Only a token of the verify kind, mailed to the very address, verifies it
\* (confirm-email-verification.ts, 14-20), however many requests overlap or crash.
THEOREM OnlyMailVerifies == Spec => []VerifiedByMail
<1>1. MailInv => VerifiedByMail
  BY DEF MailInv, VerifiedHaveProof, VerifiedByMail, Proves
<1>2. QED BY <1>1, MailInvariant, PTL

\* A verification token is not used up in vain, unless the request that used it
\* crashed between consume and update (confirm-email-verification.ts, 16-20).
THEOREM NoTokenInVain == Spec => []UsedTokensTakeEffect
<1>1. MailInv => UsedTokensTakeEffect
  BY DEF MailInv
<1>2. QED BY <1>1, MailInvariant, PTL
=============================================================================
