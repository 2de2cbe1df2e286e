---------------------------- MODULE OneTimeToken ----------------------------
(***************************************************************************)
(* What a one-time token promises: it is issued once, may lapse, and while *)
(* it is valid it is accepted once.  The tokens mailed to users (Accounts) *)
(* are such.                                                               *)
(***************************************************************************)
EXTENDS Naturals

CONSTANT Tokens

VARIABLES fresh,    \* tokens not issued yet
          valid,    \* tokens issued, neither accepted nor lapsed
          accepted  \* how often each token has been accepted

tokenVars == <<fresh, valid, accepted>>

Init ==
  /\ fresh = Tokens
  /\ valid = {}
  /\ accepted = [t \in Tokens |-> 0]

Issue(t) ==
  /\ t \in fresh
  /\ fresh' = fresh \ {t}
  /\ valid' = valid \cup {t}
  /\ UNCHANGED accepted

Accept(t) ==
  /\ t \in valid
  /\ valid' = valid \ {t}
  /\ accepted' = [accepted EXCEPT ![t] = @ + 1]
  /\ UNCHANGED fresh

Lapse(t) ==
  /\ t \in valid
  /\ valid' = valid \ {t}
  /\ UNCHANGED <<fresh, accepted>>

Next == \E t \in Tokens : Issue(t) \/ Accept(t) \/ Lapse(t)

Spec == Init /\ [][Next]_tokenVars

\* No token is accepted twice.
AcceptedOnce == \A t \in Tokens : accepted[t] <= 1
=============================================================================
