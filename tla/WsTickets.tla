----------------------------- MODULE WsTickets ------------------------------
(***************************************************************************)
(* Tickets for opening a socket: issue-ws-ticket.ts and the upgrade in     *)
(* gateway.ts, over redis-ws-ticket-store.ts.  Redis runs one command at a *)
(* time; a step is one command together with the code that runs on its     *)
(* reply.                                                                  *)
(***************************************************************************)
EXTENDS Naturals

CONSTANTS
  Tickets,
  Upgrades,   \* upgrade requests in flight at once
  None        \* no ticket, not one of Tickets

VARIABLES
  unissued, \* tickets that do not exist yet
  stored,   \* the keys ws:ticket:<ticket> in Redis
  upgrade,  \* the ticket whose key each upgrade has read and will delete
  admitted  \* how many sockets each ticket has opened

vars == <<unissued, stored, upgrade, admitted>>

TypeOK ==
  /\ unissued \in SUBSET Tickets
  /\ stored \in SUBSET Tickets
  /\ upgrade \in [Upgrades -> Tickets \cup {None}]
  /\ admitted \in [Tickets -> Nat]

Init ==
  /\ unissued = Tickets
  /\ stored = {}
  /\ upgrade = [p \in Upgrades |-> None]
  /\ admitted = [t \in Tickets |-> 0]

\* SET with EX.
IssueTicket(t) ==
  /\ t \in unissued
  /\ unissued' = unissued \ {t}
  /\ stored' = stored \cup {t}
  /\ UNCHANGED <<upgrade, admitted>>

\* GET, of a ticket that is there; any other is refused.
GetTicket(p) ==
  /\ upgrade[p] = None
  /\ \E t \in stored : upgrade' = [upgrade EXCEPT ![p] = t]
  /\ UNCHANGED <<unissued, stored, admitted>>

\* DEL, whose reply is not looked at; the socket opens.
DelTicket(p) ==
  LET t == upgrade[p]
  IN /\ t # None
     /\ stored' = stored \ {t}
     /\ upgrade' = [upgrade EXCEPT ![p] = None]
     /\ admitted' = [admitted EXCEPT ![t] = @ + 1]
     /\ UNCHANGED unissued

ExpireTicket(t) ==
  /\ t \in stored
  /\ stored' = stored \ {t}
  /\ UNCHANGED <<unissued, upgrade, admitted>>

\* The upgrade fails before DEL: the ticket stays.
CrashUpgrade(p) ==
  /\ upgrade[p] # None
  /\ upgrade' = [upgrade EXCEPT ![p] = None]
  /\ UNCHANGED <<unissued, stored, admitted>>

Next ==
  \/ \E t \in Tickets : IssueTicket(t) \/ ExpireTicket(t)
  \/ \E p \in Upgrades : GetTicket(p) \/ DelTicket(p) \/ CrashUpgrade(p)

Spec == Init /\ [][Next]_vars

-----------------------------------------------------------------------------
\* "ticket de un solo uso" (README.md): a ticket opens one socket, however many
\* upgrades present it.  GET and DEL are two commands, so it does not hold.
OneSocketPerTicket == \A t \in Tickets : admitted[t] <= 1
=============================================================================
