------------------------------ MODULE ServedCert ------------------------------
(***************************************************************************)
(* What a machine that uses the server sees of it: the certificate it      *)
(* would get for its domain now, and the clock that decides when it is due *)
(* for renewal.  A certificate is identified by its `expiresAt`, which the *)
(* server stamps to the millisecond when it issues.                        *)
(***************************************************************************)
EXTENDS Integers

CONSTANTS
    Day, TwoDays, Week,
    Lifetime,   \* of the certificates the server issues
    MaxNow,     \* bound on the clock
    MaxFaults   \* bound on what goes wrong on a machine

ASSUME SpanAssumption ==
    /\ Day \in Nat \ {0} /\ TwoDays = 2 * Day /\ Week \in Nat /\ Lifetime \in Nat
    /\ MaxNow \in Nat /\ MaxFaults \in Nat

VARIABLES
    now,
    served,     \* the certificate that the server hands out
    faults      \* how many more things go wrong

serverVars == <<now, served>>

\* When the certificate really ends: the ca provider cuts its end down to
\* midnight and reports the full time to the table (the other providers
\* report the end that the certificate has).
Ends(e) == e - (e % Day)

\* ClientState::should_renew (no provider sets prefer_renew_after, and all
\* set prefer_renew_before to a week before the end).
Due(e) == e < now + TwoDays \/ now > e - Week

ServerTypeOK == now \in 0..MaxNow /\ served \in Int /\ faults \in 0..MaxFaults

ServerInit == now = 0 /\ served = Lifetime /\ faults = MaxFaults

Tick == now < MaxNow /\ now' = now + 1 /\ UNCHANGED served

\* The server has renewed the certificate, when and for whatever reason.
Renews == served < now + Lifetime /\ served' = now + Lifetime /\ UNCHANGED now

\* Something goes wrong.
Fault == faults > 0 /\ faults' = faults - 1

ServerNext == (Tick \/ Renews) /\ UNCHANGED faults
=============================================================================
