------------------------------ MODULE CertLedger ------------------------------
(***************************************************************************)
(* What the server as a whole promises about the certificates it keeps, in *)
(* whatever way its tasks and locks bring that about (the promise of       *)
(* cert.rs: one lock per certificate, look again, then issue):             *)
(*                                                                         *)
(*   a certificate is ordered only while the table has none that is fresh, *)
(*   and by one order at a time;                                           *)
(*   only what such an order delivers is stored;                           *)
(*   a request is answered with what the table held at one moment;         *)
(*   a crash forgets orders and requests, and whole configurations at most.*)
(***************************************************************************)
EXTENDS CertRules

CONSTANTS
    Handlers,   \* requests that can be in progress at once
    Lifetimes   \* remaining lifetimes of the certificates providers return

VARIABLES
    table,      \* the row kept for each certificate id, or NoRow
    clock,
    orders,     \* the certificates that a provider is working on
    hand        \* what each request is about to be answered with: an id and its
                \* row, or <<>>

vars == <<table, clock, orders, hand>>

\* What a provider may deliver for id c at this moment.
Deliverable(c) ==
    [source : {c[1]}, provider : Providers,
     names : IF c[2] = NoHost THEN NameLists ELSE {c[2]},
     expires : {clock + l : l \in Lifetimes}, requested : 0..clock]

Init ==
    /\ table = [c \in CertIds |-> NoRow]
    /\ clock = 0
    /\ orders = {}
    /\ hand = [h \in Handlers |-> <<>>]

Pass == clock' = clock + 1 /\ UNCHANGED <<table, orders, hand>>

Place(c) ==
    /\ c \notin orders /\ ~IsFresh(table[c], clock)
    /\ orders' = orders \cup {c}
    /\ UNCHANGED <<table, clock, hand>>

Deliver(c) ==
    /\ c \in orders
    /\ orders' = orders \ {c}
    /\ \E row \in Deliverable(c) : table' = [table EXCEPT ![c] = row]
    /\ UNCHANGED <<clock, hand>>

\* The provider fails, or the task that waits for it panics.
Lose(c) == c \in orders /\ orders' = orders \ {c} /\ UNCHANGED <<table, clock, hand>>

Remove(c) == table' = [table EXCEPT ![c] = NoRow] /\ UNCHANGED <<clock, orders, hand>>

Take(h, c) ==
    /\ hand[h] = <<>> /\ table[c] # NoRow
    /\ hand' = [hand EXCEPT ![h] = <<c, table[c]>>]
    /\ UNCHANGED <<table, clock, orders>>

\* The answer; the time of the request is noted, if the row is still there.
Reply(h) ==
    /\ hand[h] # <<>>
    /\ hand' = [hand EXCEPT ![h] = <<>>]
    /\ \/ table' = table
       \/ /\ table[hand[h][1]] # NoRow
          /\ table' = [table EXCEPT ![hand[h][1]].requested = clock]
    /\ UNCHANGED <<clock, orders>>

Crash ==
    /\ orders' = {}
    /\ hand' = [h \in Handlers |-> <<>>]
    /\ \E kept \in SUBSET Sources :
         table' = [c \in CertIds |-> IF c[1] \in kept THEN table[c] ELSE NoRow]
    /\ UNCHANGED clock

Next ==
    \/ \E c \in CertIds : Place(c) \/ Deliver(c) \/ Lose(c) \/ Remove(c)
    \/ \E h \in Handlers : Reply(h) \/ \E c \in CertIds : Take(h, c)
    \/ Pass \/ Crash

Spec == Init /\ [][Next]_vars
=============================================================================
