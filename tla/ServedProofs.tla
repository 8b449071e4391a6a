----------------------------- MODULE ServedProofs -----------------------------
(***************************************************************************)
(* CertServer is the server that the models of the machines are built on   *)
(* (ServedCert): seen through one certificate id, whatever tasks, crashes, *)
(* configurations and failing providers do, time passes and the            *)
(* certificate handed out is from time to time replaced by one that lives  *)
(* longer.  The proof needs that providers issue for longer than the       *)
(* renewal window, and for all certificates for the same time.             *)
(***************************************************************************)
EXTENDS CertServerProofs

CONSTANTS Day, Lifetime

\* Every certificate outlives the windows in which it is due for renewal.
LongLived == \A l \in Lifetimes : l >= Week /\ l >= TwoDays

\* The row of a certificate is replaced by one that expires no earlier.
NeverOlder == \A c \in CertIds :
    db[c] # NoRow /\ db'[c] # NoRow => db[c].expires <= db'[c].expires

\* What a step does to the certificate c.
Unstored(c) == db'[c] # NoRow => db[c] # NoRow /\ db'[c].expires = db[c].expires

Stored(c) ==
    /\ now' = now /\ ~IsFresh(db[c], now) /\ db'[c] # NoRow
    /\ \E l \in Lifetimes : db'[c].expires = now + l

LEMMA StoredOrNot ==
    ASSUME Inv, [Next]_vars, NEW c \in CertIds
    PROVE  Unstored(c) \/ Stored(c)
  <1> USE DEF Inv
  <1>1. CASE \E t \in Tasks : IssueSucceeds(t)
    <2> PICK t \in Tasks : IssueSucceeds(t)
      BY <1>1
    <2>1. pc[t] = "issuing" /\ job[t] \in Jobs /\ job[t].id \in CertIds /\ now \in Int
      BY JobOfLocked DEF IssueSucceeds, Locked, TypeInv, TypeOK
    <2>2. PICK l \in Lifetimes : db' = [db EXCEPT ![job[t].id] = NewRow(job[t], l)]
      BY DEF IssueSucceeds
    <2>3. CASE c = job[t].id
      <3>1. db'[c] = NewRow(job[t], l)
        BY <2>1, <2>2, <2>3 DEF TypeInv, TypeOK
      <3>2. db'[c] # NoRow /\ db'[c].expires = now + l
        BY <2>1, <3>1, NewRowType DEF NewRow
      <3>3. ~IsFresh(db[c], now) /\ now' = now
        BY <2>1, <2>3 DEF FlightInv, NoRedundantIssuance, IssueSucceeds
      <3> QED BY <3>2, <3>3 DEF Stored
    <2>4. CASE c # job[t].id
      BY <2>2, <2>4 DEF Unstored, TypeInv, TypeOK
    <2> QED BY <2>3, <2>4
  <1>2. CASE \A t \in Tasks : ~IssueSucceeds(t)
    <2> SUFFICES ASSUME db'[c] # NoRow
                 PROVE  db[c] # NoRow /\ db'[c].expires = db[c].expires
      BY DEF Unstored
    <2>1. db[c] # NoRow /\ SameCert(db[c], db'[c])
      BY <1>2, OnlyIssueStores DEF StoresNothing
    <2>2. db[c] \in Rows /\ db'[c] \in Rows
      BY <2>1, TypeInvStep DEF TypeInv, TypeOK
    <2> QED BY <2>1, <2>2, SameCertFields
  <1> QED BY <1>1, <1>2

\* A row that is due ends before one that is stored now.
LEMMA DueEndsFirst ==
    ASSUME LongLived, NEW row \in Rows, NEW time \in Int, ~IsFresh(row, time),
           NEW l \in Lifetimes
    PROVE  row.expires < time + l
  <1>1. row # NoRow /\ row.expires \in Int /\ l \in Int /\ Week \in Int /\ TwoDays \in Int
    BY NoRowAssumption, LifetimeAssumption, TimeAssumption DEF Rows
  <1>2. l >= Week /\ l >= TwoDays
    BY DEF LongLived
  <1>3. row.expires - Week < time \/ row.expires < time + TwoDays
    BY <1>1 DEF IsFresh, NeedsRenewal
  <1> QED BY <1>1, <1>2, <1>3

\* No task ever puts back an older certificate: not the maintenance job with
\* its copies, nor a call that waited for its lock or its provider.
THEOREM RowsNeverOlder ==
    ASSUME LongLived
    PROVE  Spec => [][NeverOlder]_vars
  <1>1. Inv /\ [Next]_vars => NeverOlder
    <2> SUFFICES ASSUME Inv, [Next]_vars, NEW c \in CertIds, db[c] # NoRow, db'[c] # NoRow
                 PROVE  db[c].expires <= db'[c].expires
      BY DEF NeverOlder
    <2>1. db[c] \in Rows /\ db[c].expires \in Int /\ now \in Int
      BY DEF Inv, TypeInv, TypeOK, Rows
    <2>2. CASE Unstored(c)
      BY <2>1, <2>2 DEF Unstored
    <2>3. CASE Stored(c)
      <3> PICK l \in Lifetimes : db'[c].expires = now + l
        BY <2>3 DEF Stored
      <3>1. db[c].expires < now + l
        BY <2>1, <2>3, DueEndsFirst DEF Stored
      <3>2. now + l \in Int
        BY <2>1, LifetimeAssumption
      <3> QED BY <2>1, <3>1, <3>2
    <2> QED BY <2>2, <2>3, StoredOrNot
  <1> QED BY <1>1, Invariance, PTL DEF Spec

-----------------------------------------------------------------------------
(* The server behind the machines.  `latest` is history: the end of the    *)
(* certificate stored last for each id, which is what a machine was given  *)
(* or would be given now (a row that is gone is issued again on request).  *)

VARIABLE latest

Served(c) == INSTANCE ServedCert WITH served <- latest[c], faults <- 0, MaxFaults <- 0

LatestInit == Init /\ latest = [c \in CertIds |-> Lifetime]

LatestStep == latest' =
    [c \in CertIds |-> IF db'[c] # NoRow THEN db'[c].expires ELSE latest[c]]

LatestSpec ==
    /\ LatestInit
    /\ [][Next /\ LatestStep]_<<vars, latest>>

\* The history is of the certificates in the table, none of which ends later
\* than one issued now would.
LatestInv == \A c \in CertIds :
    /\ latest[c] \in Int /\ latest[c] <= now + Lifetime
    /\ db[c] # NoRow => latest[c] = db[c].expires

LEMMA LatestInvInit ==
    ASSUME Lifetime \in Int
    PROVE  LatestInit => LatestInv
  BY DEF LatestInit, LatestInv, Init, Empty

LEMMA LatestTaken ==
    ASSUME Lifetimes = {Lifetime}, Inv, LatestInv, [Next /\ LatestStep]_<<vars, latest>>,
           NEW c \in CertIds
    PROVE  \/ latest'[c] = latest[c]
           \/ Stored(c) /\ latest'[c] = now + Lifetime
  <1>1. CASE UNCHANGED <<vars, latest>>
    BY <1>1
  <1>2. CASE Next /\ LatestStep
    <2>1. CASE Unstored(c)
      BY <1>2, <2>1 DEF Unstored, LatestStep, LatestInv
    <2>2. CASE Stored(c)
      BY <1>2, <2>2 DEF Stored, LatestStep
    <2> QED BY <1>2, <2>1, <2>2, StoredOrNot
  <1> QED BY <1>1, <1>2

LEMMA LatestInvStep ==
    ASSUME Lifetimes = {Lifetime}, Lifetime \in Int
    PROVE  Inv /\ LatestInv /\ [Next /\ LatestStep]_<<vars, latest>> => LatestInv'
  <1> SUFFICES ASSUME Inv, LatestInv, [Next /\ LatestStep]_<<vars, latest>>, NEW c \in CertIds
               PROVE  /\ latest'[c] \in Int /\ latest'[c] <= now' + Lifetime
                      /\ db'[c] # NoRow => latest'[c] = db'[c].expires
    BY DEF LatestInv
  <1>1. [Next]_vars /\ now \in Int /\ now' \in Int /\ now <= now'
    BY ClockForward DEF Inv
  <1>2. latest[c] \in Int /\ latest[c] <= now + Lifetime
    BY DEF LatestInv
  <1>3. latest'[c] \in Int /\ latest'[c] <= now' + Lifetime
    <2>1. CASE latest'[c] = latest[c]
      <3>1. latest[c] <= now' + Lifetime
        BY <1>1, <1>2
      <3> QED BY <1>2, <2>1, <3>1
    <2>2. CASE Stored(c) /\ latest'[c] = now + Lifetime
      BY <1>1, <2>2 DEF Stored
    <2> QED BY <2>1, <2>2, LatestTaken
  <1>4. db'[c] # NoRow => latest'[c] = db'[c].expires
    <2>1. CASE UNCHANGED <<vars, latest>>
      BY <2>1 DEF vars, LatestInv
    <2>2. CASE LatestStep
      BY <2>2 DEF LatestStep
    <2> QED BY <2>1, <2>2
  <1> QED BY <1>3, <1>4

\* The clock moves by ticks, which store nothing.
LEMMA ClockStep ==
    ASSUME TypeInv, [Next]_vars
    PROVE  now' = now \/ (now < MaxNow /\ now' = now + 1 /\ UNCHANGED db)
  <1>1. ASSUME NEW t \in Tasks, Issue(t) \/ DbPanic(t) PROVE now' = now
    BY <1>1
    DEF Issue, AcquireCertLock, LockGranted, PoolTimeout, RecheckHit, RecheckMiss,
        IssueFails, IssueSucceeds, ReadBack, ReadBackPanics, Return, Unwind, DbPanic
  <1>2. ASSUME NEW h \in Handlers, Handle(h) PROVE now' = now
    BY <1>2 DEF Handle, RequestHit, RequestMiss, Answer
  <1>3. ASSUME StartupStep PROVE now' = now
    BY <1>3 DEF StartupStep, StartupSkip, StartupIssue, StartupProviderChanged, StartupDrop,
                StartupDone
  <1>4. ASSUME CronStep PROVE now' = now
    BY <1>4 DEF CronStep, CronDelete, CronSkip, CronRenew, CronTick, CronDone
  <1>5. CASE Tick \/ Restart \/ UNCHANGED vars
    BY <1>5 DEF Tick, Restart, vars
  <1> QED BY <1>1, <1>2, <1>3, <1>4, <1>5 DEF Next

\* Seen through any one certificate the server is ServedCert: what is proved
\* and checked of the client and of the router holds of machines that use
\* CertServer.
THEOREM ServesAsAssumed ==
    ASSUME Lifetimes = {Lifetime}, LongLived, NEW c \in CertIds
    PROVE  LatestSpec =>
             /\ Served(c)!ServerInit
             /\ [][Served(c)!ServerNext]_(Served(c)!serverVars)
  <1>0. Lifetime \in Int
    BY LifetimeAssumption
  <1>1. LatestInit => Served(c)!ServerInit
    BY DEF LatestInit, Init, Served!ServerInit
  <1>2. Inv /\ LatestInv /\ [Next /\ LatestStep]_<<vars, latest>>
          => [Served(c)!ServerNext]_(Served(c)!serverVars)
    <2> SUFFICES ASSUME Inv, LatestInv, [Next /\ LatestStep]_<<vars, latest>>
                 PROVE  [Served(c)!ServerNext]_(Served(c)!serverVars)
      OBVIOUS
    <2>1. [Next]_vars /\ now \in Int /\ latest[c] \in Int /\ latest[c] <= now + Lifetime
      BY DEF LatestInv, Inv, TypeInv, TypeOK
    <2>2. CASE now' = now /\ latest'[c] = latest[c]
      BY <2>2 DEF Served!serverVars
    <2>3. CASE now' # now
      <3>1. now < MaxNow /\ now' = now + 1 /\ ~Stored(c)
        BY <2>1, <2>3, ClockStep DEF Inv, Stored
      <3>2. latest'[c] = latest[c]
        BY <3>1, LatestTaken
      <3> QED BY <3>1, <3>2 DEF Served!ServerNext, Served!Tick
    <2>4. CASE now' = now /\ latest'[c] # latest[c]
      <3>1. latest'[c] = now + Lifetime
        BY <2>4, LatestTaken
      <3>2. latest[c] < now + Lifetime
        BY <1>0, <2>1, <2>4, <3>1
      <3> QED BY <2>4, <3>1, <3>2 DEF Served!ServerNext, Served!Renews
    <2> QED BY <2>2, <2>3, <2>4
  <1>3. LatestSpec => [](Inv /\ LatestInv)
    <2>1. LatestInit => Init /\ LatestInv
      BY <1>0, LatestInvInit DEF LatestInit
    <2>2. Init => Inv
      BY TypeInvInit, LockInvInit DEF Inv, FlightInv, Init, FirstPc, NoRedundantIssuance, ReadBackOwn
    <2>3. Inv /\ [Next /\ LatestStep]_<<vars, latest>> => Inv'
      BY TypeInvStep, LockInvStep, FlightInvStep DEF Inv
    <2>4. Inv /\ LatestInv /\ [Next /\ LatestStep]_<<vars, latest>> => LatestInv'
      BY <1>0, LatestInvStep
    <2> QED BY <2>1, <2>2, <2>3, <2>4, PTL DEF LatestSpec
  <1> QED BY <1>1, <1>2, <1>3, PTL DEF LatestSpec
=============================================================================
