--------------------------- MODULE CertLedgerProofs ---------------------------
(***************************************************************************)
(* Proofs about CertServer as a whole: the times of requests it keeps      *)
(* (PastInv), and that it implements CertLedger.                           *)
(***************************************************************************)
EXTENDS CertServerProofs

Past(q) == q \in 0..now

\* No time of a request is in the future, in rows, copies and arguments of
\* calls alike, and only the maintenance job's calls bring one along.
RowsPast == \A c \in CertIds : db[c] # NoRow => Past(db[c].requested)

BatchPast == \A c \in CertIds : batch[c] # NoRow => Past(batch[c].requested)

Underway == InCall \cup {"drop"}

CallsPast == \A t \in Tasks : pc[t] \in Underway =>
    IF t = Cron THEN Past(job[t].requested) ELSE job[t].requested = Unset

PastInv == RowsPast /\ BatchPast /\ CallsPast

\* What a step can do to the time of request of a row.
Dated(c) ==
    \/ db[c] # NoRow /\ db'[c].requested = db[c].requested
    \/ db'[c].requested = now
    \/ /\ pc[Cron] = "issuing" /\ pc'[Cron] = "readback" /\ job[Cron].id = c
       /\ db'[c].requested = job[Cron].requested

LEMMA IssueDates ==
    ASSUME TypeInv, CallsPast, NEW t \in Tasks, IssueSucceeds(t),
           NEW c \in CertIds, db'[c] # NoRow
    PROVE  Dated(c)
  <1>1. pc[t] = "issuing" /\ pc'[t] = "readback" /\ job[t] \in Jobs /\ job[t].id \in CertIds
    BY JobOfLocked DEF IssueSucceeds, Goto, Locked, TypeInv, TypeOK
  <1>2. PICK l \in Lifetimes : db' = [db EXCEPT ![job[t].id] = NewRow(job[t], l)]
    BY DEF IssueSucceeds
  <1>3. CASE c # job[t].id
    BY <1>2, <1>3 DEF Dated, TypeInv, TypeOK
  <1>4. CASE c = job[t].id
    <2>1. db'[c].requested = IF job[t].requested = Unset THEN now ELSE job[t].requested
      BY <1>1, <1>2, <1>4 DEF NewRow, TypeInv, TypeOK
    <2>2. t # Cron => job[t].requested = Unset
      BY <1>1 DEF CallsPast, Underway, InCall, Locked
    <2> QED BY <1>1, <1>4, <2>1, <2>2 DEF Dated
  <1> QED BY <1>3, <1>4

LEMMA TouchDates ==
    ASSUME TypeInv, NEW h \in Handlers, Answer(h), NEW c \in CertIds, db'[c] # NoRow
    PROVE  Dated(c)
  <1>1. job[h].id \in CertIds
    BY DEF Answer, TypeInv, JobsInHand, Jobs, Tasks
  <1>2. CASE db' = db
    BY <1>2 DEF Dated
  <1>3. CASE db' = Touched(job[h].id)
    <2>1. CASE db[job[h].id] = NoRow \/ c # job[h].id
      BY <1>1, <1>3, <2>1 DEF Dated, Touched, TypeInv, TypeOK
    <2>2. CASE db[job[h].id] # NoRow /\ c = job[h].id
      <3>1. db[c] \in Rows
        BY <2>2 DEF TypeInv, TypeOK
      <3>2. db'[c] = [db[c] EXCEPT !.requested = now]
        BY <1>1, <1>3, <2>2 DEF Touched, TypeInv, TypeOK
      <3> QED BY <3>1, <3>2 DEF Dated, Rows
    <2> QED BY <2>1, <2>2
  <1> QED BY <1>2, <1>3 DEF Answer

LEMMA RowsDated ==
    ASSUME TypeInv, CallsPast, [Next]_vars, NEW c \in CertIds, db'[c] # NoRow
    PROVE  Dated(c)
  <1> DEFINE Kept == db'[c] = db[c]
  <1>0. Kept => Dated(c)
    BY DEF Dated
  <1>1. ASSUME NEW t \in Tasks, Issue(t) PROVE Dated(c)
    <2>1. CASE IssueSucceeds(t)
      BY <2>1, IssueDates
    <2>2. CASE ~IssueSucceeds(t)
      <3>1. Kept
        BY <1>1, <2>2
        DEF Issue, AcquireCertLock, LockGranted, PoolTimeout, RecheckHit, RecheckMiss,
            IssueFails, ReadBack, ReadBackPanics, Unwind
      <3> QED BY <1>0, <3>1
    <2> QED BY <2>1, <2>2
  <1>2. ASSUME NEW t \in Tasks, DbPanic(t) PROVE Kept
    BY <1>2 DEF DbPanic, Unwind
  <1>3. ASSUME NEW h \in Handlers, Handle(h) PROVE Dated(c)
    <2>1. CASE Answer(h)
      BY <2>1, TouchDates
    <2>2. ASSUME NEW s \in DOMAIN config.certs, NEW host \in Hosts,
                 RequestHit(h, s, host) \/ RequestMiss(h, s, host)
          PROVE  Kept
      BY <2>2 DEF RequestHit, RequestMiss
    <2> QED BY <1>0, <1>3, <2>1, <2>2 DEF Handle
  <1>4. CASE StartupStep
    <2>1. CASE StartupDrop
      BY <2>1 DEF StartupDrop, Dated, TypeInv, TypeOK
    <2>2. CASE ~StartupDrop
      BY <1>4, <2>2
      DEF StartupStep, StartupSkip, StartupIssue, StartupProviderChanged, StartupDone, Dated
    <2> QED BY <2>1, <2>2
  <1>5. CASE CronStep
    BY <1>5
    DEF CronStep, CronDelete, CronSkip, CronRenew, CronTick, CronDone, Dated, TypeInv, TypeOK
  <1>6. CASE Tick
    BY <1>0, <1>6 DEF Tick
  <1>7. CASE Restart
    BY <1>0, <1>7 DEF Restart, Cleanup
  <1>8. CASE UNCHANGED vars
    BY <1>0, <1>8 DEF vars
  <1> QED BY <1>0, <1>1, <1>2, <1>3, <1>4, <1>5, <1>6, <1>7, <1>8 DEF Next

\* The past only grows.
LEMMA PastGrows ==
    ASSUME TypeInv, [Next]_vars, NEW q, Past(q)
    PROVE  Past(q)'
  <1>1. now' \in Int /\ now \in Int /\ now <= now'
    BY ClockForward
  <1> QED BY <1>1 DEF Past

LEMMA RowsPastStep ==
    ASSUME TypeInv, PastInv, [Next]_vars
    PROVE  RowsPast'
  <1> SUFFICES ASSUME NEW c \in CertIds, db'[c] # NoRow
               PROVE  Past(db[c].requested)'
    BY DEF RowsPast
  <1>1. Dated(c)
    BY RowsDated DEF PastInv
  <1>2. Past(now) /\ (pc[Cron] = "issuing" => Past(job[Cron].requested))
    BY DEF Past, PastInv, CallsPast, Underway, InCall, Locked, TypeInv, TypeOK, Tasks
  <1>3. Past(db'[c].requested)
    BY <1>1, <1>2 DEF Dated, PastInv, RowsPast
  <1> QED BY <1>3, PastGrows DEF Past

\* The maintenance job's copies.
LEMMA BatchPastStep ==
    ASSUME TypeInv, PastInv, [Next]_vars
    PROVE  BatchPast'
  <1> DEFINE Copies == \A c \in CertIds : batch'[c] \in {batch[c], db[c], NoRow}
  <1>1. Copies
    <2>1. ASSUME NEW t \in Tasks, Issue(t) PROVE Copies
      BY <2>1 DEF Issue, AcquireCertLock, LockGranted, PoolTimeout, RecheckHit, RecheckMiss,
                  IssueFails, IssueSucceeds, ReadBack, ReadBackPanics, Return, Unwind, Empty
    <2>2. ASSUME NEW t \in Tasks, DbPanic(t) PROVE Copies
      BY <2>2 DEF DbPanic, Unwind, Empty
    <2>3. ASSUME NEW h \in Handlers, Handle(h) PROVE Copies
      BY <2>3 DEF Handle, RequestHit, RequestMiss, Answer
    <2>4. CASE StartupStep
      BY <2>4 DEF StartupStep, StartupSkip, StartupIssue, StartupProviderChanged, StartupDrop,
                  StartupDone
    <2>5. CASE CronStep
      BY <2>5 DEF CronStep, CronDelete, CronSkip, CronRenew, CronPick, CronTick, CronDone,
                  TypeInv, TypeOK
    <2>6. CASE Tick \/ Restart \/ UNCHANGED vars
      BY <2>6 DEF Tick, volatile, Restart, Empty, vars
    <2> QED BY <2>1, <2>2, <2>3, <2>4, <2>5, <2>6 DEF Next
  <1> SUFFICES ASSUME NEW c \in CertIds, batch'[c] # NoRow
               PROVE  Past(batch[c].requested)'
    BY DEF BatchPast
  <1>2. Past(batch'[c].requested)
    BY <1>1 DEF PastInv, BatchPast, RowsPast
  <1> QED BY <1>2, PastGrows DEF Past

\* A task that is in a call after a step was in it before, or begins it.
Begins(u) ==
    IF u = Cron
      THEN \E c \in CertIds : batch[c] # NoRow /\ job'[u].requested = batch[c].requested
      ELSE job'[u].requested = Unset

Continues(u) == pc[u] \in Underway /\ job'[u] = job[u]

LEMMA CallsGoOn ==
    ASSUME TypeInv, [Next]_vars, NEW u \in Tasks, pc'[u] \in Underway
    PROVE  Begins(u) \/ Continues(u)
  <1> USE DEF Goto
  <1>0. Startup \in Tasks /\ Cron \in Tasks /\ Handlers \subseteq Tasks /\ Startup # Cron
        /\ Startup \notin Handlers /\ Cron \notin Handlers
    BY TaskAssumption DEF Tasks
  <1>1. ASSUME NEW t \in Tasks, Issue(t) PROVE Continues(u)
    <2>1. CASE AcquireCertLock(t) \/ LockGranted(t) \/ RecheckMiss(t) \/ IssueSucceeds(t)
      BY <2>1 DEF AcquireCertLock, LockGranted, RecheckMiss, IssueSucceeds, Continues,
                  Underway, InCall, Locked, TypeInv, TypeOK
    <2>2. CASE PoolTimeout(t) \/ RecheckHit(t) \/ IssueFails(t) \/ ReadBack(t)
      BY <2>2 DEF PoolTimeout, RecheckHit, IssueFails, ReadBack, Return, Continues,
                  Underway, InCall, Locked, TypeInv, TypeOK
    <2>3. CASE ReadBackPanics(t)
      BY <2>3 DEF ReadBackPanics, Unwind, Continues, Underway, InCall, Locked, TypeInv, TypeOK
    <2> QED BY <1>1, <2>1, <2>2, <2>3 DEF Issue
  <1>2. ASSUME NEW t \in Tasks, DbPanic(t) PROVE Continues(u)
    BY <1>2 DEF DbPanic, Unwind, Continues, Underway, InCall, Locked, TypeInv, TypeOK
  <1>3. ASSUME NEW h \in Handlers, Handle(h) PROVE Begins(u) \/ Continues(u)
    <2>1. ASSUME NEW s \in DOMAIN config.certs, NEW host \in Hosts, RequestMiss(h, s, host)
          PROVE  Begins(u) \/ Continues(u)
      BY <1>0, <2>1 DEF RequestMiss, Call, RequestJob, Begins, Continues, TypeInv, TypeOK
    <2>2. ASSUME NEW s \in DOMAIN config.certs, NEW host \in Hosts, RequestHit(h, s, host)
          PROVE  Continues(u)
      BY <1>0, <2>2 DEF RequestHit, Continues, Underway, InCall, Locked, TypeInv, TypeOK
    <2>3. CASE Answer(h)
      BY <1>0, <2>3 DEF Answer, Continues, Underway, InCall, Locked, TypeInv, TypeOK
    <2> QED BY <1>3, <2>1, <2>2, <2>3 DEF Handle
  <1>4. CASE StartupStep
    <2>1. ASSUME NEW s \in Sources, StartupSkip(s) \/ StartupIssue(s) \/ StartupProviderChanged(s)
          PROVE  Begins(u) \/ Continues(u)
      BY <1>0, <2>1 DEF StartupSkip, StartupIssue, StartupProviderChanged, Call, StartupJob,
                        RequestJob, Begins, Continues, TypeInv, TypeOK
    <2>2. CASE StartupDrop
      BY <1>0, <2>2 DEF StartupDrop, Continues, Underway, InCall, Locked, TypeInv, TypeOK
    <2>3. CASE StartupDone
      BY <1>0, <2>3 DEF StartupDone, Continues, Underway, InCall, Locked, TypeInv, TypeOK
    <2> QED BY <1>4, <2>1, <2>2, <2>3 DEF StartupStep
  <1>5. CASE CronStep
    <2>1. ASSUME NEW c \in CertIds, CronRenew(c) PROVE Begins(u) \/ Continues(u)
      BY <1>0, <2>1 DEF CronRenew, CronPick, Call, CronJob, Begins, Continues, TypeInv, TypeOK
    <2>2. ASSUME NEW c \in CertIds, CronDelete(c) \/ CronSkip(c) PROVE Continues(u)
      BY <2>2 DEF CronDelete, CronSkip, Continues
    <2>3. CASE CronTick \/ CronDone
      BY <1>0, <2>3 DEF CronTick, CronDone, Continues, Underway, InCall, Locked, TypeInv, TypeOK
    <2> QED BY <1>5, <2>1, <2>2, <2>3 DEF CronStep
  <1>6. CASE Tick
    BY <1>6 DEF Tick, volatile, Continues
  <1>7. CASE Restart
    BY <1>7 DEF Restart, FirstPc, Underway, InCall, Locked
  <1>8. CASE UNCHANGED vars
    BY <1>8 DEF vars, Continues
  <1> QED BY <1>1, <1>2, <1>3, <1>4, <1>5, <1>6, <1>7, <1>8 DEF Next

LEMMA CallsPastStep ==
    ASSUME TypeInv, PastInv, [Next]_vars
    PROVE  CallsPast'
  <1> SUFFICES ASSUME NEW u \in Tasks, pc'[u] \in Underway
               PROVE  IF u = Cron THEN Past(job[u].requested)' ELSE job'[u].requested = Unset
    BY DEF CallsPast
  <1>1. Begins(u) \/ Continues(u)
    BY CallsGoOn
  <1>2. CASE u # Cron
    BY <1>1, <1>2 DEF Begins, Continues, PastInv, CallsPast
  <1>3. CASE u = Cron
    <2>1. Past(job'[u].requested)
      BY <1>1, <1>3 DEF Begins, Continues, PastInv, CallsPast, BatchPast
    <2> QED BY <1>3, <2>1, PastGrows DEF Past
  <1> QED BY <1>2, <1>3

THEOREM PastInvariant == Spec => [](TypeInv /\ PastInv)
  <1>1. Init => PastInv
    BY TaskAssumption
    DEF Init, PastInv, RowsPast, BatchPast, CallsPast, Underway, InCall, Locked, FirstPc, Empty
  <1>2. TypeInv /\ PastInv /\ [Next]_vars => PastInv'
    BY RowsPastStep, BatchPastStep, CallsPastStep DEF PastInv
  <1> QED BY <1>1, <1>2, TypeInvInit, TypeInvStep, PTL DEF Spec

\* Only a renewal by the maintenance job, which brings the time of its copy
\* along, sets the time of a request back: everything else leaves it alone
\* or sets it to the present, and no time kept is later than that.
THEOREM RequestsAreRemembered == Spec => RequestsRemembered
  <1> DEFINE Remembered == \A c \in CertIds :
        db[c] # NoRow /\ db'[c] # NoRow /\ db'[c].requested < db[c].requested
          => pc[Cron] = "issuing" /\ pc'[Cron] = "readback" /\ job[Cron].id = c
  <1>1. TypeInv /\ PastInv /\ [Next]_vars => Remembered
    <2> SUFFICES ASSUME TypeInv, PastInv, [Next]_vars, NEW c \in CertIds,
                        db[c] # NoRow, db'[c] # NoRow, db'[c].requested < db[c].requested
                 PROVE  pc[Cron] = "issuing" /\ pc'[Cron] = "readback" /\ job[Cron].id = c
      OBVIOUS
    <2>1. Dated(c)
      BY RowsDated DEF PastInv
    <2>2. db[c].requested \in 0..now /\ now \in Int
      BY DEF PastInv, RowsPast, Past, TypeInv, TypeOK
    <2> QED BY <2>1, <2>2 DEF Dated
  <1> QED BY <1>1, PastInvariant, PTL DEF Spec, RequestsRemembered

-----------------------------------------------------------------------------
(* The server implements CertLedger.  What a step of task t does to the    *)
(* orders and to the answers in hand depends on where t is before and      *)
(* after it.                                                               *)

Others(t) == \A u \in Tasks \ {t} : pc'[u] = pc[u] /\ job'[u] = job[u] /\ cert'[u] = cert[u]

LEMMA OrdersKept ==
    ASSUME NEW t \in Tasks, Others(t), pc[t] # "issuing", pc'[t] # "issuing"
    PROVE  Ordered' = Ordered
  BY DEF Others, Ordered

LEMMA OrderPlaced ==
    ASSUME TypeInv, OneIssuerPerCert, NEW t \in Tasks, Others(t),
           pc[t] = "recheck", pc'[t] = "issuing", job'[t] = job[t]
    PROVE  /\ job[t].id \in CertIds /\ job[t].id \notin Ordered
           /\ Ordered' = Ordered \cup {job[t].id}
  <1>1. job[t].id \in CertIds
    BY JobOfLocked DEF Locked
  <1>2. job[t].id \notin Ordered
    BY DEF Ordered, OneIssuerPerCert, Locked
  <1>3. ASSUME NEW c \in CertIds
        PROVE  c \in Ordered' <=> c \in Ordered \/ c = job[t].id
    BY DEF Others, Ordered
  <1> QED BY <1>1, <1>2, <1>3 DEF Ordered

LEMMA OrderGone ==
    ASSUME TypeInv, OneIssuerPerCert, NEW t \in Tasks, Others(t),
           pc[t] = "issuing", pc'[t] # "issuing"
    PROVE  /\ job[t].id \in CertIds /\ job[t].id \in Ordered
           /\ Ordered' = Ordered \ {job[t].id}
  <1>1. job[t].id \in CertIds
    BY JobOfLocked DEF Locked
  <1>2. job[t].id \in Ordered
    BY <1>1 DEF Ordered
  <1>3. ASSUME NEW c \in CertIds
        PROVE  c \in Ordered' <=> c \in Ordered /\ c # job[t].id
    BY DEF Others, Ordered, OneIssuerPerCert, Locked
  <1> QED BY <1>1, <1>2, <1>3 DEF Ordered

LEMMA HandsKept ==
    ASSUME NEW t \in Tasks, Others(t), pc[t] # "touch", pc'[t] # "touch"
    PROVE  Hand' = Hand
  BY DEF Others, Hand, Tasks

LEMMA HandFilled ==
    ASSUME NEW h \in Handlers, Others(h), pc[h] # "touch", pc'[h] = "touch"
    PROVE  Hand[h] = <<>> /\ Hand' = [Hand EXCEPT ![h] = <<job'[h].id, cert'[h]>>]
  BY DEF Others, Hand, Tasks

LEMMA HandEmptied ==
    ASSUME NEW h \in Handlers, Others(h), pc[h] = "touch", pc'[h] # "touch"
    PROVE  /\ Hand[h] = <<job[h].id, cert[h]>> /\ Hand[h] # <<>>
           /\ Hand' = [Hand EXCEPT ![h] = <<>>]
  BY DEF Others, Hand, Tasks

\* A step at which neither orders, answers, table nor clock change.
LEMMA Unseen ==
    ASSUME NEW t \in Tasks, Others(t), UNCHANGED <<db, now>>,
           pc[t] \notin {"issuing", "touch"}, pc'[t] \notin {"issuing", "touch"}
    PROVE  UNCHANGED Ledger!vars
  <1>1. Ordered' = Ordered
    BY OrdersKept
  <1>2. Hand' = Hand
    BY HandsKept
  <1> QED BY <1>1, <1>2 DEF Ledger!vars

LEMMA SameRules ==
    /\ Ledger!CertIds = CertIds
    /\ \A row, time : Ledger!IsFresh(row, time) = IsFresh(row, time)
  BY DEF Ledger!CertIds, CertIds, Ledger!IsFresh, IsFresh, Ledger!NeedsRenewal, NeedsRenewal

\* A call that ends with a row which the table holds: a handler takes it.
LEMMA TakesRow ==
    ASSUME TypeInv, NEW t \in Tasks, pc[t] \in {"recheck", "readback"},
           db[job[t].id] # NoRow, Return(t, db[job[t].id]), UNCHANGED db
    PROVE  [Ledger!Next]_(Ledger!vars)
  <1>1. Others(t) /\ UNCHANGED now
    BY DEF Return, Goto, Others, TypeInv, TypeOK
  <1>2. CASE t \notin Handlers
    <2>1. pc'[t] \in {"scan", "sweep"}
      BY <1>2 DEF Return, Goto, TypeInv, TypeOK, Tasks
    <2> QED BY <1>1, <2>1, Unseen
  <1>3. CASE t \in Handlers
    <2>1. /\ pc'[t] = "touch" /\ job'[t].id = job[t].id /\ cert'[t] = db[job[t].id]
      BY <1>3, TaskAssumption DEF Return, Keeps, Goto, TypeInv, TypeOK
    <2>2. job[t].id \in CertIds
      BY JobOfLocked DEF Locked
    <2>3. Hand[t] = <<>> /\ Hand' = [Hand EXCEPT ![t] = <<job[t].id, db[job[t].id]>>]
      BY <1>1, <1>3, <2>1, HandFilled
    <2>4. Ordered' = Ordered
      BY <1>1, <2>1, OrdersKept
    <2>5. Ledger!Take(t, job[t].id)
      BY <1>1, <2>3, <2>4 DEF Ledger!Take
    <2> QED BY <1>3, <2>2, <2>5, SameRules DEF Ledger!Next
  <1> QED BY <1>2, <1>3

\* An order that comes to nothing.
LEMMA LosesOrder ==
    ASSUME TypeInv, OneIssuerPerCert, NEW t \in Tasks, Others(t), UNCHANGED <<db, now>>,
           pc[t] = "issuing", pc'[t] \notin {"issuing", "touch"}
    PROVE  Ledger!Next
  <1>1. job[t].id \in CertIds /\ job[t].id \in Ordered /\ Ordered' = Ordered \ {job[t].id}
    BY OrderGone
  <1>2. Hand' = Hand
    BY HandsKept
  <1>3. Ledger!Lose(job[t].id)
    BY <1>1, <1>2 DEF Ledger!Lose
  <1> QED BY <1>1, <1>3, SameRules DEF Ledger!Next

\* What a provider returns may be delivered.
LEMMA NewRowDeliverable ==
    ASSUME TypeInv, OriginInv, PastInv, NEW t \in Tasks, pc[t] = "issuing", NEW l \in Lifetimes
    PROVE  NewRow(job[t], l) \in Ledger!Deliverable(job[t].id)
  <1>1. job[t] \in Jobs /\ OfConfig(job[t].id, job[t])
    BY JobOfLocked DEF OriginInv, CallsOfConfig, InCall, Locked
  <1>2. now \in Nat
    BY DEF TypeInv, TypeOK
  <1>3. job[t].requested \in (0..now) \cup {Unset}
    BY DEF PastInv, CallsPast, Past, Underway, InCall, Locked
  <1> DEFINE q == IF job[t].requested = Unset THEN now ELSE job[t].requested
  <1>4. q \in 0..now
    BY <1>2, <1>3
  <1>5. NewRow(job[t], l) = [source |-> job[t].source, provider |-> job[t].provider,
                             names |-> job[t].names, expires |-> now + l, requested |-> q]
    BY DEF NewRow
  <1> HIDE DEF q
  <1>6. /\ job[t].source \in {job[t].id[1]}
        /\ job[t].provider \in Providers
        /\ job[t].names \in (IF job[t].id[2] = NoHost THEN NameLists ELSE {job[t].id[2]})
        /\ now + l \in {now + m : m \in Lifetimes}
    BY <1>1 DEF OfConfig, Jobs
  <1> QED BY <1>4, <1>5, <1>6 DEF Ledger!Deliverable

LEMMA IssueKeepsLedger ==
    ASSUME Inv, OriginInv, PastInv, NEW t \in Tasks, Issue(t)
    PROVE  [Ledger!Next]_(Ledger!vars)
  <1> USE DEF Goto
  <1>0. TypeInv /\ OneIssuerPerCert
    BY Exclusion DEF Inv
  <1>1. CASE AcquireCertLock(t) \/ LockGranted(t)
    <2>1. /\ Others(t) /\ UNCHANGED <<db, now>>
          /\ pc[t] \in {"map", "wait"} /\ pc'[t] \in {"wait", "recheck"}
      BY <1>0, <1>1 DEF AcquireCertLock, LockGranted, Others, TypeInv, TypeOK
    <2> QED BY <2>1, Unseen
  <1>2. CASE PoolTimeout(t) \/ IssueFails(t)
    <2>1. /\ Others(t) /\ UNCHANGED <<db, now>>
          /\ pc'[t] \in {"scan", "sweep", "idle"}
      BY <1>0, <1>2 DEF PoolTimeout, IssueFails, Return, Others, TypeInv, TypeOK
    <2>2. CASE PoolTimeout(t)
      BY <2>1, <2>2, Unseen DEF PoolTimeout
    <2>3. CASE IssueFails(t)
      BY <1>0, <2>1, <2>3, LosesOrder DEF IssueFails
    <2> QED BY <1>2, <2>2, <2>3
  <1>3. CASE RecheckHit(t)
    BY <1>0, <1>3, TakesRow DEF RecheckHit, IsFresh
  <1>4. CASE ReadBack(t)
    BY <1>0, <1>4, TakesRow DEF ReadBack
  <1>5. CASE ReadBackPanics(t)
    <2>1. /\ Others(t) /\ UNCHANGED <<db, now>>
          /\ pc[t] = "readback" /\ pc'[t] \in {"idle", "dead"}
      BY <1>0, <1>5 DEF ReadBackPanics, Unwind, Others, TypeInv, TypeOK
    <2> QED BY <2>1, Unseen
  <1>6. CASE RecheckMiss(t)
    <2>1. /\ Others(t) /\ UNCHANGED <<db, now>>
          /\ pc[t] = "recheck" /\ pc'[t] = "issuing" /\ job'[t] = job[t]
      BY <1>0, <1>6 DEF RecheckMiss, Others, TypeInv, TypeOK
    <2>2. /\ job[t].id \in CertIds /\ job[t].id \notin Ordered
          /\ Ordered' = Ordered \cup {job[t].id}
      BY <1>0, <2>1, OrderPlaced
    <2>3. Hand' = Hand
      BY <2>1, HandsKept
    <2>4. ~Ledger!IsFresh(db[job[t].id], now)
      BY <1>6, SameRules DEF RecheckMiss
    <2>5. Ledger!Place(job[t].id)
      BY <2>1, <2>2, <2>3, <2>4 DEF Ledger!Place
    <2> QED BY <2>2, <2>5, SameRules DEF Ledger!Next
  <1>7. CASE IssueSucceeds(t)
    <2>1. /\ Others(t) /\ UNCHANGED now
          /\ pc[t] = "issuing" /\ pc'[t] = "readback"
      BY <1>0, <1>7 DEF IssueSucceeds, Others, TypeInv, TypeOK
    <2>2. /\ job[t].id \in CertIds /\ job[t].id \in Ordered
          /\ Ordered' = Ordered \ {job[t].id}
      BY <1>0, <2>1, OrderGone
    <2>3. Hand' = Hand
      BY <2>1, HandsKept
    <2>4. \E l \in Lifetimes : db' = [db EXCEPT ![job[t].id] = NewRow(job[t], l)]
      BY <1>7 DEF IssueSucceeds
    <2>5. \E row \in Ledger!Deliverable(job[t].id) : db' = [db EXCEPT ![job[t].id] = row]
      BY <1>0, <2>1, <2>4, NewRowDeliverable
    <2>6. Ledger!Deliver(job[t].id)
      BY <2>1, <2>2, <2>3, <2>5 DEF Ledger!Deliver
    <2> QED BY <2>2, <2>6, SameRules DEF Ledger!Next
  <1> QED BY <1>1, <1>2, <1>3, <1>4, <1>5, <1>6, <1>7 DEF Issue

LEMMA HandleKeepsLedger ==
    ASSUME Inv, NEW h \in Handlers, Handle(h)
    PROVE  [Ledger!Next]_(Ledger!vars)
  <1> USE DEF Goto, Inv
  <1>0. h \in Tasks /\ epoch \in 1..Len(Deployments) /\ now \in Int
    BY DEF Tasks, TypeInv, TypeOK
  <1>1. ASSUME NEW s \in DOMAIN config.certs, NEW host \in Hosts, RequestMiss(h, s, host)
        PROVE  UNCHANGED Ledger!vars
    <2>1. /\ Others(h) /\ UNCHANGED <<db, now>> /\ pc[h] = "idle" /\ pc'[h] = "map"
      BY <1>0, <1>1 DEF RequestMiss, Call, Others, TypeInv, TypeOK
    <2> QED BY <1>0, <2>1, Unseen
  <1>2. ASSUME NEW s \in DOMAIN config.certs, NEW host \in Hosts, RequestHit(h, s, host)
        PROVE  Ledger!Next
    <2> DEFINE c == CertIdOf(config, s, host)
    <2>1. c \in CertIds
      BY <1>0, RequestJobType, NullAssumption DEF RequestJob, Jobs
    <2>2. /\ Others(h) /\ UNCHANGED <<db, now>> /\ pc[h] = "idle" /\ pc'[h] = "touch"
          /\ job'[h] = RequestJob(s, host) /\ cert'[h] = db[c]
      BY <1>0, <1>2 DEF RequestHit, Others, TypeInv, TypeOK
    <2>3. job'[h].id = c
      BY <2>2 DEF RequestJob
    <2>4. Hand[h] = <<>> /\ Hand' = [Hand EXCEPT ![h] = <<c, db[c]>>]
      BY <2>2, <2>3, HandFilled
    <2>5. Ordered' = Ordered
      BY <1>0, <2>2, OrdersKept
    <2>6. db[c] # NoRow
      BY <1>2 DEF RequestHit, Usable
    <2>7. Ledger!Take(h, c)
      BY <2>2, <2>4, <2>5, <2>6 DEF Ledger!Take
    <2> QED BY <2>1, <2>7, SameRules DEF Ledger!Next
  <1>3. CASE Answer(h)
    <2>1. /\ Others(h) /\ UNCHANGED now /\ pc[h] = "touch" /\ pc'[h] = "idle"
      BY <1>0, <1>3 DEF Answer, Others, TypeInv, TypeOK
    <2>2. /\ Hand[h] = <<job[h].id, cert[h]>> /\ Hand[h] # <<>>
          /\ Hand' = [Hand EXCEPT ![h] = <<>>]
      BY <2>1, HandEmptied
    <2>3. Ordered' = Ordered
      BY <1>0, <2>1, OrdersKept
    <2>4. Hand[h][1] = job[h].id
      BY <2>2
    <2>5. \/ db' = db
          \/ db[job[h].id] # NoRow /\ db' = [db EXCEPT ![job[h].id].requested = now]
      BY <1>3 DEF Answer, Touched
    <2>6. Ledger!Reply(h)
      BY <2>1, <2>2, <2>3, <2>4, <2>5 DEF Ledger!Reply
    <2> QED BY <2>6 DEF Ledger!Next
  <1> QED BY <1>1, <1>2, <1>3 DEF Handle

\* Deletions.
LEMMA RemovesRow ==
    ASSUME NEW c \in CertIds, db' = [db EXCEPT ![c] = NoRow], UNCHANGED now,
           Ordered' = Ordered, Hand' = Hand
    PROVE  Ledger!Next
  <1>1. Ledger!Remove(c)
    BY DEF Ledger!Remove
  <1> QED BY <1>1, SameRules DEF Ledger!Next

LEMMA StartupKeepsLedger ==
    ASSUME TypeInv, StartupStep
    PROVE  [Ledger!Next]_(Ledger!vars)
  <1> USE DEF Goto
  <1>0. Startup \in Tasks
    BY DEF Tasks
  <1>1. ASSUME NEW s \in Sources, StartupSkip(s) \/ StartupIssue(s) \/ StartupProviderChanged(s)
        PROVE  UNCHANGED Ledger!vars
    <2>1. /\ Others(Startup) /\ UNCHANGED <<db, now>>
          /\ pc[Startup] = "scan" /\ pc'[Startup] \in {"scan", "map", "drop"}
      BY <1>0, <1>1 DEF StartupSkip, StartupIssue, StartupProviderChanged, Call, Others,
                        TypeInv, TypeOK
    <2> QED BY <1>0, <2>1, Unseen
  <1>2. CASE StartupDone
    <2>1. /\ Others(Startup) /\ UNCHANGED <<db, now>>
          /\ pc[Startup] = "scan" /\ pc'[Startup] = "done"
      BY <1>0, <1>2 DEF StartupDone, Others, TypeInv, TypeOK
    <2> QED BY <1>0, <2>1, Unseen
  <1>3. CASE StartupDrop
    <2>1. /\ Others(Startup) /\ UNCHANGED now
          /\ pc[Startup] = "drop" /\ pc'[Startup] \in {"map", "scan"}
      BY <1>0, <1>3 DEF StartupDrop, Others, TypeInv, TypeOK
    <2>2. Ordered' = Ordered /\ Hand' = Hand
      BY <1>0, <2>1, OrdersKept, HandsKept
    <2>3. job[Startup].id \in CertIds /\ db' = [db EXCEPT ![job[Startup].id] = NoRow]
      BY <1>3 DEF StartupDrop, TypeInv, JobsInHand, Jobs
    <2> QED BY <2>1, <2>2, <2>3, RemovesRow
  <1> QED BY <1>1, <1>2, <1>3 DEF StartupStep

LEMMA CronKeepsLedger ==
    ASSUME TypeInv, CronStep
    PROVE  [Ledger!Next]_(Ledger!vars)
  <1> USE DEF Goto
  <1>0. Cron \in Tasks
    BY DEF Tasks
  <1>1. ASSUME NEW c \in CertIds, CronSkip(c) \/ CronRenew(c)
        PROVE  UNCHANGED Ledger!vars
    <2>1. /\ Others(Cron) /\ UNCHANGED <<db, now>>
          /\ pc[Cron] = "sweep" /\ pc'[Cron] \in {"sweep", "map"}
      BY <1>0, <1>1 DEF CronSkip, CronRenew, CronPick, Call, Others, TypeInv, TypeOK
    <2> QED BY <1>0, <2>1, Unseen
  <1>2. CASE CronTick \/ CronDone
    <2>1. /\ Others(Cron) /\ UNCHANGED <<db, now>>
          /\ pc[Cron] \in {"idle", "sweep"} /\ pc'[Cron] \in {"idle", "sweep"}
      BY <1>0, <1>2 DEF CronTick, CronDone, Others, TypeInv, TypeOK
    <2> QED BY <1>0, <2>1, Unseen
  <1>3. ASSUME NEW c \in CertIds, CronDelete(c)
        PROVE  Ledger!Next
    <2>1. Others(Cron) /\ pc[Cron] = "sweep" /\ pc'[Cron] = "sweep"
      BY <1>3 DEF CronDelete, CronPick, Others
    <2>2. Ordered' = Ordered /\ Hand' = Hand
      BY <1>0, <2>1, OrdersKept, HandsKept
    <2>3. db' = [db EXCEPT ![c] = NoRow] /\ UNCHANGED now
      BY <1>3 DEF CronDelete
    <2> QED BY <2>2, <2>3, RemovesRow
  <1> QED BY <1>1, <1>2, <1>3 DEF CronStep

LEMMA RestartKeepsLedger ==
    ASSUME Inv, OriginInv, Restart
    PROVE  Ledger!Next
  <1>1. Ordered' = {}
    BY DEF Restart, FirstPc, Ordered
  <1>2. Hand' = [h \in Handlers |-> <<>>]
    BY TaskAssumption DEF Restart, FirstPc, Hand, Tasks
  <1> DEFINE kept == DOMAIN config'.certs
  <1>3. kept \in SUBSET Sources
    <2>1. epoch' \in 1..Len(Deployments)
      BY DeploymentAssumption DEF Restart, Inv, TypeInv, TypeOK
    <2> QED BY <2>1, DeploymentAssumption DEF config, IsConfig
  <1>4. \A c \in CertIds :
          (IF db[c] # NoRow /\ db[c].source \notin kept THEN NoRow ELSE db[c])
            = (IF c[1] \in kept THEN db[c] ELSE NoRow)
    BY DEF OriginInv, RowsOfConfig, OfConfig
  <1>5. db' = [c \in CertIds |-> IF c[1] \in kept THEN db[c] ELSE NoRow]
    BY <1>4 DEF Restart, Cleanup
  <1>6. Ledger!Crash
    <2> HIDE DEF kept
    <2>1. \E k \in SUBSET Sources :
            db' = [c \in CertIds |-> IF c[1] \in k THEN db[c] ELSE NoRow]
      BY <1>3, <1>5
    <2> QED BY <1>1, <1>2, <2>1, SameRules DEF Ledger!Crash, Restart
  <1> QED BY <1>6 DEF Ledger!Next

LEMMA StepKeepsLedger ==
    Inv /\ OriginInv /\ PastInv /\ [Next]_vars => [Ledger!Next]_(Ledger!vars)
  <1> SUFFICES ASSUME Inv, OriginInv, PastInv, [Next]_vars
               PROVE  [Ledger!Next]_(Ledger!vars)
    OBVIOUS
  <1>0. TypeInv /\ OneIssuerPerCert
    BY Exclusion DEF Inv
  <1>1. ASSUME NEW t \in Tasks, DbPanic(t) PROVE [Ledger!Next]_(Ledger!vars)
    <2>1. /\ Others(t) /\ UNCHANGED <<db, now>> /\ pc'[t] \in {"idle", "dead"}
      BY <1>0, <1>1 DEF DbPanic, Unwind, Goto, Others, TypeInv, TypeOK
    <2>2. pc[t] # "touch"
      BY <1>1 DEF DbPanic, AtStatement, Locked
    <2>3. CASE pc[t] = "issuing"
      BY <1>0, <2>1, <2>3, LosesOrder
    <2>4. CASE pc[t] # "issuing"
      BY <2>1, <2>2, <2>4, Unseen
    <2> QED BY <2>3, <2>4
  <1>2. CASE Tick
    <2>1. UNCHANGED <<db, Ordered, Hand>> /\ now' = now + 1
      BY <1>2 DEF Tick, volatile, Ordered, Hand
    <2>2. Ledger!Pass
      BY <2>1 DEF Ledger!Pass
    <2> QED BY <2>2 DEF Ledger!Next
  <1>3. CASE UNCHANGED vars
    BY <1>3 DEF vars, Ledger!vars, Ordered, Hand
  <1> QED BY <1>0, <1>1, <1>2, <1>3, IssueKeepsLedger, HandleKeepsLedger, StartupKeepsLedger,
             CronKeepsLedger, RestartKeepsLedger DEF Next

\* The server keeps the promises of CertLedger, for any number of tasks and
\* certificates and whatever fails, dies or is configured anew: each of its
\* steps is a step of CertLedger or cannot be seen there.
THEOREM LedgerKept == Spec => KeepsLedger
  <1>1. Init => Ledger!Init
    <2> SUFFICES ASSUME Init PROVE Ledger!Init
      OBVIOUS
    <2>1. Ordered = {} /\ Hand = [h \in Handlers |-> <<>>]
      BY TaskAssumption DEF Init, FirstPc, Ordered, Hand, Tasks
    <2>2. db = [c \in CertIds |-> NoRow] /\ now = 0
      BY DEF Init, Empty
    <2> QED BY <2>1, <2>2, SameRules DEF Ledger!Init
  <1> QED BY <1>1, StepKeepsLedger, Invariance, OriginInvariant, PastInvariant, PTL
        DEF Spec, KeepsLedger, Ledger!Spec
=============================================================================
