------------------------------ MODULE CertServer ------------------------------
(***************************************************************************)
(* The certificate server: the `certificates` table, the per-certificate   *)
(* renewal locks, and the tasks that share them -- the startup check, the  *)
(* hourly maintenance job and the request handlers -- with process         *)
(* crashes, restarts under another configuration, failing providers and    *)
(* panicking tasks.                                                        *)
(*                                                                         *)
(* The runtime is multi-threaded, so an action is the code between two     *)
(* points where another task can be observed: an await, or a statement on  *)
(* the database.  Every call of issue_certificate_locked goes through      *)
(*                                                                         *)
(*   map      about to look its lock up in the map of locks                *)
(*   wait     queued on the certificate's lock                             *)
(*   recheck  lock held, about to re-read the row                          *)
(*   issuing  lock held, the provider is working                           *)
(*   readback lock held, row written, about to be read again               *)
(***************************************************************************)
EXTENDS CertRules, Sequences

CONSTANTS
    Startup, Cron,   \* the two background tasks
    Handlers,        \* the request handlers that can run at once
    NoTask, NoJob,
    Deployments,     \* the configurations of the successive server processes
    Lifetimes,       \* remaining lifetimes of the certificates providers return
    DbFaults,        \* may a database statement fail (and the task panic)?
    PoolFaults,      \* may the connection pool time out?
    MaxNow           \* bound on the clock

Tasks == Handlers \cup {Startup, Cron}

ASSUME TaskAssumption ==
    Startup # Cron /\ Startup \notin Handlers /\ Cron \notin Handlers /\ NoTask \notin Tasks
ASSUME DeploymentAssumption ==
    /\ Len(Deployments) \in Nat \ {0} /\ DOMAIN Deployments = 1..Len(Deployments)
    /\ \A n \in 1..Len(Deployments) : IsConfig(Deployments[n])
ASSUME LifetimeAssumption == Lifetimes \subseteq Int
ASSUME BoundAssumption == MaxNow \in Nat

VARIABLES
    epoch,      \* which server process this is: 1, 2, ... Len(Deployments)
    db,         \* the table: a row or NoRow for each certificate id
    now,        \* the clock
    locks,      \* RenewalLocks: for each id the lock in the map, named by the
                \* task that inserted it, or NoTask
    holder,     \* for each id and lock, the task that holds it, or NoTask
    pc,         \* where each task is
    job,        \* the arguments of its call of issue_certificate_locked
    mutex,      \* the lock it took from the map
    cert,       \* the certificate it has in hand: upserted, or to answer with
    scan,       \* configurations the startup check has yet to look at
    batch       \* rows the maintenance job has loaded and not yet looked at

volatile == <<locks, holder, pc, job, mutex, cert, scan, batch>>
vars == <<epoch, db, now, locks, holder, pc, job, mutex, cert, scan, batch>>

\* The configuration of the running process.
config == Deployments[epoch]

\* `since` is history: when the task took the decision to ask for this.
Jobs == [id : CertIds, source : Sources, provider : Providers, names : Names,
         requested : Int \cup {Unset}, since : Int]

Locked == {"recheck", "issuing", "readback"}
Stages == Locked \cup {"idle", "scan", "drop", "sweep", "map", "wait", "touch", "done", "dead"}

TypeOK ==
    /\ epoch \in 1..Len(Deployments)
    /\ db \in [CertIds -> Rows \cup {NoRow}]
    /\ now \in 0..MaxNow
    /\ locks \in [CertIds -> Tasks \cup {NoTask}]
    /\ holder \in [CertIds -> [Tasks -> Tasks \cup {NoTask}]]
    /\ pc \in [Tasks -> Stages]
    /\ job \in [Tasks -> Jobs \cup {NoJob}]
    /\ mutex \in [Tasks -> Tasks \cup {NoTask}]
    /\ cert \in [Tasks -> Rows \cup {NoRow}]
    /\ scan \subseteq Sources
    /\ batch \in [CertIds -> Rows \cup {NoRow}]

-----------------------------------------------------------------------------
(* Process start: empty locks, the startup check spawned with every named  *)
(* certificate before it, the maintenance job waiting for its first tick.  *)

FirstPc == [t \in Tasks |-> IF t = Startup THEN "scan" ELSE "idle"]
NoLocks == [c \in CertIds |-> NoTask]
NoHolders == [c \in CertIds |-> [k \in Tasks |-> NoTask]]
Empty == [c \in CertIds |-> NoRow]

Init ==
    /\ epoch = 1
    /\ db = Empty
    /\ now = 0
    /\ locks = NoLocks
    /\ holder = NoHolders
    /\ pc = FirstPc
    /\ job = [t \in Tasks |-> NoJob]
    /\ mutex = [t \in Tasks |-> NoTask]
    /\ cert = [t \in Tasks |-> NoRow]
    /\ scan = NamedSources(config)
    /\ batch = Empty

\* (Faulty variant: rows of removed configurations stay.)
CleanupNothing(k) == db

\* cert::cleanup_removed_certificates, before any task runs.
Cleanup(k) == [c \in CertIds |-> IF db[c] # NoRow /\ db[c].source \notin DOMAIN k.certs
                                   THEN NoRow ELSE db[c]]

\* The process dies at any point and comes back, perhaps with another
\* configuration: the table survives, everything in memory does not.
Restart ==
    /\ epoch < Len(Deployments)
    /\ epoch' = epoch + 1
    /\ db' = Cleanup(config')
    /\ locks' = NoLocks
    /\ holder' = NoHolders
    /\ pc' = FirstPc
    /\ job' = [t \in Tasks |-> NoJob]
    /\ mutex' = [t \in Tasks |-> NoTask]
    /\ cert' = [t \in Tasks |-> NoRow]
    /\ scan' = NamedSources(config')
    /\ batch' = Empty
    /\ UNCHANGED now

Tick == now < MaxNow /\ now' = now + 1 /\ UNCHANGED <<epoch, db, volatile>>

-----------------------------------------------------------------------------
(* issue_certificate_locked *)

Goto(t, stage) == pc' = [pc EXCEPT ![t] = stage]

\* Task t drops the guards it holds.
Release(t) == holder' = [c \in CertIds |->
    [k \in Tasks |-> IF holder[c][k] = t THEN NoTask ELSE holder[c][k]]]

\* Task t calls issue_certificate_locked with arguments j.
Call(t, j) ==
    /\ Goto(t, "map")
    /\ job' = [job EXCEPT ![t] = j]

\* The call ends: with Ok(row), or with an error when row = NoRow.  A handler
\* goes on to answer with the row, or answers 500; the background tasks only
\* log the outcome and turn to the next certificate.
Keeps(t, row) == t \in Handlers /\ row # NoRow

Return(t, row) ==
    /\ Release(t)
    /\ mutex' = [mutex EXCEPT ![t] = NoTask]
    /\ cert' = [cert EXCEPT ![t] = IF Keeps(t, row) THEN row ELSE NoRow]
    /\ job' = [job EXCEPT ![t] = IF Keeps(t, row) THEN @ ELSE NoJob]
    /\ Goto(t, IF t = Startup THEN "scan"
               ELSE IF t = Cron THEN "sweep"
               ELSE IF row = NoRow THEN "idle" ELSE "touch")
    /\ UNCHANGED <<epoch, now, locks, scan, batch>>

\* A panic unwinds the task and drops its guards.  The web framework turns a
\* handler's panic into a 500; a background task is gone until the restart.
Unwind(t) ==
    /\ Release(t)
    /\ mutex' = [mutex EXCEPT ![t] = NoTask]
    /\ cert' = [cert EXCEPT ![t] = NoRow]
    /\ job' = [job EXCEPT ![t] = NoJob]
    /\ Goto(t, IF t \in Handlers THEN "idle" ELSE "dead")
    /\ scan' = IF t = Startup THEN {} ELSE scan
    /\ batch' = IF t = Cron THEN Empty ELSE batch
    /\ UNCHANGED <<epoch, db, now, locks>>

\* (Faulty variant: inserts without looking.)
AcquireNewLock(t) ==
    /\ pc[t] = "map"
    /\ locks' = [locks EXCEPT ![job[t].id] = t]
    /\ mutex' = [mutex EXCEPT ![t] = t]
    /\ Goto(t, "wait")
    /\ UNCHANGED <<epoch, db, now, holder, job, cert, scan, batch>>

\* acquire_cert_lock: find or insert, atomic under the outer mutex.
AcquireCertLock(t) ==
    /\ pc[t] = "map"
    /\ LET c == job[t].id
           k == IF locks[c] = NoTask THEN t ELSE locks[c]
       IN /\ locks' = [locks EXCEPT ![c] = k]
          /\ mutex' = [mutex EXCEPT ![t] = k]
    /\ Goto(t, "wait")
    /\ UNCHANGED <<epoch, db, now, holder, job, cert, scan, batch>>

\* cert_lock.lock().await is granted.
LockGranted(t) ==
    /\ pc[t] = "wait"
    /\ holder[job[t].id][mutex[t]] = NoTask
    /\ holder' = [holder EXCEPT ![job[t].id][mutex[t]] = t]
    /\ Goto(t, "recheck")
    /\ UNCHANGED <<epoch, db, now, locks, job, mutex, cert, scan, batch>>

\* No second connection within the pool's timeout.
PoolTimeout(t) == PoolFaults /\ pc[t] = "recheck" /\ Return(t, NoRow) /\ UNCHANGED db

\* The row was made fresh while this task waited: that row is the result.
RecheckHit(t) ==
    /\ pc[t] = "recheck"
    /\ IsFresh(db[job[t].id], now)
    /\ Return(t, db[job[t].id])
    /\ UNCHANGED db

\* (Faulty variant: does not look at the row again.)
RecheckMissBlind(t) ==
    /\ pc[t] = "recheck"
    /\ Goto(t, "issuing")
    /\ UNCHANGED <<epoch, db, now, locks, holder, job, mutex, cert, scan, batch>>

RecheckMiss(t) ==
    /\ pc[t] = "recheck"
    /\ ~IsFresh(db[job[t].id], now)
    /\ Goto(t, "issuing")
    /\ UNCHANGED <<epoch, db, now, locks, holder, job, mutex, cert, scan, batch>>

\* (Faulty variant: the lock is not released on an error.)
IssueFailsHolding(t) ==
    /\ pc[t] = "issuing"
    /\ mutex' = [mutex EXCEPT ![t] = NoTask]
    /\ job' = [job EXCEPT ![t] = NoJob]
    /\ Goto(t, IF t = Startup THEN "scan" ELSE IF t = Cron THEN "sweep" ELSE "idle")
    /\ UNCHANGED <<epoch, db, now, locks, holder, cert, scan, batch>>

IssueFails(t) == pc[t] = "issuing" /\ Return(t, NoRow) /\ UNCHANGED db

\* (Faulty variant: requested_at not defaulted.)
NewRowUnset(j, l) ==
    [source |-> j.source, provider |-> j.provider, names |-> j.names, expires |-> now + l,
     requested |-> j.requested]

\* The row written for job j when the provider's certificate lives for l.
NewRow(j, l) ==
    [source |-> j.source, provider |-> j.provider, names |-> j.names, expires |-> now + l,
     requested |-> IF j.requested = Unset THEN now ELSE j.requested]

\* (Faulty variant: the lock is given up once the provider is done.)
IssueSucceedsUnlocked(t) ==
    /\ pc[t] = "issuing"
    /\ \E l \in Lifetimes :
         /\ db' = [db EXCEPT ![job[t].id] = NewRow(job[t], l)]
         /\ cert' = [cert EXCEPT ![t] = NewRow(job[t], l)]
    /\ Release(t)
    /\ Goto(t, "readback")
    /\ UNCHANGED <<epoch, now, locks, job, mutex, scan, batch>>

\* The provider returns a certificate and it is upserted.
IssueSucceeds(t) ==
    /\ pc[t] = "issuing"
    /\ \E l \in Lifetimes :
         /\ db' = [db EXCEPT ![job[t].id] = NewRow(job[t], l)]
         /\ cert' = [cert EXCEPT ![t] = NewRow(job[t], l)]
    /\ Goto(t, "readback")
    /\ UNCHANGED <<epoch, now, locks, holder, job, mutex, scan, batch>>

\* get_certificate(..).unwrap(): the row as it is now is the result.
ReadBack(t) ==
    /\ pc[t] = "readback"
    /\ db[job[t].id] # NoRow
    /\ Return(t, db[job[t].id])
    /\ UNCHANGED db

\* The row is gone again: unwrap() panics.
ReadBackPanics(t) == pc[t] = "readback" /\ db[job[t].id] = NoRow /\ Unwind(t)

-----------------------------------------------------------------------------
(* Request handlers: GET /certificate/<name>.  Requests turned away before *)
(* the table is read, or for want of a provider or a connection, change    *)
(* nothing and are left out.                                               *)

\* (Faulty variant: an issuance on request starts with a time of request of 0.)
RequestJobForgetful(s, host) ==
    [id |-> CertIdOf(config, s, host), source |-> s, provider |-> config.certs[s].provider,
     names |-> NamesOf(config, s, host), requested |-> 0, since |-> now]

\* The call that a request for `host`, served by configuration s, makes.
RequestJob(s, host) ==
    [id |-> CertIdOf(config, s, host), source |-> s, provider |-> config.certs[s].provider,
     names |-> NamesOf(config, s, host), requested |-> Unset, since |-> now]

\* (Faulty variant: any stored row will do.)
UsableStored(row) == row # NoRow

\* A handler may use the stored row: it is there and has not expired.
Usable(row) == row # NoRow /\ ~IsExpired(row, now)

RequestHit(h, s, host) ==
    /\ pc[h] = "idle"
    /\ Usable(db[CertIdOf(config, s, host)])
    /\ job' = [job EXCEPT ![h] = RequestJob(s, host)]
    /\ cert' = [cert EXCEPT ![h] = db[CertIdOf(config, s, host)]]
    /\ Goto(h, "touch")
    /\ UNCHANGED <<epoch, db, now, locks, holder, mutex, scan, batch>>

RequestMiss(h, s, host) ==
    /\ pc[h] = "idle"
    /\ ~Usable(db[CertIdOf(config, s, host)])
    /\ config.certs[s].provider \in config.providers
    /\ Call(h, RequestJob(s, host))
    /\ UNCHANGED <<epoch, db, now, locks, holder, mutex, cert, scan, batch>>

\* update_requested_at (which writes no row that is gone, and whose failure
\* is only logged), then the response with the certificate in hand.
Touched(c) == IF db[c] = NoRow THEN db ELSE [db EXCEPT ![c].requested = now]

Answer(h) ==
    /\ pc[h] = "touch"
    /\ db' = Touched(job[h].id) \/ (DbFaults /\ db' = db)
    /\ Goto(h, "idle")
    /\ job' = [job EXCEPT ![h] = NoJob]
    /\ cert' = [cert EXCEPT ![h] = NoRow]
    /\ UNCHANGED <<epoch, now, locks, holder, mutex, scan, batch>>

-----------------------------------------------------------------------------
(* The startup check: check_and_issue_certificates *)

StartupJob(s) == RequestJob(s, NoHost)

Reason(s) == IssuanceReason(db[NamedId(s)], config.certs[s], now)

\* The entry needs nothing, needs a provider that is not defined, or there
\* was no connection to look at it.
StartupSkip(s) ==
    /\ pc[Startup] = "scan" /\ s \in scan
    /\ \/ Reason(s) = "None"
       \/ Reason(s) # "ProviderChanged" /\ config.certs[s].provider \notin config.providers
       \/ PoolFaults
    /\ scan' = scan \ {s}
    /\ UNCHANGED <<epoch, db, now, locks, holder, pc, job, mutex, cert, batch>>

StartupIssue(s) ==
    /\ pc[Startup] = "scan" /\ s \in scan
    /\ Reason(s) \notin {"None", "ProviderChanged"}
    /\ config.certs[s].provider \in config.providers
    /\ scan' = scan \ {s}
    /\ Call(Startup, StartupJob(s))
    /\ UNCHANGED <<epoch, db, now, locks, holder, mutex, cert, batch>>

\* The provider changed: the decision is taken on the row just read ...
StartupProviderChanged(s) ==
    /\ pc[Startup] = "scan" /\ s \in scan
    /\ Reason(s) = "ProviderChanged"
    /\ scan' = scan \ {s}
    /\ job' = [job EXCEPT ![Startup] = StartupJob(s)]
    /\ Goto(Startup, "drop")
    /\ UNCHANGED <<epoch, db, now, locks, holder, mutex, cert, batch>>

\* ... and the row deleted by a later statement, without the lock.
StartupDrop ==
    /\ pc[Startup] = "drop"
    /\ db' = [db EXCEPT ![job[Startup].id] = NoRow]
    /\ IF job[Startup].provider \in config.providers
         THEN Goto(Startup, "map") /\ UNCHANGED job
         ELSE Goto(Startup, "scan") /\ job' = [job EXCEPT ![Startup] = NoJob]
    /\ UNCHANGED <<epoch, now, locks, holder, mutex, cert, scan, batch>>

StartupDone ==
    /\ pc[Startup] = "scan" /\ scan = {}
    /\ Goto(Startup, "done")
    /\ UNCHANGED <<epoch, db, now, locks, holder, job, mutex, cert, scan, batch>>

-----------------------------------------------------------------------------
(* The maintenance job: run_cron.  Every decision on a row is taken on the *)
(* copy loaded when the run began.                                         *)

CronTick ==
    /\ pc[Cron] = "idle"
    /\ batch' = db
    /\ Goto(Cron, "sweep")
    /\ UNCHANGED <<epoch, db, now, locks, holder, job, mutex, cert, scan>>

\* The run turns to the loaded row c.
CronPick(c) ==
    /\ pc[Cron] = "sweep"
    /\ batch[c] # NoRow
    /\ batch' = [batch EXCEPT ![c] = NoRow]

CronDelete(c) ==
    /\ CronPick(c)
    /\ NeedsDeletion(c, batch[c], config, now)
    /\ db' = [db EXCEPT ![c] = NoRow]
    /\ UNCHANGED <<epoch, now, locks, holder, pc, job, mutex, cert, scan>>

\* (Faulty variant: passes over whatever has not expired.)
CronSkipUnexpired(c) ==
    /\ CronPick(c)
    /\ ~NeedsDeletion(c, batch[c], config, now)
    /\ ~IsExpired(batch[c], now)
    /\ UNCHANGED <<epoch, db, now, locks, holder, pc, job, mutex, cert, scan>>

CronSkip(c) ==
    /\ CronPick(c)
    /\ ~NeedsDeletion(c, batch[c], config, now)
    /\ ~NeedsRenewal(batch[c], now)
    /\ UNCHANGED <<epoch, db, now, locks, holder, pc, job, mutex, cert, scan>>

\* Renewed with the provider, names and requested_at of the loaded row.
CronJob(c) ==
    [id |-> c, source |-> batch[c].source, provider |-> batch[c].provider,
     names |-> batch[c].names, requested |-> batch[c].requested, since |-> now]

CronRenew(c) ==
    /\ CronPick(c)
    /\ ~NeedsDeletion(c, batch[c], config, now)
    /\ NeedsRenewal(batch[c], now)
    /\ Call(Cron, CronJob(c))
    /\ UNCHANGED <<epoch, db, now, locks, holder, mutex, cert, scan>>

CronDone ==
    /\ pc[Cron] = "sweep" /\ batch = Empty
    /\ Goto(Cron, "idle")
    /\ UNCHANGED <<epoch, db, now, locks, holder, job, mutex, cert, scan, batch>>

-----------------------------------------------------------------------------
\* Task t is about to execute a statement whose failure is a panic (.expect
\* in repository.rs); a handler's first read is left out, it loses nothing.
AtStatement(t) ==
    \/ pc[t] \in Locked \cup {"drop"}
    \/ pc[t] = "scan" /\ scan # {}
    \/ pc[t] = "idle" /\ t = Cron
    \/ pc[t] = "sweep" /\ \E c \in CertIds :
         batch[c] # NoRow /\ NeedsDeletion(c, batch[c], config, now)

DbPanic(t) == DbFaults /\ AtStatement(t) /\ Unwind(t)

Issue(t) ==
    \/ AcquireCertLock(t) \/ LockGranted(t) \/ PoolTimeout(t)
    \/ RecheckHit(t) \/ RecheckMiss(t)
    \/ IssueFails(t) \/ IssueSucceeds(t)
    \/ ReadBack(t) \/ ReadBackPanics(t)

Handle(h) ==
    \/ \E s \in DOMAIN config.certs, host \in Hosts : RequestHit(h, s, host) \/ RequestMiss(h, s, host)
    \/ Answer(h)

StartupStep ==
    \/ \E s \in Sources : StartupSkip(s) \/ StartupIssue(s) \/ StartupProviderChanged(s)
    \/ StartupDrop \/ StartupDone

CronStep ==
    \/ \E c \in CertIds : CronDelete(c) \/ CronSkip(c) \/ CronRenew(c)
    \/ CronTick \/ CronDone

Next ==
    \/ \E t \in Tasks : Issue(t) \/ DbPanic(t)
    \/ \E h \in Handlers : Handle(h)
    \/ StartupStep
    \/ CronStep
    \/ Tick
    \/ Restart

Spec == Init /\ [][Next]_vars

(* Every task is scheduled and every provider call comes back, as no code   *)
(* bounds either.  Waiters of a tokio mutex are served first come first     *)
(* served: nobody is passed over for ever (SF).  A provider asked for the   *)
(* same certificate over and over succeeds some time (SF).  Nothing makes   *)
(* requests arrive, time pass or the process restart.                       *)
Fairness ==
    /\ \A t \in Tasks : WF_vars(Issue(t)) /\ SF_vars(LockGranted(t))
    /\ \A c \in CertIds : SF_vars(\E t \in Tasks : IssueSucceeds(t) /\ job[t].id = c)
    /\ \A h \in Handlers : WF_vars(Answer(h))
    /\ WF_vars(StartupStep)
    /\ WF_vars(CronStep)

FairSpec == Spec /\ Fairness

-----------------------------------------------------------------------------
(* Safety *)

\* At most one task at a time is inside the locked part of
\* issue_certificate_locked for a given certificate: the lock found in the
\* map is the same for every task, whichever of them inserted it.
OneIssuerPerCert == \A t, u \in Tasks :
    pc[t] \in Locked /\ pc[u] \in Locked /\ job[t].id = job[u].id => t = u

\* A held lock has a holder that is inside the locked part for that very
\* certificate: no return, error, timeout or panic leaves a lock behind, so
\* one failed issuance never blocks the next.
NoLeakedLock == \A c \in CertIds, k \in Tasks : holder[c][k] # NoTask =>
    LET t == holder[c][k]
    IN pc[t] \in Locked /\ job[t].id = c /\ mutex[t] = k

\* While a provider works on a certificate the table holds no fresh row for
\* it: whatever the other tasks did since the row was re-read, nobody asks
\* the certificate authority for a certificate the server already has.
NoRedundantIssuance == \A t \in Tasks :
    pc[t] = "issuing" => ~IsFresh(db[job[t].id], now)

\* What a task reads back after its upsert is the certificate its provider
\* returned, never one that another task stored in between.
ReadBackOwn == \A t \in Tasks :
    pc[t] = "readback" /\ db[job[t].id] # NoRow => SameCert(db[job[t].id], cert[t])

\* A fresh row is deleted or touched, never replaced: as long as it is in
\* the table every client gets the same certificate and key.
FreshCertKept == [][\A c \in CertIds :
    IsFresh(db[c], now) /\ db'[c] # NoRow => SameCert(db[c], db'[c])]_vars

\* Every row comes from a configuration of the running process: the cleanup
\* at start removes the others and no task, working on copies of rows,
\* brings one back.  (check_needs_deletion's last reason never applies.)
NoOrphanRow == \A c \in CertIds :
    db[c] # NoRow => db[c].source \in DOMAIN config.certs

\* A call in progress is for a provider the running configuration defines:
\* the maintenance job, which takes the provider from its copy of the row,
\* always finds it (providers.get(..).unwrap() in run_cron never panics).
ProviderDefined == \A t \in Tasks :
    pc[t] \in Locked \cup {"map", "wait"} => job[t].provider \in config.providers

\* A row is what its id says: issued for that source and, on demand, for
\* that host alone -- also after the maintenance job rewrote it from a copy.
RowMatchesId == \A c \in CertIds : db[c] # NoRow =>
    /\ db[c].source = c[1]
    /\ db[c].names \in (IF c[2] = NoHost THEN NameLists ELSE {c[2]})

\* The certificate a handler answers with had not expired when the request
\* came in, be it the stored row, one found after waiting for the lock, or a
\* new one (providers that hand out expired files excepted: Lifetimes).
AnswerWasValid == \A h \in Handlers :
    pc[h] = "touch" => cert[h].expires > job[h].since

\* The time of the last request of a stored certificate goes back only when
\* the maintenance job stores a renewal of that very certificate (with the
\* requested_at of its copy): nobody else makes a used certificate look
\* unused, which after 60 days is a reason to delete it.
RequestsRemembered == [][\A c \in CertIds :
    db[c] # NoRow /\ db'[c] # NoRow /\ db'[c].requested < db[c].requested
      => pc[Cron] = "issuing" /\ pc'[Cron] = "readback" /\ job[Cron].id = c]_vars

-----------------------------------------------------------------------------
(* The server implements CertLedger: what its tasks do to locks and to     *)
(* their own variables is invisible there.                                 *)

Ordered == {c \in CertIds : \E t \in Tasks : pc[t] = "issuing" /\ job[t].id = c}

Hand == [h \in Handlers |->
    IF pc[h] = "touch" THEN <<job[h].id, cert[h]>> ELSE <<>>]

Ledger == INSTANCE CertLedger WITH table <- db, clock <- now, orders <- Ordered, hand <- Hand

\* Locks, tasks, crashes and restarts together keep the promises of
\* CertLedger: one order at a time and none without need, nothing stored but
\* what an order delivers, answers that the table held at one moment.
KeepsLedger == Ledger!Spec

-----------------------------------------------------------------------------
(* Liveness, under FairSpec *)

\* Every accepted request is answered: waiting for a lock that others hold,
\* error paths and failing providers included.
RequestsAnswered == \A h \in Handlers : pc[h] # "idle" ~> pc[h] = "idle"

\* A row that is due for renewal does not stay so: the maintenance job (or a
\* request, once it has expired) replaces it, or it is deleted -- as long as
\* the maintenance task has not been killed by a panic (ReadBackFindsRow).
DueRowsRenewed == \A c \in CertIds :
    db[c] # NoRow /\ ~IsFresh(db[c], now)
      ~> db[c] = NoRow \/ IsFresh(db[c], now) \/ pc[Cron] = "dead"

\* Rows of providers that the running configuration no longer defines do
\* not stay in the table, on the same condition.
ForeignRowsRemoved == \A c \in CertIds :
    db[c] # NoRow /\ db[c].provider \notin config.providers
      ~> db[c] = NoRow \/ db[c].provider \in config.providers \/ pc[Cron] = "dead"

-----------------------------------------------------------------------------
(* What the comments and assertions of the code say and its steps do not    *)
(* keep: each of these is refuted by a run.                                 *)

\* The unwrap() after the upsert in issue_certificate: the row just written
\* is still there.  (The maintenance job and the startup check delete rows
\* without taking the certificate's lock.)
ReadBackFindsRow == \A t \in Tasks : pc[t] = "readback" => db[job[t].id] # NoRow

\* The maintenance job removes a row for one of the reasons of
\* DeletionReason: it is not requested any more, or not configured.  (The
\* reason is looked for in the copy loaded when the run began.)
SweepDeletesDeletable == [][\A c \in CertIds :
    /\ pc[Cron] = "sweep" /\ pc'[Cron] = "sweep" /\ batch'[c] # batch[c]
    /\ db[c] # NoRow /\ db'[c] = NoRow
    => NeedsDeletion(c, db[c], config, now)]_vars

\* A row that settles a call of issue_certificate_locked is what the call
\* asked for, so that changed names and a changed provider are reasons to
\* issue (NamesChanged, ProviderChanged).  (The second look under the lock
\* asks only whether the row is due.)
SettledAsAsked == \A t \in Tasks :
    pc[t] = "recheck" /\ IsFresh(db[job[t].id], now) =>
      /\ db[job[t].id].names = job[t].names
      /\ db[job[t].id].provider = job[t].provider

\* Every certificate with explicit names whose provider is defined ends up
\* in the table.  (The one attempt is made at start, and the maintenance job
\* only renews what is there.)
NamedCertsAcquired == \A s \in Sources :
    <>[](s \in NamedSources(config) /\ config.certs[s].provider \in config.providers
           => db[NamedId(s)] # NoRow)
=============================================================================
