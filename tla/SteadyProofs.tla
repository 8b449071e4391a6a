----------------------------- MODULE SteadyProofs -----------------------------
(***************************************************************************)
(* Proofs about CertServer under an unchanging configuration: processes    *)
(* may crash and start again, providers, statements and the pool may fail, *)
(* but every process has the same configuration.  Then rows, the copies of *)
(* the maintenance job and the calls in progress all say what the          *)
(* configuration says, and what runs refute in general holds, or nearly:   *)
(* a call is settled by what it asked for; the row of a certificate with   *)
(* names stays, and the unwrap() after its upsert finds it; the background *)
(* tasks survive; and the maintenance job deletes a row without a reason   *)
(* only when it was requested since the run began.                         *)
(***************************************************************************)
EXTENDS CertServerProofs

\* Every process runs with the same configuration.
Steady == \A n \in 1..Len(Deployments) : Deployments[n] = Deployments[1]

\* r, a row or a job, is what the configuration says of id c.
AsConfigured(c, r) ==
    /\ c[1] \in DOMAIN config.certs
    /\ c[2] = NoHost <=> c[1] \in NamedSources(config)
    /\ r.provider = config.certs[c[1]].provider
    /\ r.names = NamesOf(config, c[1], c[2])

SteadyInv ==
    /\ \A c \in CertIds : db[c] # NoRow => AsConfigured(c, db[c])
    /\ \A c \in CertIds : batch[c] # NoRow => AsConfigured(c, batch[c])
    /\ \A t \in Tasks : pc[t] \in InCall => AsConfigured(job[t].id, job[t])
    /\ pc[Startup] # "drop"
    /\ pc[Startup] \in InCall => job[Startup].id[2] = NoHost

-----------------------------------------------------------------------------
(* Lemmas about single steps, whatever the configurations *)

\* Who removes a row: the startup check after a change of provider, the
\* maintenance job, and the cleanup at start.
LEMMA RowRemoved ==
    ASSUME TypeInv, [Next]_vars, NEW c \in CertIds, db[c] # NoRow, db'[c] = NoRow
    PROVE  \/ pc[Startup] = "drop" /\ job[Startup].id = c
           \/ CronDelete(c)
           \/ Restart /\ db[c].source \notin DOMAIN config'.certs
  <1>1. ASSUME NEW t \in Tasks, Issue(t) PROVE FALSE
    <2>1. CASE IssueSucceeds(t)
      <3>1. pc[t] = "issuing" /\ job[t] \in Jobs /\ job[t].id \in CertIds /\ now \in Int
        BY <2>1, JobOfLocked DEF IssueSucceeds, Locked, TypeInv, TypeOK
      <3>2. PICK l \in Lifetimes : db' = [db EXCEPT ![job[t].id] = NewRow(job[t], l)]
        BY <2>1 DEF IssueSucceeds
      <3>3. NewRow(job[t], l) # NoRow
        BY <3>1, NewRowType
      <3> QED BY <3>1, <3>2, <3>3 DEF TypeInv, TypeOK
    <2>2. CASE ~IssueSucceeds(t)
      BY <1>1, <2>2
      DEF Issue, AcquireCertLock, LockGranted, PoolTimeout, RecheckHit, RecheckMiss, IssueFails,
          ReadBack, ReadBackPanics, Unwind
    <2> QED BY <2>1, <2>2
  <1>2. ASSUME NEW t \in Tasks, DbPanic(t) PROVE FALSE
    BY <1>2 DEF DbPanic, Unwind
  <1>3. ASSUME NEW h \in Handlers, Handle(h) PROVE FALSE
    <2>1. CASE Answer(h)
      <3>1. db' = db \/ db' = [db EXCEPT ![job[h].id].requested = now]
        BY <2>1 DEF Answer, Touched
      <3>2. db'[c] = db[c] \/ db'[c] = [db[c] EXCEPT !.requested = now]
        BY <3>1 DEF TypeInv, TypeOK
      <3>3. db[c] \in Rows /\ now \in Int
        BY DEF TypeInv, TypeOK
      <3>4. [db[c] EXCEPT !.requested = now] \in Rows
        BY <3>3 DEF Rows
      <3> QED BY <3>2, <3>4, NoRowAssumption
    <2>2. CASE ~Answer(h)
      BY <1>3, <2>2 DEF Handle, RequestHit, RequestMiss
    <2> QED BY <2>1, <2>2
  <1>4. CASE StartupStep
    BY <1>4
    DEF StartupStep, StartupSkip, StartupIssue, StartupProviderChanged, StartupDrop, StartupDone,
        TypeInv, TypeOK
  <1>5. CASE CronStep
    BY <1>5 DEF CronStep, CronDelete, CronSkip, CronRenew, CronTick, CronDone, TypeInv, TypeOK
  <1>6. CASE Tick \/ UNCHANGED vars
    BY <1>6 DEF Tick, vars
  <1>7. CASE Restart
    BY <1>7 DEF Restart, Cleanup
  <1> QED BY <1>1, <1>2, <1>3, <1>4, <1>5, <1>6, <1>7 DEF Next

\* Where the arguments of a call come from.
LEMMA CallBegins ==
    ASSUME TypeInv, Next, ~Restart, NEW u \in Tasks, pc'[u] \in InCall
    PROVE  \/ pc[u] \in InCall /\ job'[u] = job[u]
           \/ pc[Startup] = "drop"
           \/ u \in Handlers /\ \E s \in DOMAIN config.certs, host \in Hosts :
                                 job'[u] = RequestJob(s, host)
           \/ u = Startup /\ \E s \in scan : job'[u] = StartupJob(s)
           \/ u = Cron /\ \E c \in CertIds : batch[c] # NoRow /\ job'[u] = CronJob(c)
  <1> DEFINE Begins ==
        \/ pc[u] \in InCall /\ job'[u] = job[u]
        \/ pc[Startup] = "drop"
        \/ u \in Handlers /\ \E s \in DOMAIN config.certs, host \in Hosts :
                              job'[u] = RequestJob(s, host)
        \/ u = Startup /\ \E s \in scan : job'[u] = StartupJob(s)
        \/ u = Cron /\ \E c \in CertIds : batch[c] # NoRow /\ job'[u] = CronJob(c)
  <1> SUFFICES Begins
    OBVIOUS
  <1> USE DEF Goto, InCall, Locked
  <1>1. ASSUME NEW t \in Tasks, Issue(t) PROVE Begins
    <2>1. CASE u # t
      BY <1>1, <2>1
      DEF Issue, AcquireCertLock, LockGranted, PoolTimeout, RecheckHit, RecheckMiss, IssueFails,
          IssueSucceeds, ReadBack, ReadBackPanics, Return, Unwind, TypeInv, TypeOK
    <2>2. CASE u = t
      BY <1>1, <2>2
      DEF Issue, AcquireCertLock, LockGranted, PoolTimeout, RecheckHit, RecheckMiss, IssueFails,
          IssueSucceeds, ReadBack, ReadBackPanics, Return, Unwind, TypeInv, TypeOK
    <2> QED BY <2>1, <2>2
  <1>2. ASSUME NEW t \in Tasks, DbPanic(t) PROVE Begins
    BY <1>2 DEF DbPanic, Unwind, TypeInv, TypeOK
  <1>3. ASSUME NEW h \in Handlers, Handle(h) PROVE Begins
    <2>0. h \in Tasks
      BY DEF Tasks
    <2>1. ASSUME NEW s \in DOMAIN config.certs, NEW host \in Hosts, RequestMiss(h, s, host)
          PROVE  Begins
      <3>1. CASE u = h
        BY <2>0, <2>1, <3>1 DEF RequestMiss, Call, TypeInv, TypeOK
      <3>2. CASE u # h
        BY <2>0, <2>1, <3>2 DEF RequestMiss, Call, TypeInv, TypeOK
      <3> QED BY <3>1, <3>2
    <2>2. CASE \A s \in DOMAIN config.certs, host \in Hosts : ~RequestMiss(h, s, host)
      BY <1>3, <2>0, <2>2 DEF Handle, RequestHit, Answer, TypeInv, TypeOK
    <2> QED BY <2>1, <2>2
  <1>4. CASE StartupStep
    <2>0. Startup \in Tasks
      BY DEF Tasks
    <2>1. ASSUME NEW s \in Sources, StartupIssue(s) PROVE Begins
      <3>1. CASE u = Startup
        BY <2>0, <2>1, <3>1 DEF StartupIssue, Call, TypeInv, TypeOK
      <3>2. CASE u # Startup
        BY <2>0, <2>1, <3>2 DEF StartupIssue, Call, TypeInv, TypeOK
      <3> QED BY <3>1, <3>2
    <2>2. CASE \A s \in Sources : ~StartupIssue(s)
      BY <1>4, <2>0, <2>2
      DEF StartupStep, StartupSkip, StartupProviderChanged, StartupDrop, StartupDone,
          TypeInv, TypeOK
    <2> QED BY <2>1, <2>2
  <1>5. CASE CronStep
    <2>0. Cron \in Tasks
      BY DEF Tasks
    <2>1. ASSUME NEW c \in CertIds, CronRenew(c) PROVE Begins
      <3>1. CASE u = Cron
        BY <2>0, <2>1, <3>1 DEF CronRenew, CronPick, Call, TypeInv, TypeOK
      <3>2. CASE u # Cron
        BY <2>0, <2>1, <3>2 DEF CronRenew, Call, TypeInv, TypeOK
      <3> QED BY <3>1, <3>2
    <2>2. CASE \A c \in CertIds : ~CronRenew(c)
      BY <1>5, <2>0, <2>2 DEF CronStep, CronDelete, CronSkip, CronTick, CronDone, TypeInv, TypeOK
    <2> QED BY <2>1, <2>2
  <1>6. CASE Tick
    BY <1>6 DEF Tick, volatile
  <1> QED BY <1>1, <1>2, <1>3, <1>4, <1>5, <1>6 DEF Next

\* The startup check is about to delete a row only if it read another
\* provider there.
LEMMA DropBegins ==
    ASSUME TypeInv, Next, ~Restart, pc'[Startup] = "drop"
    PROVE  pc[Startup] = "drop" \/ \E s \in scan : Reason(s) = "ProviderChanged"
  <1> DEFINE Begins == pc[Startup] = "drop" \/ \E s \in scan : Reason(s) = "ProviderChanged"
  <1> USE DEF Goto
  <1>0. Startup \in Tasks /\ Cron \in Tasks /\ Handlers \subseteq Tasks
        /\ Startup # Cron /\ Startup \notin Handlers
    BY TaskAssumption DEF Tasks
  <1>1. ASSUME NEW t \in Tasks, Issue(t) PROVE Begins
    BY <1>0, <1>1
    DEF Issue, AcquireCertLock, LockGranted, PoolTimeout, RecheckHit, RecheckMiss, IssueFails,
        IssueSucceeds, ReadBack, ReadBackPanics, Return, Unwind, TypeInv, TypeOK
  <1>2. ASSUME NEW t \in Tasks, DbPanic(t) PROVE Begins
    BY <1>0, <1>2 DEF DbPanic, Unwind, TypeInv, TypeOK
  <1>3. ASSUME NEW h \in Handlers, Handle(h) PROVE Begins
    BY <1>0, <1>3 DEF Handle, RequestHit, RequestMiss, Answer, Call, TypeInv, TypeOK
  <1>4. CASE StartupStep
    BY <1>0, <1>4
    DEF StartupStep, StartupSkip, StartupIssue, StartupProviderChanged, StartupDrop, StartupDone,
        Call, TypeInv, TypeOK
  <1>5. CASE CronStep
    BY <1>0, <1>5
    DEF CronStep, CronDelete, CronSkip, CronRenew, CronTick, CronDone, Call, TypeInv, TypeOK
  <1>6. CASE Tick
    BY <1>6 DEF Tick, volatile
  <1> QED BY <1>1, <1>2, <1>3, <1>4, <1>5, <1>6 DEF Next

-----------------------------------------------------------------------------
(* The invariant *)

\* The calls of handlers and of the startup check are as configured.
LEMMA RequestAsConfigured ==
    ASSUME epoch \in 1..Len(Deployments),
           NEW s \in DOMAIN config.certs, NEW host \in Hosts \cup {NoHost},
           host = NoHost => s \in NamedSources(config)
    PROVE  AsConfigured(RequestJob(s, host).id, RequestJob(s, host))
  <1>1. CASE config.certs[s].names # NoNames
    BY <1>1 DEF RequestJob, AsConfigured, CertIdOf, NamesOf, NamedId, NamedSources
  <1>2. CASE config.certs[s].names = NoNames
    <2>1. s \notin NamedSources(config) /\ host # NoHost
      BY <1>2 DEF NamedSources
    <2> QED BY <1>2, <2>1 DEF RequestJob, AsConfigured, CertIdOf, NamesOf
  <1> QED BY <1>1, <1>2

LEMMA ConfigKept ==
    ASSUME Steady, TypeInv, [Next]_vars
    PROVE  config' = config
  <1>1. epoch \in 1..Len(Deployments) /\ epoch' \in 1..Len(Deployments)
    BY TypeInvStep DEF TypeInv, TypeOK
  <1> QED BY <1>1 DEF Steady, config

\* A row stored in a step is a new one of a call in progress, or holds the
\* certificate of the row that was there.
LEMMA RowsAsConfigured ==
    ASSUME Steady, TypeInv, SteadyInv, [Next]_vars, NEW c \in CertIds, db'[c] # NoRow
    PROVE  AsConfigured(c, db'[c])
  <1>1. CASE \E t \in Tasks : IssueSucceeds(t)
    <2> PICK t \in Tasks : IssueSucceeds(t)
      BY <1>1
    <2>1. pc[t] = "issuing" /\ job[t].id \in CertIds
      BY JobOfLocked DEF IssueSucceeds, Locked
    <2>2. PICK l \in Lifetimes : db' = [db EXCEPT ![job[t].id] = NewRow(job[t], l)]
      BY DEF IssueSucceeds
    <2>3. AsConfigured(job[t].id, NewRow(job[t], l))
      BY <2>1 DEF SteadyInv, AsConfigured, NewRow, InCall, Locked
    <2> QED BY <2>1, <2>2, <2>3 DEF SteadyInv, TypeInv, TypeOK
  <1>2. CASE \A t \in Tasks : ~IssueSucceeds(t)
    <2>1. TypeInv' /\ StoresNothing
      BY <1>2, OnlyIssueStores, TypeInvStep
    <2>2. db[c] # NoRow /\ db[c] \in Rows /\ db'[c] \in Rows /\ SameCert(db[c], db'[c])
      BY <2>1 DEF StoresNothing, TypeInv, TypeOK
    <2>3. db'[c].provider = db[c].provider /\ db'[c].names = db[c].names
      BY <2>2, SameCertFields
    <2> QED BY <2>2, <2>3 DEF SteadyInv, AsConfigured
  <1> QED BY <1>1, <1>2

LEMMA SteadyInvStep ==
    ASSUME Steady, TypeInv, SteadyInv, [Next]_vars
    PROVE  SteadyInv'
  <1>0. config' = config
    BY ConfigKept
  <1>a. epoch \in 1..Len(Deployments)
    BY DEF TypeInv, TypeOK
  <1>b. \A s \in scan : s \in DOMAIN config.certs /\ s \in NamedSources(config) /\ s \in Sources
    BY <1>a, ConfigType DEF TypeInv, TypeOK, JobsInHand
  <1>1. \A c \in CertIds : db'[c] # NoRow => AsConfigured(c, db'[c])
    BY RowsAsConfigured
  <1>2. CASE UNCHANGED vars
    BY <1>2 DEF vars, SteadyInv, AsConfigured, config
  <1>3. CASE Restart
    BY <1>0, <1>1, <1>3, TaskAssumption
    DEF Restart, FirstPc, Empty, SteadyInv, AsConfigured, InCall, Locked, Tasks
  <1>4. CASE Next /\ ~Restart
    <2>1. \A c \in CertIds : batch'[c] # NoRow => AsConfigured(c, batch'[c])
      BY <1>4, CopiesOnly DEF SteadyInv
    <2>2. ASSUME NEW t \in Tasks, pc'[t] \in InCall
          PROVE  AsConfigured(job'[t].id, job'[t])
      <3>1. CASE pc[t] \in InCall /\ job'[t] = job[t]
        BY <3>1 DEF SteadyInv
      <3>2. ASSUME NEW s \in DOMAIN config.certs, NEW host \in Hosts,
                   job'[t] = RequestJob(s, host)
            PROVE  AsConfigured(job'[t].id, job'[t])
        BY <1>a, <3>2, RequestAsConfigured, NullAssumption
      <3>3. ASSUME NEW s \in scan, job'[t] = StartupJob(s)
            PROVE  AsConfigured(job'[t].id, job'[t])
        BY <1>a, <1>b, <3>3, RequestAsConfigured DEF StartupJob
      <3>4. ASSUME NEW c \in CertIds, batch[c] # NoRow, job'[t] = CronJob(c)
            PROVE  AsConfigured(job'[t].id, job'[t])
        BY <3>4 DEF SteadyInv, AsConfigured, CronJob
      <3> QED BY <1>4, <2>2, <3>1, <3>2, <3>3, <3>4, CallBegins DEF SteadyInv
    <2>3. pc'[Startup] # "drop"
      <3> SUFFICES ASSUME pc'[Startup] = "drop" PROVE FALSE
        OBVIOUS
      <3>1. PICK s \in scan : Reason(s) = "ProviderChanged"
        BY <1>4, DropBegins DEF SteadyInv
      <3>2. NamedId(s) \in CertIds
        BY <1>b DEF NamedId, CertIds
      <3>3. /\ db[NamedId(s)] # NoRow
            /\ db[NamedId(s)].provider # config.certs[s].provider
        BY <3>1 DEF Reason, IssuanceReason
      <3> QED BY <3>2, <3>3 DEF SteadyInv, AsConfigured, NamedId
    <2>4. ASSUME pc'[Startup] \in InCall
          PROVE  job'[Startup].id[2] = NoHost
      <3>1. Startup \in Tasks /\ Startup \notin Handlers /\ Startup # Cron
        BY TaskAssumption DEF Tasks
      <3>2. CASE pc[Startup] \in InCall /\ job'[Startup] = job[Startup]
        BY <3>2 DEF SteadyInv
      <3>3. ASSUME NEW s \in scan, job'[Startup] = StartupJob(s)
            PROVE  job'[Startup].id[2] = NoHost
        BY <1>b, <3>3 DEF StartupJob, RequestJob, CertIdOf, NamedId, NamedSources
      <3> QED BY <1>4, <2>4, <3>1, <3>2, <3>3, CallBegins DEF SteadyInv
    <2> QED BY <1>0, <1>1, <2>1, <2>2, <2>3, <2>4 DEF SteadyInv, AsConfigured
  <1> QED BY <1>2, <1>3, <1>4

\* With one configuration, rows, copies and calls are what it says, through
\* crashes and failures of every kind, and the startup check deletes nothing.
THEOREM SteadyInvariant ==
    ASSUME Steady
    PROVE  Spec => []SteadyInv
  <1>1. Init => SteadyInv
    BY TaskAssumption DEF Init, FirstPc, Empty, SteadyInv, InCall, Locked, Tasks
  <1>2. TypeInv /\ SteadyInv /\ [Next]_vars => SteadyInv'
    BY SteadyInvStep
  <1> QED BY <1>1, <1>2, TypeInvariant, PTL DEF Spec

\* A call that finds a fresh row under the lock is settled by a certificate
\* of the provider and for the names it asked for.
THEOREM SettledAsAskedWhenSteady ==
    ASSUME Steady
    PROVE  Spec => []SettledAsAsked
  <1>1. TypeInv /\ SteadyInv => SettledAsAsked
    <2> SUFFICES ASSUME TypeInv, SteadyInv, NEW t \in Tasks, pc[t] = "recheck",
                        IsFresh(db[job[t].id], now)
                 PROVE  /\ db[job[t].id].names = job[t].names
                        /\ db[job[t].id].provider = job[t].provider
      BY DEF SettledAsAsked
    <2>1. job[t].id \in CertIds /\ db[job[t].id] # NoRow
      BY JobOfLocked DEF IsFresh, Locked
    <2> QED BY <2>1 DEF SteadyInv, AsConfigured, InCall, Locked
  <1> QED BY <1>1, SteadyInvariant, TypeInvariant, PTL

-----------------------------------------------------------------------------
(* Certificates with names *)

\* The row of a certificate with names whose provider is defined is renewed
\* but never removed.
NamedRowsStay == \A s \in DOMAIN config.certs :
    config.certs[s].provider \in config.providers /\ db[NamedId(s)] # NoRow
      => db'[NamedId(s)] # NoRow

LEMMA NamedRowsStayStep ==
    ASSUME Steady, TypeInv, OriginInv, SteadyInv, [Next]_vars
    PROVE  NamedRowsStay
  <1> SUFFICES ASSUME NEW s \in DOMAIN config.certs,
                      config.certs[s].provider \in config.providers,
                      db[NamedId(s)] # NoRow, db'[NamedId(s)] = NoRow
               PROVE  FALSE
    BY DEF NamedRowsStay
  <1> DEFINE c == NamedId(s)
  <1>1. c \in CertIds /\ c[1] = s /\ c[2] = NoHost
    BY ConfigType DEF NamedId, CertIds, IsConfig, TypeInv, TypeOK
  <1>2. db[c].source = s
    BY <1>1 DEF OriginInv, RowsOfConfig, OfConfig
  <1>3. config' = config
    BY ConfigKept
  <1>4. CronDelete(c)
    <2> HIDE DEF c
    <2>1. db[c] # NoRow /\ db'[c] = NoRow
      BY DEF c
    <2> QED BY <1>1, <1>2, <1>3, <2>1, RowRemoved DEF SteadyInv
  <1>5. batch[c] # NoRow /\ NeedsDeletion(c, batch[c], config, now)
    BY <1>4 DEF CronDelete, CronPick
  <1>6. batch[c].source = s /\ batch[c].provider = config.certs[s].provider
    BY <1>1, <1>5 DEF OriginInv, BatchOfConfig, OfConfig, SteadyInv, AsConfigured
  <1> QED BY <1>1, <1>5, <1>6 DEF NeedsDeletion

\* A certificate with names, once issued, is there in every later state.
THEOREM NamedCertsStay ==
    ASSUME Steady
    PROVE  Spec => [][NamedRowsStay]_vars
  <1>1. TypeInv /\ OriginInv /\ SteadyInv /\ [Next]_vars => NamedRowsStay
    BY NamedRowsStayStep
  <1> QED BY <1>1, SteadyInvariant, OriginInvariant, PTL DEF Spec

\* The unwrap() after the upsert finds the row, unless a handler has issued
\* on demand, for a host that the maintenance job finds out of use.
SafeReadBack == \A t \in Tasks :
    pc[t] = "readback" /\ (t \notin Handlers \/ job[t].id[2] = NoHost) => db[job[t].id] # NoRow

LEMMA SafeReadBackStep ==
    ASSUME Steady, TypeInv, OriginInv, SteadyInv, SafeReadBack, [Next]_vars
    PROVE  SafeReadBack'
  <1> SUFFICES ASSUME NEW t \in Tasks, pc'[t] = "readback",
                      t \notin Handlers \/ job'[t].id[2] = NoHost
               PROVE  db'[job'[t].id] # NoRow
    BY DEF SafeReadBack
  <1>1. CASE IssueSucceeds(t)
    <2>1. job[t] \in Jobs /\ job[t].id \in CertIds /\ now \in Int
      BY <1>1, JobOfLocked DEF IssueSucceeds, Locked, TypeInv, TypeOK
    <2>2. PICK l \in Lifetimes : db' = [db EXCEPT ![job[t].id] = NewRow(job[t], l)]
      BY <1>1 DEF IssueSucceeds
    <2>3. NewRow(job[t], l) # NoRow /\ job' = job
      BY <1>1, <2>1, NewRowType DEF IssueSucceeds
    <2> QED BY <2>1, <2>2, <2>3 DEF TypeInv, TypeOK
  <1>2. CASE pc[t] = "readback" /\ job'[t] = job[t]
    <2> DEFINE c == job[t].id
    <2>1. c \in CertIds /\ db[c] # NoRow
      BY <1>2, JobOfLocked DEF SafeReadBack, Locked
    <2>2. AsConfigured(c, job[t]) /\ job[t].provider \in config.providers
      BY <1>2 DEF SteadyInv, OriginInv, CallsOfConfig, ProviderDefined, InCall, Locked
    <2>3. CASE t = Cron
      <3>1. ~CronDelete(c) /\ ~Restart
        BY <1>2, <2>3, TaskAssumption DEF CronDelete, CronPick, Restart, FirstPc, Tasks
      <3> HIDE DEF c
      <3>2. db'[c] # NoRow
        BY <2>1, <3>1, RowRemoved DEF SteadyInv
      <3> QED BY <1>2, <3>2 DEF c
    <2>4. CASE t # Cron
      <3>1. c[2] = NoHost
        BY <1>2, <2>4 DEF SteadyInv, InCall, Locked, Tasks
      <3>2. c = NamedId(c[1])
        BY <2>1, <3>1 DEF CertIds, NamedId
      <3> HIDE DEF c
      <3>3. db'[c] # NoRow
        BY <2>1, <2>2, <3>2, NamedRowsStayStep DEF NamedRowsStay, AsConfigured
      <3> QED BY <1>2, <3>3 DEF c
    <2> QED BY <2>3, <2>4
  <1> QED BY <1>1, <1>2, StageReached

\* The panic in issue_certificate that a run finds without a change of the
\* configuration is one of a handler that issues on demand: no other.
THEOREM ReadBackSafe ==
    ASSUME Steady
    PROVE  Spec => []SafeReadBack
  <1>1. Init => SafeReadBack
    BY DEF Init, FirstPc, SafeReadBack
  <1>2. TypeInv /\ OriginInv /\ SteadyInv /\ SafeReadBack /\ [Next]_vars => SafeReadBack'
    BY SafeReadBackStep
  <1> QED BY <1>1, <1>2, SteadyInvariant, OriginInvariant, PTL DEF Spec

\* Only a panic ends a background task.
LEMMA DeathComes ==
    ASSUME TypeInv, [Next]_vars, NEW u \in Tasks, pc'[u] = "dead"
    PROVE  pc[u] = "dead" \/ ReadBackPanics(u) \/ DbPanic(u)
  <1> DEFINE Comes == pc[u] = "dead" \/ ReadBackPanics(u) \/ DbPanic(u)
  <1> USE DEF Goto
  <1>0. Startup \in Tasks /\ Cron \in Tasks /\ Handlers \subseteq Tasks
    BY DEF Tasks
  <1>1. ASSUME NEW t \in Tasks, Issue(t) PROVE Comes
    BY <1>1
    DEF Issue, AcquireCertLock, LockGranted, PoolTimeout, RecheckHit, RecheckMiss, IssueFails,
        IssueSucceeds, ReadBack, ReadBackPanics, Return, Unwind, TypeInv, TypeOK
  <1>2. ASSUME NEW t \in Tasks, DbPanic(t) PROVE Comes
    BY <1>2 DEF DbPanic, Unwind, TypeInv, TypeOK
  <1>3. ASSUME NEW h \in Handlers, Handle(h) PROVE Comes
    BY <1>0, <1>3 DEF Handle, RequestHit, RequestMiss, Answer, Call, TypeInv, TypeOK
  <1>4. CASE StartupStep
    BY <1>0, <1>4
    DEF StartupStep, StartupSkip, StartupIssue, StartupProviderChanged, StartupDrop, StartupDone,
        Call, TypeInv, TypeOK
  <1>5. CASE CronStep
    BY <1>0, <1>5
    DEF CronStep, CronDelete, CronSkip, CronRenew, CronTick, CronDone, Call, TypeInv, TypeOK
  <1>6. CASE Tick \/ UNCHANGED vars
    BY <1>6 DEF Tick, volatile, vars
  <1>7. CASE Restart
    BY <1>7 DEF Restart, FirstPc
  <1> QED BY <1>1, <1>2, <1>3, <1>4, <1>5, <1>6, <1>7 DEF Next

BackgroundAlive == pc[Cron] # "dead" /\ pc[Startup] # "dead"

\* Only a statement that fails can kill the maintenance job or the startup
\* check, as long as the configuration stays: no row they rely on is taken
\* from under them.
THEOREM BackgroundSurvives ==
    ASSUME Steady, ~DbFaults
    PROVE  Spec => []BackgroundAlive
  <1>1. Init => BackgroundAlive
    BY DEF Init, FirstPc, BackgroundAlive, Tasks
  <1>2. TypeInv /\ SafeReadBack /\ BackgroundAlive /\ [Next]_vars => BackgroundAlive'
    <2> SUFFICES ASSUME TypeInv, SafeReadBack, BackgroundAlive, [Next]_vars,
                        NEW t \in {Startup, Cron}, pc'[t] = "dead"
                 PROVE  FALSE
      BY DEF BackgroundAlive
    <2>1. t \in Tasks /\ t \notin Handlers /\ pc[t] # "dead"
      BY TaskAssumption DEF Tasks, BackgroundAlive
    <2>2. ReadBackPanics(t)
      BY <2>1, DeathComes DEF DbPanic
    <2> QED BY <2>1, <2>2 DEF ReadBackPanics, SafeReadBack
  <1> QED BY <1>1, <1>2, ReadBackSafe, TypeInvariant, PTL DEF Spec

-----------------------------------------------------------------------------
(* The maintenance job *)

\* A row that is deleted without a reason was issued on demand, and has been
\* requested since its copy was made.
ErrsOnlyOnUse == \A c \in CertIds :
    CronDelete(c) /\ db[c] # NoRow /\ ~NeedsDeletion(c, db[c], config, now)
      => c[2] # NoHost /\ batch[c].requested < db[c].requested

\* Providers and sources of copies are never out of date; their times of
\* request are.
THEOREM SweepErrsOnlyOnUse ==
    ASSUME Steady
    PROVE  Spec => [][ErrsOnlyOnUse]_vars
  <1>1. TypeInv /\ OriginInv /\ SteadyInv => ErrsOnlyOnUse
    <2> SUFFICES ASSUME TypeInv, OriginInv, SteadyInv, NEW c \in CertIds, CronDelete(c),
                        db[c] # NoRow, ~NeedsDeletion(c, db[c], config, now)
                 PROVE  c[2] # NoHost /\ batch[c].requested < db[c].requested
      BY DEF ErrsOnlyOnUse
    <2>1. batch[c] # NoRow /\ NeedsDeletion(c, batch[c], config, now)
      BY DEF CronDelete, CronPick
    <2>2. batch[c].requested \in Int /\ db[c].requested \in Int /\ now \in Int
          /\ SixtyDays \in Int
      BY <2>1, TimeAssumption DEF TypeInv, TypeOK, Rows
    <2>3. /\ batch[c].provider = db[c].provider /\ batch[c].source \in DOMAIN config.certs
          /\ c[1] \in DOMAIN config.certs
      BY <2>1 DEF SteadyInv, AsConfigured, OriginInv, BatchOfConfig, OfConfig
    <2>4. batch[c].requested < now - SixtyDays /\ c[2] # NoHost
      BY <2>1, <2>3 DEF NeedsDeletion
    <2>5. ~(db[c].requested < now - SixtyDays)
      BY <2>4 DEF NeedsDeletion
    <2> QED BY <2>2, <2>4, <2>5
  <1> QED BY <1>1, SteadyInvariant, OriginInvariant, PTL DEF Spec
=============================================================================
