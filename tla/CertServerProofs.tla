--------------------------- MODULE CertServerProofs ---------------------------
(***************************************************************************)
(* Proofs about CertServer for any number of handlers, certificates,       *)
(* configurations and restarts.                                            *)
(*                                                                         *)
(* The argument is built from invariants that rest on each other:          *)
(*   TypeInv     types, and a task in a call holds a well-formed job;      *)
(*   LockInv     tasks in a call for a certificate refer to the one lock   *)
(*               in the map, and exactly the locked ones hold it;          *)
(*   FlightInv   while a certificate is being issued no fresh row of it    *)
(*               exists, and a row read back is the one just stored:       *)
(*               LockInv and OnlyIssueStores;                              *)
(*   OriginInv   rows, copies and calls belong to the configuration;       *)
(*   AnswerInv   what a handler answers with had not expired.              *)
(***************************************************************************)
EXTENDS CertServer, TLAPS

InCall == Locked \cup {"map", "wait"}

\* What typing needs beside TypeOK: a task that uses its job has one, and
\* the startup check has only certificates with names before it.
JobsInHand ==
    /\ \A t \in Tasks : pc[t] \in InCall \cup {"touch"} => job[t] \in Jobs
    /\ pc[Startup] = "drop" => job[Startup] \in Jobs
    /\ \A t \in Tasks : pc[t] \in {"readback", "touch"} => cert[t] \in Rows
    /\ scan \subseteq NamedSources(config)

TypeInv == TypeOK /\ JobsInHand

-----------------------------------------------------------------------------
(* Lemmas about the data *)

LEMMA ConfigType ==
    ASSUME epoch \in 1..Len(Deployments)
    PROVE  IsConfig(config) /\ NamedSources(config) \subseteq DOMAIN config.certs
  BY DeploymentAssumption DEF config, NamedSources

\* The row written for a job is a row, fresh only if issued long enough.
LEMMA NewRowType ==
    ASSUME NEW j \in Jobs, NEW l \in Lifetimes, now \in Int
    PROVE  NewRow(j, l) \in Rows /\ NewRow(j, l) # NoRow
  <1>1. l \in Int
    BY LifetimeAssumption
  <1>2. NewRow(j, l) \in Rows
    BY <1>1 DEF NewRow, Rows, Jobs
  <1> QED BY <1>2, NoRowAssumption

\* The request of a handler, or of the startup check for a certificate with
\* names, is a well-formed job.
LEMMA RequestJobType ==
    ASSUME epoch \in 1..Len(Deployments), now \in Int,
           NEW s \in DOMAIN config.certs, NEW host \in Hosts \cup {NoHost},
           host = NoHost => s \in NamedSources(config)
    PROVE  RequestJob(s, host) \in Jobs
  <1>1. IsConfig(config)
    BY ConfigType
  <1>2. /\ s \in Sources
        /\ config.certs[s].provider \in Providers
        /\ config.certs[s].names \in NameLists \cup {NoNames}
    BY <1>1 DEF IsConfig
  <1>3. CertIdOf(config, s, host) \in CertIds
    BY <1>2 DEF CertIdOf, NamedId, CertIds
  <1>4. NamesOf(config, s, host) \in Names
    BY <1>2 DEF NamesOf, Names, NamedSources
  <1> QED BY <1>2, <1>3, <1>4 DEF RequestJob, Jobs

LEMMA CronJobType ==
    ASSUME NEW c \in CertIds, batch[c] \in Rows, now \in Int
    PROVE  CronJob(c) \in Jobs
  BY DEF CronJob, Jobs, Rows

\* Recording a request writes the time of the request and nothing else.
LEMMA TouchedType ==
    ASSUME TypeOK, NEW c \in CertIds
    PROVE  Touched(c) \in [CertIds -> Rows \cup {NoRow}]
  <1>1. CASE db[c] = NoRow
    BY <1>1 DEF Touched, TypeOK
  <1>2. CASE db[c] # NoRow
    <2>1. db[c] \in Rows
      BY <1>2 DEF TypeOK
    <2>2. [db[c] EXCEPT !.requested = now] \in Rows
      BY <2>1 DEF Rows, TypeOK
    <2>3. Touched(c) = [db EXCEPT ![c] = [db[c] EXCEPT !.requested = now]]
      BY <1>2 DEF Touched, TypeOK
    <2> QED BY <2>2, <2>3 DEF TypeOK
  <1> QED BY <1>1, <1>2

-----------------------------------------------------------------------------
(* Types *)

LEMMA ReleaseType ==
    ASSUME TypeOK, NEW t \in Tasks, Release(t)
    PROVE  holder' \in [CertIds -> [Tasks -> Tasks \cup {NoTask}]]
  BY DEF Release, TypeOK

LEMMA ReturnType ==
    ASSUME TypeInv, NEW t \in Tasks, NEW row \in Rows \cup {NoRow}, pc[t] \in Locked,
           Return(t, row), UNCHANGED db
    PROVE  TypeInv'
  <1> USE DEF TypeInv
  <1>1. holder' \in [CertIds -> [Tasks -> Tasks \cup {NoTask}]]
    BY ReleaseType DEF Return
  <1>2. TypeOK'
    <2>1. cert' \in [Tasks -> Rows \cup {NoRow}] /\ job' \in [Tasks -> Jobs \cup {NoJob}]
      BY DEF Return, TypeOK
    <2>2. pc' \in [Tasks -> Stages] /\ mutex' \in [Tasks -> Tasks \cup {NoTask}]
      BY DEF Return, Goto, TypeOK, Stages
    <2> QED BY <1>1, <2>1, <2>2 DEF Return, TypeOK
  <1>3. JobsInHand'
    <2>1. ASSUME NEW u \in Tasks, u # t
          PROVE  pc'[u] = pc[u] /\ job'[u] = job[u] /\ cert'[u] = cert[u]
      BY <2>1 DEF Return, Goto, TypeOK
    <2>2. pc'[t] \notin InCall \cup {"drop"}
      BY DEF Return, Goto, TypeOK, InCall, Locked
    <2>3. pc'[t] = "touch" => job'[t] \in Jobs /\ cert'[t] \in Rows
      BY TaskAssumption DEF Return, Goto, TypeOK, JobsInHand, Locked, InCall, Keeps, Tasks
    <2>4. scan' \subseteq NamedSources(config')
      BY DEF Return, JobsInHand, config
    <2> QED BY <2>1, <2>2, <2>3, <2>4 DEF JobsInHand, Tasks, InCall, Locked
  <1> QED BY <1>2, <1>3

LEMMA UnwindType ==
    ASSUME TypeInv, NEW t \in Tasks, Unwind(t)
    PROVE  TypeInv'
  <1> USE DEF TypeInv
  <1>1. holder' \in [CertIds -> [Tasks -> Tasks \cup {NoTask}]]
    BY ReleaseType DEF Unwind
  <1>2. TypeOK'
    <2>1. cert' \in [Tasks -> Rows \cup {NoRow}] /\ job' \in [Tasks -> Jobs \cup {NoJob}]
      BY DEF Unwind, TypeOK
    <2>2. pc' \in [Tasks -> Stages] /\ mutex' \in [Tasks -> Tasks \cup {NoTask}]
      BY DEF Unwind, Goto, TypeOK, Stages
    <2>3. scan' \subseteq Sources /\ batch' \in [CertIds -> Rows \cup {NoRow}]
      BY DEF Unwind, TypeOK, Empty
    <2> QED BY <1>1, <2>1, <2>2, <2>3 DEF Unwind, TypeOK
  <1>3. JobsInHand'
    <2>1. ASSUME NEW u \in Tasks, u # t
          PROVE  pc'[u] = pc[u] /\ job'[u] = job[u] /\ cert'[u] = cert[u]
      BY <2>1 DEF Unwind, Goto, TypeOK
    <2>2. pc'[t] \notin InCall \cup {"drop", "touch"}
      BY DEF Unwind, Goto, TypeOK, InCall, Locked
    <2>3. scan' \subseteq NamedSources(config')
      BY DEF Unwind, JobsInHand, config
    <2> QED BY <2>1, <2>2, <2>3 DEF JobsInHand, Tasks, InCall, Locked
  <1> QED BY <1>2, <1>3

LEMMA TypeInvInit == Init => TypeInv
  <1> SUFFICES ASSUME Init PROVE TypeInv
    OBVIOUS
  <1>1. epoch \in 1..Len(Deployments)
    BY DeploymentAssumption DEF Init
  <1>2. scan \subseteq NamedSources(config) /\ scan \subseteq Sources
    BY <1>1, ConfigType DEF Init, IsConfig
  <1>3. TypeOK
    BY <1>1, <1>2, BoundAssumption
    DEF Init, TypeOK, Empty, NoLocks, NoHolders, FirstPc, Stages
  <1>4. JobsInHand
    BY <1>2, TaskAssumption DEF Init, JobsInHand, FirstPc, InCall, Locked, Tasks
  <1> QED BY <1>3, <1>4 DEF TypeInv

LEMMA RestartType ==
    ASSUME TypeInv, Restart
    PROVE  TypeInv'
  <1> USE DEF TypeInv
  <1>1. epoch' \in 1..Len(Deployments)
    BY DeploymentAssumption DEF Restart, TypeOK
  <1>2. IsConfig(config') /\ NamedSources(config') \subseteq DOMAIN config'.certs
    BY <1>1, DeploymentAssumption DEF config, NamedSources
  <1>3. scan' \subseteq NamedSources(config') /\ scan' \subseteq Sources
    BY <1>2 DEF Restart, IsConfig
  <1>4. db' \in [CertIds -> Rows \cup {NoRow}]
    BY DEF Restart, Cleanup, TypeOK
  <1>5. TypeOK'
    BY <1>1, <1>3, <1>4 DEF Restart, TypeOK, Empty, NoLocks, NoHolders, FirstPc, Stages
  <1>6. JobsInHand'
    BY <1>3, TaskAssumption DEF Restart, JobsInHand, FirstPc, InCall, Locked, Tasks
  <1> QED BY <1>5, <1>6

\* Every action keeps the types.
LEMMA TypeInvStep == TypeInv /\ [Next]_vars => TypeInv'
  <1> SUFFICES ASSUME TypeInv, [Next]_vars PROVE TypeInv'
    OBVIOUS
  <1> USE DEF TypeInv
  <1>a. epoch \in 1..Len(Deployments) /\ now \in Int
    BY DEF TypeOK
  <1>b. IsConfig(config) /\ NamedSources(config) \subseteq DOMAIN config.certs
    BY <1>a, ConfigType
  <1>1. ASSUME NEW t \in Tasks, Issue(t) PROVE TypeInv'
    <2>0. ASSUME pc[t] \in InCall
          PROVE  job[t] \in Jobs /\ job[t].id \in CertIds
      BY <2>0 DEF JobsInHand, Jobs
    <2>1. CASE AcquireCertLock(t)
      <3>0. job[t].id \in CertIds
        BY <2>0, <2>1 DEF AcquireCertLock, InCall
      <3>1. TypeOK'
        BY <2>1, <3>0 DEF AcquireCertLock, Goto, TypeOK, Stages
      <3>2. JobsInHand'
        BY <2>1, <2>0, TaskAssumption
        DEF AcquireCertLock, Goto, TypeOK, JobsInHand, config, InCall, Locked, Tasks
      <3> QED BY <3>1, <3>2
    <2>2. CASE LockGranted(t)
      <3>0. job[t].id \in CertIds
        BY <2>0, <2>2 DEF LockGranted, InCall
      <3>1. holder' \in [CertIds -> [Tasks -> Tasks \cup {NoTask}]]
        BY <2>2, <3>0 DEF LockGranted, TypeOK
      <3>2. TypeOK'
        BY <2>2, <3>1 DEF LockGranted, Goto, TypeOK, Stages, Locked
      <3>3. JobsInHand'
        BY <2>2, <2>0, TaskAssumption
        DEF LockGranted, Goto, TypeOK, JobsInHand, config, InCall, Locked, Tasks
      <3> QED BY <3>2, <3>3
    <2>3. CASE PoolTimeout(t)
      BY <2>3, ReturnType DEF PoolTimeout, Locked
    <2>4. CASE RecheckHit(t)
      <3>1. db[job[t].id] \in Rows \cup {NoRow}
        BY <2>4, <2>0 DEF RecheckHit, TypeOK, InCall, Locked
      <3> QED BY <2>4, <3>1, ReturnType DEF RecheckHit, Locked
    <2>5. CASE RecheckMiss(t)
      <3>1. TypeOK'
        BY <2>5 DEF RecheckMiss, Goto, TypeOK, Stages, Locked
      <3>2. JobsInHand'
        BY <2>5, TaskAssumption
        DEF RecheckMiss, Goto, TypeOK, JobsInHand, config, InCall, Locked, Tasks
      <3> QED BY <3>1, <3>2
    <2>6. CASE IssueFails(t)
      BY <2>6, ReturnType DEF IssueFails, Locked
    <2>7. CASE IssueSucceeds(t)
      <3>0. job[t] \in Jobs /\ job[t].id \in CertIds
        BY <2>0, <2>7 DEF IssueSucceeds, InCall, Locked
      <3>1. PICK l \in Lifetimes :
              /\ db' = [db EXCEPT ![job[t].id] = NewRow(job[t], l)]
              /\ cert' = [cert EXCEPT ![t] = NewRow(job[t], l)]
        BY <2>7 DEF IssueSucceeds
      <3>2. NewRow(job[t], l) \in Rows
        BY <3>0, <1>a, NewRowType
      <3>3. TypeOK'
        BY <2>7, <3>0, <3>1, <3>2 DEF IssueSucceeds, Goto, TypeOK, Stages, Locked
      <3>4. JobsInHand'
        BY <2>7, <3>1, <3>2, TaskAssumption
        DEF IssueSucceeds, Goto, TypeOK, JobsInHand, config, InCall, Locked, Tasks
      <3> QED BY <3>3, <3>4
    <2>8. CASE ReadBack(t)
      <3>1. db[job[t].id] \in Rows \cup {NoRow}
        BY <2>8, <2>0 DEF ReadBack, TypeOK, InCall, Locked
      <3> QED BY <2>8, <3>1, ReturnType DEF ReadBack, Locked
    <2>9. CASE ReadBackPanics(t)
      BY <2>9, UnwindType DEF ReadBackPanics
    <2> QED BY <1>1, <2>1, <2>2, <2>3, <2>4, <2>5, <2>6, <2>7, <2>8, <2>9 DEF Issue
  <1>2. ASSUME NEW t \in Tasks, DbPanic(t) PROVE TypeInv'
    BY <1>2, UnwindType DEF DbPanic
  <1>3. ASSUME NEW h \in Handlers, Handle(h) PROVE TypeInv'
    <2>a. h \in Tasks /\ h # Startup
      BY TaskAssumption DEF Tasks
    <2>1. ASSUME NEW s \in DOMAIN config.certs, NEW host \in Hosts, RequestHit(h, s, host)
          PROVE  TypeInv'
      <3>1. RequestJob(s, host) \in Jobs /\ RequestJob(s, host).id = CertIdOf(config, s, host)
        <4>1. host # NoHost
          BY NullAssumption
        <4> QED BY <1>a, <4>1, RequestJobType DEF RequestJob
      <3>2. CertIdOf(config, s, host) \in CertIds
        BY <3>1 DEF Jobs
      <3>3. db[CertIdOf(config, s, host)] \in Rows
        BY <2>1, <3>2 DEF RequestHit, Usable, TypeOK
      <3>4. TypeOK'
        BY <2>1, <2>a, <3>1, <3>3 DEF RequestHit, Goto, TypeOK, Stages
      <3>5. JobsInHand'
        BY <2>1, <2>a, <3>1, <3>3 DEF RequestHit, Goto, TypeOK, JobsInHand, config, InCall, Locked
      <3> QED BY <3>4, <3>5
    <2>2. ASSUME NEW s \in DOMAIN config.certs, NEW host \in Hosts, RequestMiss(h, s, host)
          PROVE  TypeInv'
      <3>1. RequestJob(s, host) \in Jobs
        <4>1. host # NoHost
          BY NullAssumption
        <4> QED BY <1>a, <4>1, RequestJobType
      <3>2. TypeOK'
        BY <2>2, <2>a, <3>1 DEF RequestMiss, Call, Goto, TypeOK, Stages
      <3>3. JobsInHand'
        BY <2>2, <2>a, <3>1 DEF RequestMiss, Call, Goto, TypeOK, JobsInHand, config, InCall, Locked
      <3> QED BY <3>2, <3>3
    <2>3. CASE Answer(h)
      <3>1. job[h].id \in CertIds
        BY <2>3, <2>a DEF Answer, JobsInHand, Jobs
      <3>2. db' \in [CertIds -> Rows \cup {NoRow}]
        BY <2>3, <3>1, TouchedType DEF Answer, TypeOK
      <3>3. TypeOK'
        BY <2>3, <2>a, <3>2 DEF Answer, Goto, TypeOK, Stages
      <3>4. JobsInHand'
        BY <2>3, <2>a DEF Answer, Goto, TypeOK, JobsInHand, config, InCall, Locked
      <3> QED BY <3>3, <3>4
    <2> QED BY <1>3, <2>1, <2>2, <2>3 DEF Handle
  <1>4. CASE StartupStep
    <2>a. Startup \in Tasks
      BY DEF Tasks
    <2>b. ASSUME NEW s \in scan
          PROVE  StartupJob(s) \in Jobs
      <3>1. s \in NamedSources(config) /\ s \in DOMAIN config.certs
        BY <1>b DEF JobsInHand
      <3> QED BY <1>a, <3>1, RequestJobType DEF StartupJob
    <2>1. ASSUME NEW s \in Sources, StartupSkip(s) PROVE TypeInv'
      BY <2>1 DEF StartupSkip, TypeOK, JobsInHand, config
    <2>2. ASSUME NEW s \in Sources, StartupIssue(s) PROVE TypeInv'
      <3>1. StartupJob(s) \in Jobs
        BY <2>2, <2>b DEF StartupIssue
      <3>2. TypeOK'
        BY <2>2, <2>a, <3>1 DEF StartupIssue, Call, Goto, TypeOK, Stages
      <3>3. JobsInHand'
        BY <2>2, <2>a, <3>1 DEF StartupIssue, Call, Goto, TypeOK, JobsInHand, config, InCall, Locked
      <3> QED BY <3>2, <3>3
    <2>3. ASSUME NEW s \in Sources, StartupProviderChanged(s) PROVE TypeInv'
      <3>1. StartupJob(s) \in Jobs
        BY <2>3, <2>b DEF StartupProviderChanged
      <3>2. TypeOK'
        BY <2>3, <2>a, <3>1 DEF StartupProviderChanged, Goto, TypeOK, Stages
      <3>3. JobsInHand'
        BY <2>3, <2>a, <3>1
        DEF StartupProviderChanged, Goto, TypeOK, JobsInHand, config, InCall, Locked
      <3> QED BY <3>2, <3>3
    <2>4. CASE StartupDrop
      <3>1. job[Startup] \in Jobs /\ job[Startup].id \in CertIds
        BY <2>4 DEF StartupDrop, JobsInHand, Jobs
      <3>2. TypeOK'
        BY <2>4, <2>a, <3>1 DEF StartupDrop, Goto, TypeOK, Stages
      <3>3. JobsInHand'
        BY <2>4, <2>a, <3>1 DEF StartupDrop, Goto, TypeOK, JobsInHand, config, InCall, Locked
      <3> QED BY <3>2, <3>3
    <2>5. CASE StartupDone
      BY <2>5, <2>a
      DEF StartupDone, Goto, TypeOK, Stages, JobsInHand, config, InCall, Locked
    <2> QED BY <1>4, <2>1, <2>2, <2>3, <2>4, <2>5 DEF StartupStep
  <1>5. CASE CronStep
    <2>a. Cron \in Tasks /\ Cron # Startup
      BY TaskAssumption DEF Tasks
    <2>1. ASSUME NEW c \in CertIds, CronDelete(c) PROVE TypeInv'
      BY <2>1 DEF CronDelete, CronPick, TypeOK, JobsInHand, config
    <2>2. ASSUME NEW c \in CertIds, CronSkip(c) PROVE TypeInv'
      BY <2>2 DEF CronSkip, CronPick, TypeOK, JobsInHand, config
    <2>3. ASSUME NEW c \in CertIds, CronRenew(c) PROVE TypeInv'
      <3>1. CronJob(c) \in Jobs
        BY <2>3, <1>a, CronJobType DEF CronRenew, CronPick, TypeOK
      <3>2. TypeOK'
        BY <2>3, <2>a, <3>1 DEF CronRenew, CronPick, Call, Goto, TypeOK, Stages
      <3>3. JobsInHand'
        BY <2>3, <2>a, <3>1
        DEF CronRenew, CronPick, Call, Goto, TypeOK, JobsInHand, config, InCall, Locked
      <3> QED BY <3>2, <3>3
    <2>4. CASE CronTick
      BY <2>4, <2>a DEF CronTick, Goto, TypeOK, Stages, JobsInHand, config, InCall, Locked
    <2>5. CASE CronDone
      BY <2>5, <2>a DEF CronDone, Goto, TypeOK, Stages, JobsInHand, config, InCall, Locked
    <2> QED BY <1>5, <2>1, <2>2, <2>3, <2>4, <2>5 DEF CronStep
  <1>6. CASE Tick
    BY <1>6, BoundAssumption DEF Tick, volatile, TypeOK, JobsInHand, config
  <1>7. CASE Restart
    BY <1>7, RestartType
  <1>8. CASE UNCHANGED vars
    BY <1>8 DEF vars, TypeOK, JobsInHand, config
  <1> QED BY <1>1, <1>2, <1>3, <1>4, <1>5, <1>6, <1>7, <1>8 DEF Next

\* In every state that can be reached, each variable has its type, whatever
\* the number of handlers, certificates, configurations and restarts, and a
\* task inside issue_certificate_locked has well-formed arguments.
THEOREM TypeInvariant == Spec => []TypeInv
  <1> QED BY TypeInvInit, TypeInvStep, PTL DEF Spec

THEOREM TypeCorrect == Spec => []TypeOK
  <1>1. TypeInv => TypeOK
    BY DEF TypeInv
  <1> QED BY <1>1, TypeInvariant, PTL

-----------------------------------------------------------------------------
(* Mutual exclusion *)

Queued == Locked \cup {"wait"}

\* A queued task waits for, or holds, the lock that is in the map now: no
\* lock is ever replaced.  With NoLeakedLock, a lock is held exactly by the
\* task inside the locked part.
LockInv ==
    /\ \A t \in Tasks : pc[t] \in Queued =>
         mutex[t] \in Tasks /\ mutex[t] = locks[job[t].id]
    /\ \A t \in Tasks : pc[t] \in Locked => holder[job[t].id][mutex[t]] = t
    /\ NoLeakedLock

LEMMA LockInvInit == Init => LockInv
  BY TaskAssumption
  DEF Init, LockInv, NoLeakedLock, FirstPc, NoHolders, NoLocks, Queued, Locked

\* Steps of a task outside the queue leave the locks alone.
LEMMA OutsideStep ==
    ASSUME TypeInv, LockInv, NEW t \in Tasks,
           pc[t] \notin Queued, pc'[t] \notin Queued,
           \A u \in Tasks \ {t} : pc'[u] = pc[u] /\ job'[u] = job[u],
           UNCHANGED <<locks, holder, mutex>>
    PROVE  LockInv'
  <1>1. ASSUME NEW u \in Tasks, pc'[u] \in Queued
        PROVE  u # t /\ pc'[u] = pc[u] /\ job'[u] = job[u]
    BY <1>1
  <1>2. NoLeakedLock'
    <2> SUFFICES ASSUME NEW c \in CertIds, NEW k \in Tasks, holder[c][k] # NoTask
                 PROVE  /\ pc'[holder[c][k]] \in Locked
                        /\ job'[holder[c][k]].id = c
                        /\ mutex[holder[c][k]] = k
      BY DEF NoLeakedLock
    <2>1. holder[c][k] \in Tasks
      BY DEF TypeInv, TypeOK
    <2>2. pc[holder[c][k]] \in Locked /\ job[holder[c][k]].id = c /\ mutex[holder[c][k]] = k
      BY DEF LockInv, NoLeakedLock
    <2> QED BY <2>1, <2>2 DEF Queued
  <1> QED BY <1>1, <1>2 DEF LockInv, Queued

\* So do steps from one locked stage to the next.
LEMMA InsideStep ==
    ASSUME TypeInv, LockInv, NEW t \in Tasks,
           pc[t] \in Locked, pc'[t] \in Locked,
           \A u \in Tasks \ {t} : pc'[u] = pc[u],
           UNCHANGED <<locks, holder, mutex, job>>
    PROVE  LockInv'
  <1>1. \A u \in Tasks : (pc'[u] \in Locked <=> pc[u] \in Locked)
                     /\ (pc'[u] \in Queued <=> pc[u] \in Queued)
    BY DEF Queued
  <1>2. NoLeakedLock'
    <2> SUFFICES ASSUME NEW c \in CertIds, NEW k \in Tasks, holder[c][k] # NoTask
                 PROVE  /\ pc'[holder[c][k]] \in Locked
                        /\ job[holder[c][k]].id = c
                        /\ mutex[holder[c][k]] = k
      BY DEF NoLeakedLock
    <2>1. holder[c][k] \in Tasks
      BY DEF TypeInv, TypeOK
    <2> QED BY <1>1, <2>1 DEF LockInv, NoLeakedLock
  <1> QED BY <1>1, <1>2 DEF LockInv

\* A task that leaves, for whatever reason, takes its own lock with it and
\* no other.
LEMMA LeavingStep ==
    ASSUME TypeInv, LockInv, NEW t \in Tasks, Release(t), pc'[t] \notin Queued,
           \A u \in Tasks \ {t} : pc'[u] = pc[u] /\ job'[u] = job[u] /\ mutex'[u] = mutex[u],
           UNCHANGED locks
    PROVE  LockInv'
  <1>1. \A c \in CertIds, k \in Tasks :
          holder'[c][k] = IF holder[c][k] = t THEN NoTask ELSE holder[c][k]
    BY DEF Release
  <1>2. \A u \in Tasks : pc[u] \in Queued => job[u].id \in CertIds
    BY DEF TypeInv, JobsInHand, Jobs, Queued, InCall, Locked
  <1>3. ASSUME NEW u \in Tasks, pc'[u] \in Queued
        PROVE  mutex'[u] \in Tasks /\ mutex'[u] = locks'[job'[u].id]
    BY <1>3 DEF LockInv
  <1>4. ASSUME NEW u \in Tasks, pc'[u] \in Locked
        PROVE  holder'[job'[u].id][mutex'[u]] = u
    <2>1. u # t /\ pc[u] \in Locked /\ job'[u] = job[u] /\ mutex'[u] = mutex[u]
      BY <1>4 DEF Queued
    <2>2. mutex[u] \in Tasks /\ job[u].id \in CertIds /\ holder[job[u].id][mutex[u]] = u
      BY <2>1, <1>2 DEF LockInv, Queued
    <2> QED BY <1>1, <2>1, <2>2
  <1>5. NoLeakedLock'
    <2> SUFFICES ASSUME NEW c \in CertIds, NEW k \in Tasks, holder'[c][k] # NoTask
                 PROVE  /\ pc'[holder'[c][k]] \in Locked
                        /\ job'[holder'[c][k]].id = c
                        /\ mutex'[holder'[c][k]] = k
      BY DEF NoLeakedLock
    <2>1. holder'[c][k] = holder[c][k] /\ holder[c][k] # t
      BY <1>1
    <2>2. holder[c][k] \in Tasks
      BY <2>1 DEF TypeInv, TypeOK
    <2> QED BY <2>1, <2>2 DEF LockInv, NoLeakedLock
  <1> QED BY <1>3, <1>4, <1>5 DEF LockInv

LEMMA ReturnLock ==
    ASSUME TypeInv, LockInv, NEW t \in Tasks, NEW row, Return(t, row)
    PROVE  LockInv'
  BY LeavingStep DEF Return, Goto, TypeInv, TypeOK, Queued, Locked

LEMMA UnwindLock ==
    ASSUME TypeInv, LockInv, NEW t \in Tasks, Unwind(t)
    PROVE  LockInv'
  BY LeavingStep DEF Unwind, Goto, TypeInv, TypeOK, Queued, Locked

\* Taking the lock from the map, new or not, does not change the lock of a
\* task that already has one.
LEMMA AcquireLock ==
    ASSUME TypeInv, LockInv, NEW t \in Tasks, AcquireCertLock(t)
    PROVE  LockInv'
  <1>1. job[t].id \in CertIds
    BY DEF AcquireCertLock, TypeInv, JobsInHand, Jobs, InCall
  <1>2. /\ locks'[job[t].id] \in Tasks
        /\ mutex'[t] = locks'[job[t].id]
        /\ locks[job[t].id] # NoTask => locks'[job[t].id] = locks[job[t].id]
        /\ \A c \in CertIds \ {job[t].id} : locks'[c] = locks[c]
    BY <1>1 DEF AcquireCertLock, TypeInv, TypeOK
  <1>3. \A u \in Tasks \ {t} : pc'[u] = pc[u] /\ mutex'[u] = mutex[u]
    BY DEF AcquireCertLock, Goto, TypeInv, TypeOK
  <1>4. \A u \in Tasks : pc[u] \in Queued => job[u].id \in CertIds
    BY DEF TypeInv, JobsInHand, Jobs, Queued, InCall, Locked
  <1>5. pc[t] = "map" /\ pc'[t] = "wait" /\ UNCHANGED <<job, holder>>
    BY DEF AcquireCertLock, Goto, TypeInv, TypeOK
  <1>6. ASSUME NEW u \in Tasks, pc'[u] \in Queued
        PROVE  mutex'[u] \in Tasks /\ mutex'[u] = locks'[job'[u].id]
    BY <1>2, <1>3, <1>4, <1>5, <1>6, TaskAssumption DEF LockInv
  <1>7. ASSUME NEW u \in Tasks, pc'[u] \in Locked
        PROVE  holder'[job'[u].id][mutex'[u]] = u
    BY <1>3, <1>5, <1>7 DEF LockInv, Locked
  <1>8. NoLeakedLock'
    BY <1>3, <1>5 DEF LockInv, NoLeakedLock, Locked, TypeInv, TypeOK
  <1> QED BY <1>6, <1>7, <1>8 DEF LockInv

\* The lock is granted to a task when nobody holds it.
LEMMA GrantLock ==
    ASSUME TypeInv, LockInv, NEW t \in Tasks, LockGranted(t)
    PROVE  LockInv'
  <1>1. job[t].id \in CertIds /\ mutex[t] \in Tasks /\ mutex[t] = locks[job[t].id]
    BY DEF LockGranted, LockInv, Queued, TypeInv, JobsInHand, Jobs, InCall
  <1>2. /\ holder[job[t].id][mutex[t]] = NoTask
        /\ holder'[job[t].id][mutex[t]] = t
        /\ \A c \in CertIds, k \in Tasks :
             c # job[t].id \/ k # mutex[t] => holder'[c][k] = holder[c][k]
    BY <1>1 DEF LockGranted, TypeInv, TypeOK
  <1>3. \A u \in Tasks \ {t} : pc'[u] = pc[u]
    BY DEF LockGranted, Goto, TypeInv, TypeOK
  <1>4. pc[t] = "wait" /\ pc'[t] = "recheck" /\ UNCHANGED <<job, mutex, locks>>
    BY DEF LockGranted, Goto, TypeInv, TypeOK
  <1>5. \A u \in Tasks : pc[u] \in Queued => job[u].id \in CertIds
    BY DEF TypeInv, JobsInHand, Jobs, Queued, InCall, Locked
  <1>6. ASSUME NEW u \in Tasks, pc'[u] \in Queued
        PROVE  mutex'[u] \in Tasks /\ mutex'[u] = locks'[job'[u].id]
    BY <1>1, <1>3, <1>4, <1>6 DEF LockInv
  <1>7. ASSUME NEW u \in Tasks, pc'[u] \in Locked
        PROVE  holder'[job'[u].id][mutex'[u]] = u
    <2>1. CASE u = t
      BY <2>1, <1>2, <1>4
    <2>2. CASE u # t
      <3>1. pc[u] \in Locked /\ holder[job[u].id][mutex[u]] = u
        BY <2>2, <1>3, <1>7 DEF LockInv
      <3>2. job[u].id \in CertIds /\ mutex[u] \in Tasks
        BY <3>1, <1>5 DEF LockInv, Queued
      <3> QED BY <3>1, <3>2, <1>2, <1>4, TaskAssumption
    <2> QED BY <2>1, <2>2
  <1>8. NoLeakedLock'
    <2> SUFFICES ASSUME NEW c \in CertIds, NEW k \in Tasks, holder'[c][k] # NoTask
                 PROVE  /\ pc'[holder'[c][k]] \in Locked
                        /\ job'[holder'[c][k]].id = c
                        /\ mutex'[holder'[c][k]] = k
      BY DEF NoLeakedLock
    <2>1. CASE c = job[t].id /\ k = mutex[t]
      BY <2>1, <1>2, <1>4 DEF Locked
    <2>2. CASE ~(c = job[t].id /\ k = mutex[t])
      <3>1. holder'[c][k] = holder[c][k] /\ holder[c][k] \in Tasks
        BY <2>2, <1>2 DEF TypeInv, TypeOK
      <3>2. pc[holder[c][k]] \in Locked /\ job[holder[c][k]].id = c /\ mutex[holder[c][k]] = k
        BY <3>1 DEF LockInv, NoLeakedLock
      <3>3. holder[c][k] # t
        BY <3>2, <1>4 DEF Locked
      <3> QED BY <3>1, <3>2, <3>3, <1>3, <1>4
    <2> QED BY <2>1, <2>2
  <1> QED BY <1>6, <1>7, <1>8 DEF LockInv

LEMMA LockInvStep == TypeInv /\ LockInv /\ [Next]_vars => LockInv'
  <1> SUFFICES ASSUME TypeInv, LockInv, [Next]_vars PROVE LockInv'
    OBVIOUS
  <1>0. Startup \in Tasks /\ Cron \in Tasks /\ Handlers \subseteq Tasks
    BY DEF Tasks
  <1> USE DEF Goto
  <1>1. ASSUME NEW t \in Tasks, Issue(t) PROVE LockInv'
    <2>1. CASE AcquireCertLock(t)
      BY <2>1, AcquireLock
    <2>2. CASE LockGranted(t)
      BY <2>2, GrantLock
    <2>3. CASE PoolTimeout(t) \/ RecheckHit(t) \/ IssueFails(t) \/ ReadBack(t)
      BY <2>3, ReturnLock DEF PoolTimeout, RecheckHit, IssueFails, ReadBack
    <2>4. CASE RecheckMiss(t)
      BY <2>4, InsideStep DEF RecheckMiss, TypeInv, TypeOK, Locked
    <2>5. CASE IssueSucceeds(t)
      BY <2>5, InsideStep DEF IssueSucceeds, TypeInv, TypeOK, Locked
    <2>6. CASE ReadBackPanics(t)
      BY <2>6, UnwindLock DEF ReadBackPanics
    <2> QED BY <1>1, <2>1, <2>2, <2>3, <2>4, <2>5, <2>6 DEF Issue
  <1>2. ASSUME NEW t \in Tasks, DbPanic(t) PROVE LockInv'
    BY <1>2, UnwindLock DEF DbPanic
  <1>3. ASSUME NEW h \in Handlers, Handle(h) PROVE LockInv'
    BY <1>0, <1>3, OutsideStep
    DEF Handle, RequestHit, RequestMiss, Answer, Call, TypeInv, TypeOK, Queued, Locked
  <1>4. CASE StartupStep
    BY <1>0, <1>4, OutsideStep
    DEF StartupStep, StartupSkip, StartupIssue, StartupProviderChanged, StartupDrop,
        StartupDone, Call, TypeInv, TypeOK, Queued, Locked
  <1>5. CASE CronStep
    BY <1>0, <1>5, OutsideStep
    DEF CronStep, CronDelete, CronSkip, CronRenew, CronPick, CronTick, CronDone, Call,
        TypeInv, TypeOK, Queued, Locked
  <1>6. CASE Tick
    BY <1>6 DEF Tick, volatile, LockInv, NoLeakedLock
  <1>7. CASE Restart
    BY <1>7, TaskAssumption
    DEF Restart, LockInv, NoLeakedLock, FirstPc, NoHolders, NoLocks, Queued, Locked
  <1>8. CASE UNCHANGED vars
    BY <1>8 DEF vars, LockInv, NoLeakedLock
  <1> QED BY <1>1, <1>2, <1>3, <1>4, <1>5, <1>6, <1>7, <1>8 DEF Next

THEOREM LockInvariant == Spec => [](TypeInv /\ LockInv)
  <1> QED BY TypeInvInit, TypeInvStep, LockInvInit, LockInvStep, PTL DEF Spec

\* Two tasks inside the locked part for one certificate hold the same lock,
\* the one in the map, so they are one task.
LEMMA Exclusion == LockInv => OneIssuerPerCert
  BY DEF LockInv, OneIssuerPerCert, Queued

\* However many handlers, crashes, failures and panics there are, at most one
\* task at a time works on the issuance of a certificate ...
THEOREM MutualExclusion == Spec => []OneIssuerPerCert
  <1> QED BY LockInvariant, Exclusion, PTL

\* ... and no lock outlives the work it protects.
THEOREM LocksReleased == Spec => []NoLeakedLock
  <1>1. LockInv => NoLeakedLock
    BY DEF LockInv
  <1> QED BY <1>1, LockInvariant, PTL

-----------------------------------------------------------------------------
(* What steps do to rows *)

\* Two rows hold the same certificate when they agree on all but the time of
\* the last request.
LEMMA SameCertFields ==
    ASSUME NEW r \in Rows, NEW q \in Rows
    PROVE  SameCert(r, q) <=> /\ r.source = q.source /\ r.provider = q.provider
                              /\ r.names = q.names /\ r.expires = q.expires
  <1>1. /\ [r EXCEPT !.requested = 0]
             = [source |-> r.source, provider |-> r.provider, names |-> r.names,
                expires |-> r.expires, requested |-> 0]
        /\ [q EXCEPT !.requested = 0]
             = [source |-> q.source, provider |-> q.provider, names |-> q.names,
                expires |-> q.expires, requested |-> 0]
    BY DEF Rows
  <1> QED BY <1>1 DEF SameCert

\* Every row that a step leaves or rewrites holds the certificate it held.
StoresNothing == \A c \in CertIds :
    db'[c] # NoRow => db[c] # NoRow /\ SameCert(db[c], db'[c])

LEMMA DeletingStoresNothing ==
    ASSUME \A c \in CertIds : db'[c] = db[c] \/ db'[c] = NoRow
    PROVE  StoresNothing
  BY DEF StoresNothing, SameCert

LEMMA TouchingStoresNothing ==
    ASSUME TypeOK, NEW c \in CertIds, db' = Touched(c)
    PROVE  StoresNothing
  <1> SUFFICES ASSUME NEW d \in CertIds, db'[d] # NoRow
               PROVE  db[d] # NoRow /\ SameCert(db[d], db'[d])
    BY DEF StoresNothing
  <1>1. CASE db'[d] = db[d]
    BY <1>1 DEF SameCert
  <1>2. CASE db'[d] # db[d]
    <2>1. d = c /\ db[d] # NoRow /\ db'[d] = [db[d] EXCEPT !.requested = now]
      BY <1>2 DEF Touched, TypeOK
    <2>2. db[d] \in Rows /\ now \in Int
      BY <2>1 DEF TypeOK
    <2>3. db'[d] \in Rows /\ db'[d].source = db[d].source /\ db'[d].provider = db[d].provider
          /\ db'[d].names = db[d].names /\ db'[d].expires = db[d].expires
      BY <2>1, <2>2 DEF Rows
    <2> QED BY <2>1, <2>2, <2>3, SameCertFields
  <1> QED BY <1>1, <1>2

\* Only the success of a provider puts a certificate into the table.
LEMMA OnlyIssueStores ==
    ASSUME TypeInv, [Next]_vars, \A t \in Tasks : ~IssueSucceeds(t)
    PROVE  StoresNothing
  <1>1. ASSUME NEW t \in Tasks, Issue(t) PROVE StoresNothing
    BY <1>1, DeletingStoresNothing
    DEF Issue, AcquireCertLock, LockGranted, PoolTimeout, RecheckHit, RecheckMiss, IssueFails,
        ReadBack, ReadBackPanics, Unwind
  <1>2. ASSUME NEW t \in Tasks, DbPanic(t) PROVE StoresNothing
    BY <1>2, DeletingStoresNothing DEF DbPanic, Unwind
  <1>3. ASSUME NEW h \in Handlers, Handle(h) PROVE StoresNothing
    <2>1. ASSUME NEW s \in DOMAIN config.certs, NEW host \in Hosts,
                 RequestHit(h, s, host) \/ RequestMiss(h, s, host)
          PROVE  StoresNothing
      BY <2>1, DeletingStoresNothing DEF RequestHit, RequestMiss
    <2>2. CASE Answer(h)
      <3>1. job[h].id \in CertIds
        BY <2>2 DEF Answer, TypeInv, JobsInHand, Jobs, Tasks
      <3> QED BY <2>2, <3>1, TouchingStoresNothing, DeletingStoresNothing DEF Answer, TypeInv
    <2> QED BY <1>3, <2>1, <2>2 DEF Handle
  <1>4. CASE StartupStep
    <2>1. ASSUME NEW s \in Sources,
                 StartupSkip(s) \/ StartupIssue(s) \/ StartupProviderChanged(s)
          PROVE  StoresNothing
      BY <2>1, DeletingStoresNothing DEF StartupSkip, StartupIssue, StartupProviderChanged
    <2>2. CASE StartupDrop
      BY <2>2, DeletingStoresNothing DEF StartupDrop, TypeInv, TypeOK
    <2>3. CASE StartupDone
      BY <2>3, DeletingStoresNothing DEF StartupDone
    <2> QED BY <1>4, <2>1, <2>2, <2>3 DEF StartupStep
  <1>5. CASE CronStep
    BY <1>5, DeletingStoresNothing
    DEF CronStep, CronDelete, CronSkip, CronRenew, CronTick, CronDone, TypeInv, TypeOK
  <1>6. CASE Tick
    BY <1>6, DeletingStoresNothing DEF Tick
  <1>7. CASE Restart
    BY <1>7, DeletingStoresNothing DEF Restart, Cleanup
  <1>8. CASE UNCHANGED vars
    BY <1>8, DeletingStoresNothing DEF vars
  <1> QED BY <1>1, <1>2, <1>3, <1>4, <1>5, <1>6, <1>7, <1>8 DEF Next

LEMMA ClockForward ==
    ASSUME TypeInv, [Next]_vars
    PROVE  now' \in Int /\ now \in Int /\ now <= now'
  <1>1. now \in Int
    BY DEF TypeInv, TypeOK
  <1>2. ASSUME NEW t \in Tasks, Issue(t) \/ DbPanic(t) PROVE now' = now
    BY <1>2
    DEF Issue, AcquireCertLock, LockGranted, PoolTimeout, RecheckHit, RecheckMiss,
        IssueFails, IssueSucceeds, ReadBack, ReadBackPanics, Return, Unwind, DbPanic
  <1>3. ASSUME NEW h \in Handlers, Handle(h) PROVE now' = now
    BY <1>3 DEF Handle, RequestHit, RequestMiss, Answer
  <1>4. ASSUME StartupStep PROVE now' = now
    BY <1>4 DEF StartupStep, StartupSkip, StartupIssue, StartupProviderChanged, StartupDrop,
                StartupDone
  <1>5. ASSUME CronStep PROVE now' = now
    BY <1>5 DEF CronStep, CronDelete, CronSkip, CronRenew, CronTick, CronDone
  <1>6. ASSUME Tick \/ Restart \/ UNCHANGED vars PROVE now' = now \/ now' = now + 1
    BY <1>6 DEF Tick, Restart, vars
  <1>7. now' = now \/ now' = now + 1
    BY <1>2, <1>3, <1>4, <1>5, <1>6
    DEF Next
  <1> QED BY <1>1, <1>7

\* A row that is not fresh does not become fresh by getting older, by being
\* touched or by being deleted.
LEMMA FreshnessFades ==
    ASSUME TypeInv, TypeInv', StoresNothing, now <= now', NEW c \in CertIds,
           IsFresh(db'[c], now')
    PROVE  IsFresh(db[c], now)
  <1>1. db[c] \in Rows /\ db'[c] \in Rows /\ SameCert(db[c], db'[c])
    BY DEF IsFresh, StoresNothing, TypeInv, TypeOK
  <1>2. db'[c].expires = db[c].expires /\ db[c].expires \in Int
    BY <1>1, SameCertFields DEF Rows
  <1>3. db[c] # NoRow
    BY <1>1, NoRowAssumption
  <1>4. now \in Int /\ now' \in Int /\ Week \in Int /\ TwoDays \in Int
    BY TimeAssumption DEF TypeInv, TypeOK
  <1> QED BY <1>2, <1>3, <1>4 DEF IsFresh, NeedsRenewal

\* How a task comes to be in one of the last two stages of a call.
LEMMA StageReached ==
    ASSUME TypeInv, [Next]_vars, NEW u \in Tasks
    PROVE  /\ pc'[u] = "issuing" =>
                RecheckMiss(u) \/ (pc[u] = "issuing" /\ job'[u] = job[u])
           /\ pc'[u] = "readback" =>
                IssueSucceeds(u) \/ (pc[u] = "readback" /\ job'[u] = job[u] /\ cert'[u] = cert[u])
  <1> DEFINE Reached ==
        /\ pc'[u] = "issuing" => RecheckMiss(u) \/ (pc[u] = "issuing" /\ job'[u] = job[u])
        /\ pc'[u] = "readback" =>
             IssueSucceeds(u) \/ (pc[u] = "readback" /\ job'[u] = job[u] /\ cert'[u] = cert[u])
  <1> SUFFICES Reached
    OBVIOUS
  <1> USE DEF Goto
  <1>1. ASSUME NEW t \in Tasks, Issue(t) PROVE Reached
    <2>1. CASE u # t
      BY <1>1, <2>1
      DEF Issue, AcquireCertLock, LockGranted, PoolTimeout, RecheckHit, RecheckMiss, IssueFails,
          IssueSucceeds, ReadBack, ReadBackPanics, Return, Unwind, TypeInv, TypeOK
    <2>2. CASE u = t
      <3>1. Issue(u)
        BY <1>1, <2>2
      <3>2. CASE RecheckMiss(u)
        BY <3>2 DEF RecheckMiss, TypeInv, TypeOK
      <3>3. CASE IssueSucceeds(u)
        BY <3>3 DEF IssueSucceeds, TypeInv, TypeOK
      <3>4. CASE ~RecheckMiss(u) /\ ~IssueSucceeds(u)
        BY <3>1, <3>4
        DEF Issue, AcquireCertLock, LockGranted, PoolTimeout, RecheckHit, IssueFails,
            ReadBack, ReadBackPanics, Return, Unwind, TypeInv, TypeOK
      <3> QED BY <3>2, <3>3, <3>4
    <2> QED BY <2>1, <2>2
  <1>2. ASSUME NEW t \in Tasks, DbPanic(t) PROVE Reached
    BY <1>2 DEF DbPanic, Unwind, TypeInv, TypeOK
  <1>3. ASSUME NEW h \in Handlers, Handle(h) PROVE Reached
    BY <1>3 DEF Handle, RequestHit, RequestMiss, Answer, Call, TypeInv, TypeOK, Tasks
  <1>4. CASE StartupStep
    BY <1>4 DEF StartupStep, StartupSkip, StartupIssue, StartupProviderChanged, StartupDrop,
                StartupDone, Call, TypeInv, TypeOK, Tasks
  <1>5. CASE CronStep
    BY <1>5 DEF CronStep, CronDelete, CronSkip, CronRenew, CronTick, CronDone, Call,
                TypeInv, TypeOK, Tasks
  <1>6. CASE Tick
    BY <1>6 DEF Tick, volatile
  <1>7. CASE Restart
    BY <1>7 DEF Restart, FirstPc
  <1>8. CASE UNCHANGED vars
    BY <1>8 DEF vars
  <1> QED BY <1>1, <1>2, <1>3, <1>4, <1>5, <1>6, <1>7, <1>8 DEF Next

-----------------------------------------------------------------------------
(* No certificate is asked for in vain, and none is overwritten *)

FlightInv == NoRedundantIssuance /\ ReadBackOwn

Inv == TypeInv /\ LockInv /\ FlightInv

LEMMA JobOfLocked ==
    ASSUME TypeInv, NEW t \in Tasks, pc[t] \in Locked
    PROVE  job[t] \in Jobs /\ job[t].id \in CertIds
  BY DEF TypeInv, JobsInHand, Jobs, InCall, Locked

LEMMA FlightInvStep == Inv /\ [Next]_vars => FlightInv'
  <1> SUFFICES ASSUME Inv, [Next]_vars PROVE FlightInv'
    OBVIOUS
  <1> USE DEF Inv
  <1>1. TypeInv' /\ OneIssuerPerCert
    BY TypeInvStep, Exclusion
  <1>2. CASE \E t \in Tasks : IssueSucceeds(t)
    <2> PICK t \in Tasks : IssueSucceeds(t)
      BY <1>2
    <2>1. pc[t] = "issuing" /\ job[t].id \in CertIds
      BY JobOfLocked DEF IssueSucceeds, Locked
    <2>2. /\ UNCHANGED <<now, job>>
          /\ pc'[t] = "readback"
          /\ \A u \in Tasks \ {t} : pc'[u] = pc[u] /\ cert'[u] = cert[u]
          /\ \A c \in CertIds \ {job[t].id} : db'[c] = db[c]
          /\ db'[job[t].id] = cert'[t]
      BY <2>1 DEF IssueSucceeds, Goto, TypeInv, TypeOK
    <2>3. ASSUME NEW u \in Tasks, u # t, pc'[u] \in Locked
          PROVE  /\ pc[u] = pc'[u] /\ cert'[u] = cert[u]
                 /\ db'[job[u].id] = db[job[u].id]
      <3>1. pc[u] = pc'[u] /\ job[u].id \in CertIds
        BY <2>2, <2>3, JobOfLocked
      <3>2. job[u].id # job[t].id
        BY <1>1, <2>1, <2>3, <3>1 DEF OneIssuerPerCert, Locked
      <3> QED BY <2>2, <2>3, <3>1, <3>2
    <2>4. NoRedundantIssuance'
      <3> SUFFICES ASSUME NEW u \in Tasks, pc'[u] = "issuing"
                   PROVE  ~IsFresh(db'[job'[u].id], now')
        BY DEF NoRedundantIssuance
      <3>1. u # t /\ pc[u] = "issuing" /\ db'[job[u].id] = db[job[u].id]
        BY <2>2, <2>3 DEF Locked
      <3>2. ~IsFresh(db[job[u].id], now)
        BY <3>1 DEF FlightInv, NoRedundantIssuance
      <3> QED BY <2>2, <3>1, <3>2
    <2>5. ReadBackOwn'
      BY <2>2, <2>3 DEF ReadBackOwn, FlightInv, Locked, SameCert
    <2> QED BY <2>4, <2>5 DEF FlightInv
  <1>3. CASE \A t \in Tasks : ~IssueSucceeds(t)
    <2>1. StoresNothing /\ now <= now'
      BY <1>3, OnlyIssueStores, ClockForward
    <2>2. NoRedundantIssuance'
      <3> SUFFICES ASSUME NEW t \in Tasks, pc'[t] = "issuing"
                   PROVE  ~IsFresh(db'[job'[t].id], now')
        BY DEF NoRedundantIssuance
      <3>1. job'[t].id \in CertIds
        BY <1>1 DEF TypeInv, JobsInHand, Jobs, InCall, Locked
      <3>2. ~IsFresh(db[job'[t].id], now)
        BY StageReached DEF RecheckMiss, FlightInv, NoRedundantIssuance
      <3> QED BY <1>1, <2>1, <3>1, <3>2, FreshnessFades
    <2>3. ReadBackOwn'
      <3> SUFFICES ASSUME NEW t \in Tasks, pc'[t] = "readback", db'[job'[t].id] # NoRow
                   PROVE  SameCert(db'[job'[t].id], cert'[t])
        BY DEF ReadBackOwn
      <3>1. pc[t] = "readback" /\ job'[t] = job[t] /\ cert'[t] = cert[t]
        BY <1>3, StageReached
      <3>2. job[t].id \in CertIds
        BY <3>1, JobOfLocked DEF Locked
      <3>3. db[job[t].id] # NoRow /\ SameCert(db[job[t].id], db'[job[t].id])
        BY <2>1, <3>1, <3>2 DEF StoresNothing
      <3>4. SameCert(db[job[t].id], cert[t])
        BY <3>1, <3>3 DEF FlightInv, ReadBackOwn
      <3> QED BY <3>1, <3>3, <3>4 DEF SameCert
    <2> QED BY <2>2, <2>3 DEF FlightInv
  <1> QED BY <1>2, <1>3

THEOREM Invariance == Spec => []Inv
  <1>1. Init => FlightInv
    BY DEF Init, FirstPc, FlightInv, NoRedundantIssuance, ReadBackOwn
  <1>2. Inv /\ [Next]_vars => Inv'
    BY TypeInvStep, LockInvStep, FlightInvStep DEF Inv
  <1>3. Init => Inv
    BY <1>1, TypeInvInit, LockInvInit DEF Inv
  <1> QED BY <1>2, <1>3, PTL DEF Spec

\* The certificate authority is never asked for a certificate of which a
\* fresh one is stored: the second look under the lock, mutual exclusion and
\* the fact that nothing else stores certificates make it so.
THEOREM NothingIssuedTwice == Spec => []NoRedundantIssuance
  <1>1. Inv => NoRedundantIssuance
    BY DEF Inv, FlightInv
  <1> QED BY <1>1, Invariance, PTL

\* What a call returns after an issuance is the certificate just issued.
THEOREM OwnCertificateReadBack == Spec => []ReadBackOwn
  <1>1. Inv => ReadBackOwn
    BY DEF Inv, FlightInv
  <1> QED BY <1>1, Invariance, PTL

\* No step of any task replaces a certificate that needs no renewal.
THEOREM FreshCertificatesKept == Spec => FreshCertKept
  <1> DEFINE Kept == \A c \in CertIds :
        IsFresh(db[c], now) /\ db'[c] # NoRow => SameCert(db[c], db'[c])
  <1>1. Inv /\ [Next]_vars => Kept
    <2> SUFFICES ASSUME Inv, [Next]_vars, NEW c \in CertIds,
                        IsFresh(db[c], now), db'[c] # NoRow
                 PROVE  SameCert(db[c], db'[c])
      OBVIOUS
    <2> USE DEF Inv
    <2>1. CASE \E t \in Tasks : IssueSucceeds(t)
      <3> PICK t \in Tasks : IssueSucceeds(t)
        BY <2>1
      <3>1. pc[t] = "issuing" /\ job[t].id \in CertIds
        BY JobOfLocked DEF IssueSucceeds, Locked
      <3>2. c # job[t].id
        BY <3>1 DEF FlightInv, NoRedundantIssuance
      <3>3. db'[c] = db[c]
        BY <3>1, <3>2 DEF IssueSucceeds, TypeInv, TypeOK
      <3> QED BY <3>3 DEF SameCert
    <2>2. CASE \A t \in Tasks : ~IssueSucceeds(t)
      BY <2>2, OnlyIssueStores DEF StoresNothing
    <2> QED BY <2>1, <2>2
  <1> QED BY <1>1, Invariance, PTL DEF Spec, FreshCertKept

-----------------------------------------------------------------------------
(* Every row and every call comes from the running configuration *)

\* r, a row or a job, is about the certificate with id c.
OfConfig(c, r) ==
    /\ r.source \in DOMAIN config.certs
    /\ r.source = c[1]
    /\ r.names \in (IF c[2] = NoHost THEN NameLists ELSE {c[2]})

RowsOfConfig == \A c \in CertIds : db[c] # NoRow => OfConfig(c, db[c])

BatchOfConfig == \A c \in CertIds : batch[c] # NoRow => OfConfig(c, batch[c])

CallsOfConfig ==
    /\ \A t \in Tasks : pc[t] \in InCall => OfConfig(job[t].id, job[t])
    /\ pc[Startup] = "drop" => OfConfig(job[Startup].id, job[Startup])
    /\ ProviderDefined

OriginInv == RowsOfConfig /\ BatchOfConfig /\ CallsOfConfig

LEMMA RequestOrigin ==
    ASSUME epoch \in 1..Len(Deployments),
           NEW s \in DOMAIN config.certs, NEW host \in Hosts \cup {NoHost},
           host = NoHost => s \in NamedSources(config)
    PROVE  LET j == RequestJob(s, host)
           IN  OfConfig(j.id, j) /\ j.provider = config.certs[s].provider
  <1>1. config.certs[s].names \in NameLists \cup {NoNames}
    BY ConfigType DEF IsConfig
  <1>2. host = NoHost => config.certs[s].names # NoNames
    BY DEF NamedSources
  <1> QED BY <1>1, <1>2, NullAssumption
        DEF RequestJob, OfConfig, CertIdOf, NamesOf, NamedId

\* Rows that lose nothing but their time of request keep their origin.
LEMMA OriginOfRows ==
    ASSUME TypeInv, TypeInv', OriginInv, StoresNothing, UNCHANGED epoch
    PROVE  RowsOfConfig'
  <1> SUFFICES ASSUME NEW c \in CertIds, db'[c] # NoRow PROVE OfConfig(c, db[c])'
    BY DEF RowsOfConfig
  <1>1. db[c] \in Rows /\ db'[c] \in Rows /\ SameCert(db[c], db'[c])
    BY DEF StoresNothing, TypeInv, TypeOK
  <1>2. db'[c].source = db[c].source /\ db'[c].names = db[c].names
    BY <1>1, SameCertFields
  <1>3. OfConfig(c, db[c])
    BY <1>1, NoRowAssumption DEF OriginInv, RowsOfConfig
  <1> QED BY <1>2, <1>3 DEF OfConfig, config

\* A task that is in no call after its step, or goes on with the call it was
\* in, leaves the calls as they were.
LEMMA OriginOfCalls ==
    ASSUME CallsOfConfig, UNCHANGED epoch, NEW t \in Tasks,
           \A u \in Tasks \ {t} : pc'[u] = pc[u] /\ job'[u] = job[u],
           \/ pc'[t] \notin InCall \cup {"drop"}
           \/ pc[t] \in InCall /\ pc'[t] \in InCall /\ job'[t] = job[t]
    PROVE  CallsOfConfig'
  <1>1. config' = config
    BY DEF config
  <1>2. ASSUME NEW u \in Tasks, pc'[u] \in InCall
        PROVE  pc[u] \in InCall /\ job'[u] = job[u]
    BY <1>2
  <1>3. ASSUME NEW u \in Tasks, pc'[u] \in InCall
        PROVE  OfConfig(job[u].id, job[u])' /\ job'[u].provider \in config.providers
    <2>1. pc[u] \in InCall /\ job'[u] = job[u]
      BY <1>2, <1>3
    <2>2. OfConfig(job[u].id, job[u]) /\ job[u].provider \in config.providers
      BY <2>1 DEF CallsOfConfig, ProviderDefined, InCall
    <2> QED BY <1>1, <2>1, <2>2 DEF OfConfig
  <1>4. ASSUME pc'[Startup] = "drop"
        PROVE  OfConfig(job[Startup].id, job[Startup])'
    <2>1. Startup \in Tasks /\ "drop" \notin InCall
      BY DEF Tasks, InCall, Locked
    <2>2. pc[Startup] = "drop" /\ job'[Startup] = job[Startup]
      BY <1>4, <2>1
    <2>3. OfConfig(job[Startup].id, job[Startup])
      BY <2>2 DEF CallsOfConfig
    <2> QED BY <1>1, <2>2, <2>3 DEF OfConfig
  <1>5. ProviderDefined'
    BY <1>1, <1>3 DEF ProviderDefined, InCall
  <1> QED BY <1>3, <1>4, <1>5 DEF CallsOfConfig

\* A new call.
LEMMA OriginOfNewCall ==
    ASSUME CallsOfConfig, UNCHANGED epoch, NEW t \in Tasks,
           \A u \in Tasks \ {t} : pc'[u] = pc[u] /\ job'[u] = job[u],
           pc'[t] = "map", OfConfig(job'[t].id, job'[t]), job'[t].provider \in config.providers
    PROVE  CallsOfConfig'
  <1>1. config' = config
    BY DEF config
  <1>2. ASSUME NEW u \in Tasks, pc'[u] \in InCall
        PROVE  OfConfig(job[u].id, job[u])' /\ job'[u].provider \in config.providers
    <2>1. CASE u = t
      BY <1>1, <2>1 DEF OfConfig
    <2>2. CASE u # t
      <3>1. pc[u] \in InCall /\ job'[u] = job[u]
        BY <1>2, <2>2
      <3>2. OfConfig(job[u].id, job[u]) /\ job[u].provider \in config.providers
        BY <3>1 DEF CallsOfConfig, ProviderDefined, InCall
      <3> QED BY <1>1, <3>1, <3>2 DEF OfConfig
    <2> QED BY <2>1, <2>2
  <1>3. ASSUME pc'[Startup] = "drop"
        PROVE  OfConfig(job[Startup].id, job[Startup])'
    <2>1. Startup \in Tasks /\ Startup # t
      BY <1>3 DEF Tasks
    <2>2. pc[Startup] = "drop" /\ job'[Startup] = job[Startup]
      BY <1>3, <2>1
    <2>3. OfConfig(job[Startup].id, job[Startup])
      BY <2>2 DEF CallsOfConfig
    <2> QED BY <1>1, <2>2, <2>3 DEF OfConfig
  <1>4. ProviderDefined'
    BY <1>1, <1>2 DEF ProviderDefined, InCall
  <1> QED BY <1>2, <1>3, <1>4 DEF CallsOfConfig

LEMMA CallsStep ==
    ASSUME TypeInv, OriginInv, Next, ~Restart
    PROVE  CallsOfConfig'
  <1> USE DEF Goto, OriginInv
  <1>0. Startup \in Tasks /\ Cron \in Tasks /\ Handlers \subseteq Tasks
    BY DEF Tasks
  <1>a. epoch \in 1..Len(Deployments)
    BY DEF TypeInv, TypeOK
  <1>1. ASSUME NEW t \in Tasks, Issue(t) PROVE CallsOfConfig'
    <2>1. CASE AcquireCertLock(t) \/ LockGranted(t) \/ RecheckMiss(t) \/ IssueSucceeds(t)
      BY <2>1, OriginOfCalls
      DEF AcquireCertLock, LockGranted, RecheckMiss, IssueSucceeds, InCall, Locked, TypeInv, TypeOK
    <2>2. CASE PoolTimeout(t) \/ RecheckHit(t) \/ IssueFails(t) \/ ReadBack(t)
      BY <2>2, OriginOfCalls
      DEF PoolTimeout, RecheckHit, IssueFails, ReadBack, Return, InCall, Locked, TypeInv, TypeOK
    <2>3. CASE ReadBackPanics(t)
      BY <2>3, OriginOfCalls DEF ReadBackPanics, Unwind, InCall, Locked, TypeInv, TypeOK
    <2> QED BY <1>1, <2>1, <2>2, <2>3 DEF Issue
  <1>2. ASSUME NEW t \in Tasks, DbPanic(t) PROVE CallsOfConfig'
    BY <1>2, OriginOfCalls DEF DbPanic, Unwind, InCall, Locked, TypeInv, TypeOK
  <1>3. ASSUME NEW h \in Handlers, Handle(h) PROVE CallsOfConfig'
    <2>1. ASSUME NEW s \in DOMAIN config.certs, NEW host \in Hosts, RequestMiss(h, s, host)
          PROVE  CallsOfConfig'
      <3>1. /\ OfConfig(RequestJob(s, host).id, RequestJob(s, host))
            /\ RequestJob(s, host).provider \in config.providers
        BY <1>a, <2>1, RequestOrigin, NullAssumption DEF RequestMiss
      <3>2. pc'[h] = "map" /\ job'[h] = RequestJob(s, host) /\ UNCHANGED epoch
        BY <1>0, <2>1 DEF RequestMiss, Call, TypeInv, TypeOK
      <3>3. \A u \in Tasks \ {h} : pc'[u] = pc[u] /\ job'[u] = job[u]
        BY <1>0, <2>1 DEF RequestMiss, Call, TypeInv, TypeOK
      <3> QED BY <1>0, <3>1, <3>2, <3>3, OriginOfNewCall
    <2>2. ASSUME NEW s \in DOMAIN config.certs, NEW host \in Hosts, RequestHit(h, s, host)
          PROVE  CallsOfConfig'
      BY <1>0, <2>2, OriginOfCalls DEF RequestHit, InCall, Locked, TypeInv, TypeOK
    <2>3. CASE Answer(h)
      BY <1>0, <2>3, OriginOfCalls DEF Answer, InCall, Locked, TypeInv, TypeOK
    <2> QED BY <1>3, <2>1, <2>2, <2>3 DEF Handle
  <1>4. CASE StartupStep
    <2>1. ASSUME NEW s \in scan
          PROVE  /\ OfConfig(StartupJob(s).id, StartupJob(s))
                 /\ StartupJob(s).provider = config.certs[s].provider
      <3>1. s \in NamedSources(config) /\ s \in DOMAIN config.certs
        BY <1>a, ConfigType DEF TypeInv, JobsInHand
      <3> QED BY <1>a, <3>1, RequestOrigin DEF StartupJob
    <2>2. ASSUME NEW s \in Sources, StartupSkip(s) PROVE CallsOfConfig'
      BY <2>2 DEF StartupSkip, CallsOfConfig, OfConfig, ProviderDefined, config
    <2>3. ASSUME NEW s \in Sources, StartupIssue(s) PROVE CallsOfConfig'
      <3>1. /\ OfConfig(StartupJob(s).id, StartupJob(s))
            /\ StartupJob(s).provider \in config.providers
        BY <2>1, <2>3 DEF StartupIssue
      <3>2. pc'[Startup] = "map" /\ job'[Startup] = StartupJob(s) /\ UNCHANGED epoch
        BY <1>0, <2>3 DEF StartupIssue, Call, TypeInv, TypeOK
      <3>3. \A u \in Tasks \ {Startup} : pc'[u] = pc[u] /\ job'[u] = job[u]
        BY <1>0, <2>3 DEF StartupIssue, Call, TypeInv, TypeOK
      <3> QED BY <1>0, <3>1, <3>2, <3>3, OriginOfNewCall
    <2>4. ASSUME NEW s \in Sources, StartupProviderChanged(s) PROVE CallsOfConfig'
      <3>1. OfConfig(StartupJob(s).id, StartupJob(s))
        BY <2>1, <2>4 DEF StartupProviderChanged
      <3>2. pc'[Startup] = "drop" /\ job'[Startup] = StartupJob(s) /\ UNCHANGED epoch
        BY <1>0, <2>4 DEF StartupProviderChanged, TypeInv, TypeOK
      <3>3. \A u \in Tasks \ {Startup} : pc'[u] = pc[u] /\ job'[u] = job[u]
        BY <1>0, <2>4 DEF StartupProviderChanged, TypeInv, TypeOK
      <3> QED BY <3>1, <3>2, <3>3
            DEF CallsOfConfig, OfConfig, ProviderDefined, InCall, Locked, config
    <2>5. CASE StartupDrop
      <3>1. CASE job[Startup].provider \in config.providers
        <4>1. OfConfig(job[Startup].id, job[Startup])
          BY <2>5 DEF StartupDrop, CallsOfConfig
        <4>2. pc'[Startup] = "map" /\ UNCHANGED <<job, epoch>>
          BY <1>0, <2>5, <3>1 DEF StartupDrop, TypeInv, TypeOK
        <4>3. \A u \in Tasks \ {Startup} : pc'[u] = pc[u] /\ job'[u] = job[u]
          BY <1>0, <2>5, <3>1 DEF StartupDrop, TypeInv, TypeOK
        <4> QED BY <1>0, <3>1, <4>1, <4>2, <4>3, OriginOfNewCall
      <3>2. CASE job[Startup].provider \notin config.providers
        BY <1>0, <2>5, <3>2, OriginOfCalls DEF StartupDrop, InCall, Locked, TypeInv, TypeOK
      <3> QED BY <3>1, <3>2
    <2>6. CASE StartupDone
      BY <1>0, <2>6, OriginOfCalls DEF StartupDone, InCall, Locked, TypeInv, TypeOK
    <2> QED BY <1>4, <2>2, <2>3, <2>4, <2>5, <2>6 DEF StartupStep
  <1>5. CASE CronStep
    <2>1. ASSUME NEW c \in CertIds, CronRenew(c) PROVE CallsOfConfig'
      <3>1. OfConfig(CronJob(c).id, CronJob(c)) /\ CronJob(c).provider \in config.providers
        BY <2>1 DEF CronRenew, CronPick, CronJob, NeedsDeletion, BatchOfConfig, OfConfig
      <3>2. pc'[Cron] = "map" /\ job'[Cron] = CronJob(c) /\ UNCHANGED epoch
        BY <1>0, <2>1 DEF CronRenew, Call, TypeInv, TypeOK
      <3>3. \A u \in Tasks \ {Cron} : pc'[u] = pc[u] /\ job'[u] = job[u]
        BY <1>0, <2>1 DEF CronRenew, Call, TypeInv, TypeOK
      <3> QED BY <1>0, <3>1, <3>2, <3>3, OriginOfNewCall
    <2>2. ASSUME NEW c \in CertIds, CronDelete(c) \/ CronSkip(c) PROVE CallsOfConfig'
      BY <2>2 DEF CronDelete, CronSkip, CallsOfConfig, OfConfig, ProviderDefined, config
    <2>3. CASE CronTick \/ CronDone
      BY <1>0, <2>3, OriginOfCalls DEF CronTick, CronDone, InCall, Locked, TypeInv, TypeOK
    <2> QED BY <1>5, <2>1, <2>2, <2>3 DEF CronStep
  <1>6. CASE Tick
    BY <1>6 DEF Tick, volatile, CallsOfConfig, OfConfig, ProviderDefined, config
  <1> QED BY <1>1, <1>2, <1>3, <1>4, <1>5, <1>6 DEF Next

\* The maintenance job's copies are rows of the table.
LEMMA CopiesOnly ==
    ASSUME TypeInv, Next, ~Restart
    PROVE  UNCHANGED epoch /\ \A c \in CertIds : batch'[c] \in {batch[c], db[c], NoRow}
  <1> DEFINE Copies == UNCHANGED epoch /\ \A c \in CertIds : batch'[c] \in {batch[c], db[c], NoRow}
  <1>1. ASSUME NEW t \in Tasks, Issue(t) PROVE Copies
    BY <1>1 DEF Issue, AcquireCertLock, LockGranted, PoolTimeout, RecheckHit, RecheckMiss,
                IssueFails, IssueSucceeds, ReadBack, ReadBackPanics, Return, Unwind, Empty
  <1>2. ASSUME NEW t \in Tasks, DbPanic(t) PROVE Copies
    BY <1>2 DEF DbPanic, Unwind, Empty
  <1>3. ASSUME NEW h \in Handlers, Handle(h) PROVE Copies
    BY <1>3 DEF Handle, RequestHit, RequestMiss, Answer
  <1>4. CASE StartupStep
    BY <1>4 DEF StartupStep, StartupSkip, StartupIssue, StartupProviderChanged, StartupDrop,
                StartupDone
  <1>5. CASE CronStep
    BY <1>5 DEF CronStep, CronDelete, CronSkip, CronRenew, CronPick, CronTick, CronDone,
                TypeInv, TypeOK
  <1>6. CASE Tick
    BY <1>6 DEF Tick, volatile
  <1> QED BY <1>1, <1>2, <1>3, <1>4, <1>5, <1>6 DEF Next

LEMMA BatchStep ==
    ASSUME TypeInv, OriginInv, Next, ~Restart
    PROVE  BatchOfConfig' /\ UNCHANGED epoch
  BY CopiesOnly DEF OriginInv, RowsOfConfig, BatchOfConfig, OfConfig, config

LEMMA RowsStep ==
    ASSUME TypeInv, OriginInv, Next, ~Restart
    PROVE  RowsOfConfig'
  <1>0. TypeInv' /\ UNCHANGED epoch
    BY TypeInvStep, BatchStep
  <1>1. CASE \E t \in Tasks : IssueSucceeds(t)
    <2> PICK t \in Tasks : IssueSucceeds(t)
      BY <1>1
    <2>1. job[t].id \in CertIds
      BY JobOfLocked DEF IssueSucceeds, Locked
    <2>2. PICK l \in Lifetimes : db' = [db EXCEPT ![job[t].id] = NewRow(job[t], l)]
      BY DEF IssueSucceeds
    <2>3. OfConfig(job[t].id, job[t])
      BY DEF IssueSucceeds, OriginInv, CallsOfConfig, InCall, Locked
    <2>4. OfConfig(job[t].id, NewRow(job[t], l))
      BY <2>3 DEF OfConfig, NewRow
    <2>5. \A c \in CertIds : db'[c] # NoRow => OfConfig(c, db'[c])
      BY <2>1, <2>2, <2>4 DEF OriginInv, RowsOfConfig, TypeInv, TypeOK
    <2> QED BY <1>0, <2>5 DEF RowsOfConfig, OfConfig, config
  <1>2. CASE \A t \in Tasks : ~IssueSucceeds(t)
    BY <1>0, <1>2, OnlyIssueStores, OriginOfRows
  <1> QED BY <1>1, <1>2

\* A restart removes the rows that the new configuration knows nothing of.
LEMMA RestartOrigin ==
    ASSUME TypeInv, OriginInv, Restart
    PROVE  OriginInv'
  <1>1. RowsOfConfig'
    BY DEF Restart, Cleanup, OriginInv, RowsOfConfig, OfConfig
  <1>2. BatchOfConfig'
    BY DEF Restart, Empty, BatchOfConfig
  <1>3. CallsOfConfig'
    BY TaskAssumption
    DEF Restart, FirstPc, CallsOfConfig, ProviderDefined, InCall, Locked, Tasks
  <1> QED BY <1>1, <1>2, <1>3 DEF OriginInv

THEOREM OriginInvariant == Spec => [](TypeInv /\ OriginInv)
  <1>1. Init => OriginInv
    BY TaskAssumption
    DEF Init, OriginInv, RowsOfConfig, BatchOfConfig, CallsOfConfig, ProviderDefined, Empty,
        FirstPc, InCall, Locked, Tasks
  <1>2. TypeInv /\ OriginInv /\ [Next]_vars => OriginInv'
    <2> SUFFICES ASSUME TypeInv, OriginInv, [Next]_vars PROVE OriginInv'
      OBVIOUS
    <2>1. CASE Restart
      BY <2>1, RestartOrigin
    <2>2. CASE Next /\ ~Restart
      BY <2>2, RowsStep, BatchStep, CallsStep DEF OriginInv
    <2>3. CASE UNCHANGED vars
      BY <2>3 DEF vars, OriginInv, RowsOfConfig, BatchOfConfig, CallsOfConfig, ProviderDefined,
                  OfConfig, config
    <2> QED BY <2>1, <2>2, <2>3
  <1> QED BY <1>1, <1>2, TypeInvInit, TypeInvStep, PTL DEF Spec

\* No row of a configuration that is gone survives the start or comes back
\* from a copy that a task still holds.
THEOREM NoOrphans == Spec => []NoOrphanRow
  <1>1. OriginInv => NoOrphanRow
    BY DEF OriginInv, RowsOfConfig, OfConfig, NoOrphanRow
  <1> QED BY <1>1, OriginInvariant, PTL

\* A row is about the names its id stands for, whoever wrote it.
THEOREM RowsMatchTheirIds == Spec => []RowMatchesId
  <1>1. OriginInv => RowMatchesId
    BY DEF OriginInv, RowsOfConfig, OfConfig, RowMatchesId
  <1> QED BY <1>1, OriginInvariant, PTL

\* The provider of a call is always defined: the unwrap() of the maintenance
\* job's provider lookup cannot fail.
THEOREM ProvidersDefined == Spec => []ProviderDefined
  <1>1. OriginInv => ProviderDefined
    BY DEF OriginInv, CallsOfConfig
  <1> QED BY <1>1, OriginInvariant, PTL

-----------------------------------------------------------------------------
(* Answers *)

AnswerInv ==
    /\ \A t \in Tasks : pc[t] \in InCall => job[t].since <= now
    /\ pc[Startup] = "drop" => job[Startup].since <= now
    /\ \A t \in Tasks : pc[t] = "readback" => cert[t].expires > job[t].since
    /\ AnswerWasValid

\* A call that ends keeps the others as they were.
LEMMA ReturnAnswer ==
    ASSUME TypeInv, AnswerInv, NEW t \in Tasks, pc[t] \in Locked,
           NEW row \in Rows \cup {NoRow}, Return(t, row),
           row # NoRow => row.expires > job[t].since
    PROVE  AnswerInv'
  <1>1. \A u \in Tasks \ {t} : pc'[u] = pc[u] /\ job'[u] = job[u] /\ cert'[u] = cert[u]
    BY DEF Return, Goto, TypeInv, TypeOK
  <1>2. pc'[t] \notin InCall \cup {"drop"} /\ now' = now
    BY DEF Return, Goto, TypeInv, TypeOK, InCall, Locked
  <1>3. pc'[t] = "touch" => cert'[t] = row /\ job'[t] = job[t] /\ row # NoRow
    BY TaskAssumption DEF Return, Goto, Keeps, TypeInv, TypeOK, Tasks, Locked
  <1> QED BY <1>1, <1>2, <1>3 DEF AnswerInv, AnswerWasValid, InCall, Locked, Tasks

LEMMA UnwindAnswer ==
    ASSUME TypeInv, AnswerInv, NEW t \in Tasks, Unwind(t)
    PROVE  AnswerInv'
  <1>1. \A u \in Tasks \ {t} : pc'[u] = pc[u] /\ job'[u] = job[u] /\ cert'[u] = cert[u]
    BY DEF Unwind, Goto, TypeInv, TypeOK
  <1>2. pc'[t] \notin InCall \cup {"drop", "touch"} /\ now' = now
    BY DEF Unwind, Goto, TypeInv, TypeOK, InCall, Locked
  <1> QED BY <1>1, <1>2 DEF AnswerInv, AnswerWasValid, InCall, Locked, Tasks

\* A step that keeps every task where it is, or moves one task within a call
\* short of its issuance, asks and answers nothing.
LEMMA OtherAnswer ==
    ASSUME TypeInv, AnswerInv, now \in Int, now' \in Int, now <= now', NEW t \in Tasks,
           \A u \in Tasks \ {t} : pc'[u] = pc[u] /\ job'[u] = job[u] /\ cert'[u] = cert[u],
           \/ pc'[t] \notin InCall \cup {"drop", "touch"}
           \/ /\ pc[t] \in InCall \cup {"drop"} /\ job'[t] = job[t]
              /\ pc[t] = "drop" => t = Startup
              /\ pc'[t] \in {"map", "wait", "recheck", "issuing"}
    PROVE  AnswerInv'
  <1>1. \A u \in Tasks : pc[u] \in InCall => job[u].since \in Int
    BY DEF TypeInv, JobsInHand, Jobs
  <1>2. pc[Startup] = "drop" => job[Startup].since \in Int
    BY DEF TypeInv, JobsInHand, Jobs
  <1> QED BY <1>1, <1>2 DEF AnswerInv, AnswerWasValid, InCall, Locked, Tasks

\* A call is made at the time the row was looked at.
LEMMA NewCallAnswer ==
    ASSUME TypeInv, AnswerInv, UNCHANGED now, NEW t \in Tasks,
           \A u \in Tasks \ {t} : pc'[u] = pc[u] /\ job'[u] = job[u] /\ cert'[u] = cert[u],
           pc'[t] \in {"map", "drop"}, job'[t].since = now
    PROVE  AnswerInv'
  <1>1. now \in Int
    BY DEF TypeInv, TypeOK
  <1> QED BY <1>1 DEF AnswerInv, AnswerWasValid, InCall, Locked, Tasks

LEMMA AnswerInvStep ==
    ASSUME \A l \in Lifetimes : l > 0, Inv, AnswerInv, [Next]_vars
    PROVE  AnswerInv'
  <1> USE DEF Goto, Inv
  <1>0. Startup \in Tasks /\ Cron \in Tasks /\ Handlers \subseteq Tasks /\ Startup # Cron
        /\ Startup \notin Handlers
    BY TaskAssumption DEF Tasks
  <1>a. now \in Int /\ now' \in Int /\ now <= now'
    BY ClockForward
  <1>1. ASSUME NEW t \in Tasks, Issue(t) PROVE AnswerInv'
    <2>0. ASSUME pc[t] \in Locked
          PROVE  /\ job[t].since \in Int /\ job[t].since <= now
                 /\ db[job[t].id] \in Rows \cup {NoRow}
                 /\ db[job[t].id] # NoRow => db[job[t].id].expires \in Int
      <3>1. job[t] \in Jobs /\ job[t].id \in CertIds
        BY <2>0, JobOfLocked
      <3> QED BY <2>0, <3>1 DEF Jobs, Rows, AnswerInv, InCall, TypeInv, TypeOK
    <2>1. CASE AcquireCertLock(t) \/ LockGranted(t) \/ RecheckMiss(t)
      BY <1>a, <2>1, OtherAnswer
      DEF AcquireCertLock, LockGranted, RecheckMiss, InCall, Locked, TypeInv, TypeOK
    <2>2. CASE PoolTimeout(t) \/ IssueFails(t)
      BY <2>2, ReturnAnswer DEF PoolTimeout, IssueFails, Locked
    <2>3. CASE RecheckHit(t)
      <3>1. db[job[t].id] # NoRow => db[job[t].id].expires > job[t].since
        BY <1>a, <2>0, <2>3, TimeAssumption DEF RecheckHit, IsFresh, NeedsRenewal, Locked
      <3> QED BY <2>0, <2>3, <3>1, ReturnAnswer DEF RecheckHit, Locked
    <2>4. CASE IssueSucceeds(t)
      <3>1. PICK l \in Lifetimes : cert' = [cert EXCEPT ![t] = NewRow(job[t], l)]
        BY <2>4 DEF IssueSucceeds
      <3>2. cert'[t].expires = now + l /\ l \in Int /\ l > 0
        BY <3>1, LifetimeAssumption DEF NewRow, TypeInv, TypeOK
      <3>3. cert'[t].expires > job[t].since
        BY <1>a, <2>0, <2>4, <3>2 DEF IssueSucceeds, Locked
      <3>4. \A u \in Tasks \ {t} : pc'[u] = pc[u] /\ cert'[u] = cert[u]
        BY <2>4, <3>1 DEF IssueSucceeds, TypeInv, TypeOK
      <3>5. pc[t] = "issuing" /\ pc'[t] = "readback" /\ UNCHANGED <<now, job>>
        BY <2>4 DEF IssueSucceeds, TypeInv, TypeOK
      <3> QED BY <3>3, <3>4, <3>5 DEF AnswerInv, AnswerWasValid, InCall, Locked, Tasks
    <2>5. CASE ReadBack(t)
      <3>1. SameCert(db[job[t].id], cert[t]) /\ cert[t] \in Rows /\ db[job[t].id] \in Rows
        BY <2>0, <2>5 DEF ReadBack, FlightInv, ReadBackOwn, TypeInv, JobsInHand, Locked
      <3>2. db[job[t].id].expires = cert[t].expires
        BY <3>1, SameCertFields
      <3>3. db[job[t].id].expires > job[t].since
        BY <2>5, <3>2 DEF ReadBack, AnswerInv
      <3> QED BY <2>5, <3>1, <3>3, ReturnAnswer DEF ReadBack, Locked
    <2>6. CASE ReadBackPanics(t)
      BY <2>6, UnwindAnswer DEF ReadBackPanics
    <2> QED BY <1>1, <2>1, <2>2, <2>3, <2>4, <2>5, <2>6 DEF Issue
  <1>2. ASSUME NEW t \in Tasks, DbPanic(t) PROVE AnswerInv'
    BY <1>2, UnwindAnswer DEF DbPanic
  <1>3. ASSUME NEW h \in Handlers, Handle(h) PROVE AnswerInv'
    <2>1. ASSUME NEW s \in DOMAIN config.certs, NEW host \in Hosts, RequestHit(h, s, host)
          PROVE  AnswerInv'
      <3>1. db[CertIdOf(config, s, host)] \in Rows
        <4>1. CertIdOf(config, s, host) \in CertIds
          BY ConfigType DEF CertIdOf, NamedId, CertIds, IsConfig, TypeInv, TypeOK
        <4> QED BY <2>1, <4>1 DEF RequestHit, Usable, TypeInv, TypeOK
      <3>2. cert'[h].expires > job'[h].since /\ pc'[h] = "touch" /\ UNCHANGED now
        BY <1>0, <1>a, <2>1, <3>1
        DEF RequestHit, RequestJob, Usable, IsExpired, Rows, TypeInv, TypeOK
      <3>3. \A u \in Tasks \ {h} : pc'[u] = pc[u] /\ job'[u] = job[u] /\ cert'[u] = cert[u]
        BY <1>0, <2>1 DEF RequestHit, TypeInv, TypeOK
      <3> QED BY <1>0, <3>2, <3>3 DEF AnswerInv, AnswerWasValid, InCall, Locked
    <2>2. ASSUME NEW s \in DOMAIN config.certs, NEW host \in Hosts, RequestMiss(h, s, host)
          PROVE  AnswerInv'
      BY <1>0, <2>2, NewCallAnswer DEF RequestMiss, RequestJob, Call, TypeInv, TypeOK
    <2>3. CASE Answer(h)
      BY <1>0, <1>a, <2>3, OtherAnswer DEF Answer, InCall, Locked, TypeInv, TypeOK
    <2> QED BY <1>3, <2>1, <2>2, <2>3 DEF Handle
  <1>4. CASE StartupStep
    <2>1. ASSUME NEW s \in Sources, StartupSkip(s) PROVE AnswerInv'
      BY <2>1 DEF StartupSkip, AnswerInv, AnswerWasValid
    <2>2. ASSUME NEW s \in Sources, StartupIssue(s) \/ StartupProviderChanged(s)
          PROVE  AnswerInv'
      BY <1>0, <2>2, NewCallAnswer
      DEF StartupIssue, StartupProviderChanged, StartupJob, RequestJob, Call, TypeInv, TypeOK
    <2>3. CASE StartupDrop \/ StartupDone
      BY <1>0, <1>a, <2>3, OtherAnswer DEF StartupDrop, StartupDone, InCall, Locked, TypeInv, TypeOK
    <2> QED BY <1>4, <2>1, <2>2, <2>3 DEF StartupStep
  <1>5. CASE CronStep
    <2>1. ASSUME NEW c \in CertIds, CronRenew(c) PROVE AnswerInv'
      BY <1>0, <2>1, NewCallAnswer DEF CronRenew, CronJob, Call, TypeInv, TypeOK
    <2>2. ASSUME NEW c \in CertIds, CronDelete(c) \/ CronSkip(c) PROVE AnswerInv'
      BY <2>2 DEF CronDelete, CronSkip, AnswerInv, AnswerWasValid
    <2>3. CASE CronTick \/ CronDone
      BY <1>0, <1>a, <2>3, OtherAnswer DEF CronTick, CronDone, InCall, Locked, TypeInv, TypeOK
    <2> QED BY <1>5, <2>1, <2>2, <2>3 DEF CronStep
  <1>6. CASE Tick
    <2>1. \A t \in Tasks : pc[t] \in InCall => job[t].since \in Int
      BY DEF TypeInv, JobsInHand, Jobs
    <2>2. pc[Startup] = "drop" => job[Startup].since \in Int
      BY DEF TypeInv, JobsInHand, Jobs
    <2> QED BY <1>6, <1>a, <2>1, <2>2 DEF Tick, volatile, AnswerInv, AnswerWasValid
  <1>7. CASE Restart
    BY <1>7, TaskAssumption DEF Restart, FirstPc, AnswerInv, AnswerWasValid, InCall, Locked, Tasks
  <1>8. CASE UNCHANGED vars
    BY <1>8 DEF vars, AnswerInv, AnswerWasValid
  <1> QED BY <1>1, <1>2, <1>3, <1>4, <1>5, <1>6, <1>7, <1>8 DEF Next

\* As long as no provider hands out a certificate that has already expired,
\* a client that got an answer got a certificate that was valid when it
\* asked, however long it had to wait for locks and providers.
THEOREM AnswersWereValid ==
    ASSUME \A l \in Lifetimes : l > 0
    PROVE  Spec => []AnswerWasValid
  <1>1. Init => AnswerInv
    BY TaskAssumption DEF Init, FirstPc, AnswerInv, AnswerWasValid, InCall, Locked, Tasks
  <1>2. Inv /\ AnswerInv /\ [Next]_vars => AnswerInv'
    BY AnswerInvStep
  <1>3. AnswerInv => AnswerWasValid
    BY DEF AnswerInv
  <1> QED BY <1>1, <1>2, <1>3, Invariance, PTL DEF Spec
=============================================================================
