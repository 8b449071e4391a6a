# A TLA+ model of acme-distributor

acme-distributor is a server that obtains TLS certificates (from Let's Encrypt, a local CA or
files) and hands them out to machines over HTTP, and a client that fetches and installs them.
This directory models the parts of it that are hard to test: what happens when request handlers,
the startup check and the hourly maintenance job work on the same certificates at the same time,
while providers fail, tasks panic, the process is restarted and its configuration changes; what
they hold while they wait for each other; what happens between an ACME provider, the CA and the
store of challenges while a certificate is ordered; and what machines are left with when the
scripts that install certificates on them are cut short.

## The system

Paths are relative to `src/crates/server/src/` unless they say otherwise.

| Component | State | Operations | Talks to | What makes it correct |
|---|---|---|---|---|
| issuance and renewal locks (`cert.rs`) | map from certificate id to a lock; locks are never removed | `issue_certificate_locked`, startup check, cleanup at start | table, providers, pool | one issuance per certificate at a time, none without need, no lock left behind |
| maintenance job (`cron.rs`) | the rows loaded by the run in progress | hourly: delete, renew, clean up challenges | table, locks, providers, challenge store | due rows get renewed; only rows that deserve it are deleted |
| certificate endpoint (`routes/certificate.rs`) | one handler per request | use the stored row or issue, record the request, answer | table, locks, providers | every request is answered, never with an expired certificate |
| certificate table (`db/`) | one row per certificate id in SQLite | find, load all, upsert, touch, delete; a failed statement panics | everybody | a row is what its id says |
| connection pool (`db/repository.rs`) | 10 connections | get (blocks a worker thread, 30 s timeout) | everybody | nobody waits for ever while holding |
| process start (`main.rs`) | -- | cleanup, spawn of the background tasks | table | nothing of an old configuration survives |
| configuration (`src/crates/common/src/config.rs`) | immutable | -- | -- | -- |
| challenge store and endpoint (`challenge_store.rs`, `routes/challenge.rs`) | token -> (value, time) | insert, get, expire, cleanup | ACME providers, the CA | a challenge is there when the CA asks |
| providers (`providers/`) | files, ACME accounts | `issue` | challenge store, CA | certificate, key and expiry belong together |
| token guard (`guards/auth.rs`) | immutable maps | check of a request | -- | a request is admitted by its own token |
| choice of the certificate (`cert.rs`, `find_matching_certificate`) | immutable maps | host to configuration | -- | independent of the order of a HashMap |
| client (`src/crates/client/src/`) | state file, key, issuer, chain | `check`, `fetch` | server | the files match the state |
| NixOS module (`src/module-client.nix`) | `out/`, announcement to services | daily script | client | certificate and key in use match |
| RouterOS script (`src/contrib/routeros.rsc`) | certificate store, stamp, temporary files, service bindings | daily script | server | certificate, key and CA in use match, key files do not lie around |

The components share the table and the lock map. The runtime is multi-threaded, so any two tasks
interleave at every await and at every statement on the database; there are no transactions over
several statements. What is hard in this code: decisions on a row that is read before a wait and
used after it (the handler before the lock, the maintenance job over a whole run), deletions that
do not take the certificate's lock, error paths with the lock held, panics (every failed statement
is one) that end a background task for good, restarts under another configuration, and progress
that depends on somebody else looking at a row. `PROJECT.json` lists these hazards at their lines.

## The modules

| Module | Contents |
|---|---|
| `CertRules` | certificates, rows, configurations, and the pure rules on them: expiry, renewal window, reasons to issue, reasons to delete, id and names of a request |
| `CertServer` | the state machine: table, locks, startup check, maintenance job, request handlers, crashes and restarts; its properties |
| `MCCertServer` | instances for TLC: concrete configurations, symmetry |
| `CertServerProofs` | theorems about `CertServer` and their proofs |
| `SteadyProofs` | more about `CertServer`, as long as the configuration stays the same |
| `ServedProofs` | `CertServer` implements the server of `ServedCert` |
| `Challenges` | the challenge store and its endpoint, the calls of the two ACME providers, acme.sh and the CA |
| `MCChallenges` | instances for TLC |
| `ChallengesProofs` | theorems about `Challenges` and their proofs |
| `CertLedger` | abstract specification: what the server promises about its certificates, without tasks and locks |
| `CertLedgerProofs` | `CertServer` implements `CertLedger` |
| `Admission` | the token guard and the choice of a certificate, as operators on a configuration |
| `AdmissionProofs` | facts about the choice that hold for every configuration |
| `ConnPool` | connections, worker threads and lines for locks, shared by all tasks |
| `MCConnPool` | an instance for TLC with two configurations that have ties and shadowing |
| `ConnPoolProofs` | theorems about `ConnPool` and their proofs |
| `ServedCert` | the server as a machine sees it: the certificate on offer, the clock, a budget of faults |
| `CertClient` | a NixOS machine: client program and installing script |
| `RouterScript` | a MikroTik router and its script |
| `Machines` | either machine beside the server; fairness and liveness |
| `MCMachines` | instances for TLC |
| `MachinesProofs` | theorems about both machines and their proofs |

`CertLedger` is an abstract specification and stands for no code of its own; its state is what of
`CertServer` can be seen from outside. `ConnPool` and `CertServer` are two views of the same tasks:
`ConnPool` leaves out what is in the table (a call may end by a hit, a success or a failure whenever
it could), and `CertServer` reduces the pool to a timeout that may happen. `ServedCert` reduces the
server to the certificate it has on offer, which changes whenever the server likes; `ServedProofs`
shows that this is what becomes of `CertServer` when only one certificate of it is looked at.

`CertServer` and `Challenges` meet in `issue()`: to `CertServer` a call ends in `IssueSucceeds` or
`IssueFails`; `Challenges` shows what happens in between. The maintenance job's last act is `Cleanup`.

### How CertServer corresponds to the code

*State.* `db` is the `certificates` table: for every possible id a row or `NoRow`. A row keeps the
columns that decisions depend on (`source`, `provider`, `names`, `expires_at`, `requested_at`); the
four PEM texts stand and fall with `expires`, and `prefer_renew_before` is derived from it because
every provider returns `expires_at` minus a week. `locks` is the outer map of `RenewalLocks`, each
lock named by the task that inserted it; `holder` says who has locked it. `pc`, `job`, `mutex`,
`cert` are a task's place, its arguments of `issue_certificate_locked`, the lock it cloned from the
map and the certificate in its hand. `scan` is what the startup check has yet to visit, `batch` the
rows the maintenance job has loaded and not yet looked at. `epoch` numbers the server processes and
selects the configuration; `job.since` is history and read by properties only.

*Actions.* An action is the code between two points at which another task can see or do something:
an await or a statement on the table. `issue_certificate_locked` is therefore

    map --AcquireCertLock--> wait --LockGranted--> recheck --RecheckHit / PoolTimeout--> (returns)
                                                      |
                                                 RecheckMiss
                                                      v
        (returns) <--IssueFails-- issuing --IssueSucceeds--> readback --ReadBack / ReadBackPanics-->

`RequestHit`, `RequestMiss` and `Answer` are the handler; `StartupSkip`, `StartupIssue`,
`StartupProviderChanged`, `StartupDrop`, `StartupDone` the startup check; `CronTick`, `CronDelete`,
`CronSkip`, `CronRenew`, `CronDone` the maintenance job. `DbPanic` is a statement that fails: the
task unwinds and drops its lock; a handler answers 500 and a background task is gone. `Restart` is a
crash at any point followed by a start, under the next configuration of `Deployments`, with
`cleanup_removed_certificates` done before anything runs (a crash in the middle of the cleanup is
followed by another cleanup, so it is one step). `Tick` is time passing.

*Abstractions.* A name list, a host and a provider are model values. Which configuration a host
matches is the subject of `Admission`; here a handler may ask for any host under any configuration. Requests that are
refused before the table is read, or for want of a provider or a first connection, change nothing
and are left out. The cleanup at start always gets its connection: the pool is new and the
migrations have just used it. A provider call ends with a certificate of a lifetime in `Lifetimes`,
with an error, or (in the safety runs) not at all.

### How Challenges corresponds to the code

`challenges` is the map of `ChallengeStore`; the value of a token is the key authorization that starts
with it, so only the time of insertion is kept. `Served` is `get`, `Inserted` is `insert`, `Cleanup`
is `cleanup`; each runs under the store's lock without an await, so each is one step.

A call of the acme-sh provider has three parties. `stage` is `issue()`: `child` while it waits for the
process, `reader` while it waits for its reader task, `idle` when it has returned. `child` is acme.sh as the patch makes it: it
writes a key authorization to fd 3 (`Announce`), asks the CA to validate (`Ask`), waits for the
verdict (`Poll`), and goes on with the next authorization; with the patched `RENEW_SKIP=0` it also
exits with success when it has nothing to do. `sent - stored` lines are in the pipe; `ReadLine` is one
round of the reader task. The task also ends when a line cannot be read (`ReadFails`): the call is then
in `broken`, the lines in the pipe are lost, and acme.sh fails at its next announcement
(`AnnounceFails`). When `child.wait()` fails, `issue()` returns before it has waited for anything
(`WaitFails`, stage `lost`), and acme.sh and the reader task go on. A slot of `ShCalls` stands for
the next call when nothing is left of the one before (`Over`); while such a pair goes on, the next
call for the same certificate is another slot. Whether a call ends with a certificate or with an
error (a bad exit status, a file that cannot be read) makes no difference to anything in the model,
so `Return` does not say. `auths` are the authorizations of the order that are still open (none with
DNS validation, which announces nothing). Orders of one account share authorizations, and so tokens:
several calls may announce the same one. The CA (`Fetch`) asks the endpoint whenever it likes; its
request may be lost. acme.sh and the CA are external and modelled as the code relies on them.

A call of the acme-lib provider is `Order`, then `Finalize`, or if an authorization is open
`StoreChallenge`, whose thread panics, so that the call ends with an error. A restart empties the store, ends all calls and, with the service's control group, their
children; what the CA knows stays.

### How Admission and ConnPool correspond to the code

`Admitted` is the request guard of `guards/auth.rs` and `can_access_domain`: `TokenFor` is the lookup
in the map that `build_tokens_map` makes (of two tokens with one hash the later stays; one with
neither hash nor plain text is skipped), `ClientIp` the forwarded address if there is one, a network
the set of its addresses. `Candidates`, `Score`, `Beats` are the three stages of
`find_matching_certificate`: every configuration is represented by its best pattern among `names`
or, if none matches, among `domains`; names have a bonus; the highest pair of score and id wins.
`Winners` is a set because nothing in the definition of a maximum says that there is one, and only
one: that is `WinnerExists` and `WinnerUnique`. Patterns are model values with a length and a number of literal characters, and
`Globs` says which of them match which hosts.

`ConnPool` has one program counter per task. `first` is the connection a handler, an iteration of the
startup check or a run of the maintenance job keeps to its end (`certificate.rs:39`, `cert.rs:319`,
`cron.rs:44`); `second` is the one of `issue_certificate_locked` (`cert.rs:185`). `queue` is for each
certificate the line at its lock, holder first. `Pool::get` is a blocking call: a task in `first` or
`second` occupies a thread, and every other step needs a `FreeWorker`. It ends with a connection or,
when there is none, with `TimesOut`. `Leaves` is the return of `issue_certificate_locked`, on
whichever path; `Rests` the end of the task with everything it still has. Panics end a call like
errors do, by dropping what it has, so they are no steps of their own here.

### How the machines correspond to the code

A certificate is its `expiresAt`, which the server takes to the millisecond when it issues.
`disk` says for each file of `certificates/` and `out/` whose data it holds; a file that was being
written when the run was cut short is `Torn` (`std::fs::write` and `cp` truncate and then fill). `stage`
walks the writes in the order of the client's `main.rs:120-129` (state, key, issuer, chain; the certificate goes to
`/dev/null`) and `module-client.nix:65-71`. `MustFetch` is `check`, with a state file that cannot be
parsed counting as none; `Due` is `should_renew` with what the providers set (`prefer_renew_before` a
week before the end, never `prefer_renew_after`); `fetch` asks the same again and is not told
otherwise by a clock that only goes on. `CompareDiffers` and `CompareSame` are the `if`. `CutShort` is
`set -e` after a failed command, a kill or a power failure. `Post` belongs to nixpkgs: after a run that
succeeded, services are reloaded if `out/renewed` is there. A fetch that is refused ends the run with
nothing changed, so it is no step.

In `RouterScript`, `step` is the next statement that changes something: three files, the removal of
the old entries, three imports, the removal of the files, of the stamp, the new stamp; then the
bindings. `store` holds certificate, key and CA entry by the file they came from; removing them
leaves the services with a dangling reference. For a certificate without CA (`NoCa`; `PartsOf`, `Entries`)
the file is not written and not imported. `Fails` is any statement that raises an error and the
handler that follows; `PowerFails` has no handler; `ImportsNothing` is the silent failure the script
guards against with its look at the leaf; `RemovedByHand` is what "manual changes get corrected too"
is about. `doubtful` is history: it marks the time after the last two until the stamp is next written with
everything imported.

## The checks

`Week`, `TwoDays`, `SixtyDays` are 2, 1, 1 units of a clock bounded by `MaxNow`, so a row passes
through all its ages (fresh, due, stale, expired) in every run; the order of the three periods is
what the rules depend on.

| Run | Instance | Shows |
|---|---|---|
| `locking` | one certificate, two handlers (symmetric), both background tasks, all faults, `MaxNow` 3 | `OneIssuerPerCert`, `NoLeakedLock`, `NoRedundantIssuance`, `ReadBackOwn`, `AnswerWasValid`, `FreshCertKept`, `RequestsRemembered`, `KeepsLedger`, `TypeOK` |
| `reconf` | a named and an on-demand certificate, one handler, and a restart that changes the provider and the names of the one and drops the other and its provider | `NoOrphanRow`, `ProviderDefined`, `RowMatchesId`, `KeepsLedger` |
| `liveness` | the provider of the certificate is replaced; one handler; weak and strong fairness | `RequestsAnswered`, `DueRowsRenewed`, `ForeignRowsRemoved` |
| `names` | the names of a certificate are changed | `SettledAsAsked` is violated |
| `sweep` | an on-demand certificate | `SweepDeletesDeletable` is violated |
| `readback` | the provider is replaced | `ReadBackFindsRow` is violated |
| `acquire` | one named certificate, fair scheduling | `NamedCertsAcquired` is violated |
| `store` | two acme.sh calls and an acme-lib call, orders of no authorizations or of the same two, a pipe of one line, read errors, failed waits, TTL 1, `MaxNow` 1, fair scheduling | `TypeOK`, `AskedIsServed`, `ReaderDrained`, `CleanupInvisible`, `CallReturns` |
| `lib` | acme-lib calls one after the other, fair scheduling | `LibOrdersPass` is violated |
| `pool` | two handlers, startup check and maintenance job, three connections, two threads, two configurations (one where names tie, one with shadowing), one host | `Accounted`, `NothingKept`, `OneSecond`, `NoStandstill`, `CrowdNeeded`, `SameHostSameCert`, `CallsEnd`, `WorkersComeBack`, `TypeOK` |
| `clients` | either machine, three faults, two services; Day, TwoDays, Week, Lifetime are 2, 4, 5, 6, `MaxNow` 4, one certificate without CA | `KeyNeverOlder`, `Announced`, `LastsUntilTomorrow`, `SkipsOnlyComplete`, `KeyLeftOnlyInDoubt`, `OneCertificate`, `GivenUpOnlyForNew`, `ClientRecovers`, `RouterRecovers`, `TypeOK` |
| `install` | the same with two faults | `InstalledComplete` is violated |

Why these bounds are enough to meet the interesting cases: contention for a lock needs three tasks
(a holder, one that waits, one that arrives), and `locking` has four of two kinds; a stale copy needs
one writer between load and use; a restart forgets all memory, so a second restart meets no state
that the first does not. In `store`, a token is announced by two calls, ages past its TTL (one unit of
the clock) and is announced again; a pipe of one line is full whenever it is not empty (the real one holds hundreds of
lines). In `pool` four callers with a first connection each want a second while the pool has three and
the threads are two, so that a full stop (all connections held, all threads blocked) happens and has
to dissolve; the real pool has ten. One host is enough: handlers for it and the startup check are about
different certificates in the configuration with shadowing, and where names tie the startup check
visits both the certificate of the handlers and the other. In `clients` the server may renew four times, so a machine can
have files of three certificates, and three faults are one more than it takes to have one run cut
short while it repairs what another left. The spans keep the order of the real ones; a week that is
longer than two days, and a day in which a certificate can end early, are what the rules depend on.
The proofs remove the bounds from all safety properties of the passing runs.

*Fairness.* Every task is scheduled (weak fairness of its own steps). A tokio mutex serves waiters
first come first served, so nobody is passed over for ever (strong fairness of `LockGranted`).
A provider that is asked for a certificate again and again succeeds some time (strong fairness of
`IssueSucceeds` per certificate); this is an assumption on the world. Provider calls return: the code
sets no timeout, and a provider that hangs would indeed stop the maintenance job. Nothing makes
requests arrive, time pass or the process restart, and the pool does not time out and statements
do not fail for ever (`PoolFaults` and `DbFaults` are off in `liveness`). Two of the liveness
properties end with "or the maintenance task is dead": that is what `readback` shows can happen.

In `store`, of the reader task, `issue()` and acme.sh of a call some party that can go on does, and so
does the CA (weak fairness); that reading or waiting fails is never forced. That acme.sh ends at all
is an assumption: the code sets no timeout. In `lib`, a call that has begun goes on.

In `pool`, every task that can go on again and again does (strong fairness of `Step`): whether a step
is possible depends on a free thread, and the runtime comes back to every runnable task, but other
tasks may take the thread first. Part of it is that a wait in `Pool::get` ends (r2d2 gives up after
30 s), that the lock is first come first served, and that providers return. Nothing makes requests or
the maintenance job arrive.

In `clients`, the timer or scheduler starts the script and a run that nothing cuts short comes to its
end (weak fairness of the steps of the machine). Faults are bounded by `MaxFaults`, and the liveness
properties speak of the time when none are left; the server may go on renewing.

### What the violated runs show

* `names`: the startup check finds changed names and calls `issue_certificate_locked`, whose second
  look at the row asks only whether it is due (`cert.rs:191`). The old row is returned as a success
  and the maintenance job goes on renewing the old names.
* `sweep`: the maintenance job deletes a certificate as unrequested although a client requested it
  after the job loaded its rows (`cron.rs:45-51`).
* `readback`: the startup check replaces the row of a removed provider; the maintenance job, with the
  old row in its copy, deletes the new one before it is read back, and `unwrap()` panics
  (`cert.rs:164`). The same deletion can hit the maintenance job itself, which then never runs again.
* `acquire`: a certificate with `names` is tried once at start. If that fails, nothing but a request
  or a restart tries again, because the maintenance job walks existing rows.
* `lib`: the acme-lib provider inserts a challenge from a plain thread that asks for the current tokio
  runtime (`providers/acme_lib.rs:139`). Such a thread has none, so it panics before it inserts, and
  every order with an open authorization fails: the counterexample makes such orders for ever, without
  a restart, and none gets to `Finalize` (`LibOrdersPass`).
* `install`: the client saves its state before the files (`src/crates/client/src/main.rs:120`). Cut short in between, a first
  run leaves a machine without a certificate, and `check` says "no renewal needed" every day until the
  next window of renewal, while the script ends with success. Cut short between its own copies, the
  script finds `out/fullchain.pem` equal the next day and leaves the key, and `full.pem`, as they were.

Two hazards of a change of provider are near these and have no run. A call can be settled by a row of
the provider before (`cert.rs:190`: the maintenance job renews the expired row from its copy while the
startup check waits for the lock): this is `SettledAsAsked` with `ProviderSwitched` in place of
`NamesChanged` as the `Deployments` of `MCCertServer_names.cfg`; the run stops at names. And the row of
the provider before is deleted ahead of the attempt with the new one (`cert.rs:337`), so that
the certificate is gone when that fails; `acquire` shows what follows a failed attempt, not the deletion.
A third is neither checked nor excluded: a renewal writes back the `requested_at` of its copy
(`cron.rs:64`). `RequestsRemembered` excepts this and says of all other steps that they never set the
time back.

The first three have limits, which `SteadyProofs` proves. `names` and `readback` as the runs show
them need a change of the configuration; without one, only a handler that issues on demand can meet
the panic, and the background tasks live on. A row that `sweep` loses was issued on demand and has
been requested since its copy was made; a certificate with names never goes.

What a cut does not break is in `clients`: a chain in `certificates/` never waits for installation
beside a key of the certificate before (`KeyNeverOlder`: the chain is written last), the services
are told whenever something was copied (`Announced`), an undisturbed fetch and installation leaves a complete
certificate that outlasts the next day's run although the ca provider cuts its validity down to
midnight (`LastsUntilTomorrow`), and all is well again after the next renewal at the latest
(`ClientRecovers`). The router's script repairs itself the next day (`RouterRecovers`), because its
stamp goes first and comes back last, with two exceptions that the `doubtful` flag excludes: an import that
fails without an error, and a run cut short while it restores entries somebody removed by hand. In
both cases the stamp is current while the store is not complete, and if any entry is left whose name
begins with the certificate's (the `-ca` entry does), the import is skipped until the next renewal.
For the same reason the private key may lie among the files of the router until then: the store was
empty under a current stamp, and the power failed when the run that restores it had imported the
first entry (`routeros.rsc:64`, `:81`). After any other power failure the next run that is not cut short
removes the key file (`KeyLeftOnlyInDoubt`). In the excepted cases, too, what is in the store and in use belongs to one certificate (`OneCertificate`).

`AskedIsServed` also says what it does not promise: acme.sh asks the CA right after it has written its
line, and until the reader task has inserted it the endpoint answers 404. Nothing in the acme-sh
provider waits for that (the acme-lib provider waits a second after inserting). If the reader task
ends on a line it cannot read, the CA never finds the token.

`ReaderDrained` has one exception. A returned call has left nothing behind, with a certificate or with
an error, unless the error is that `child.wait()` failed (`acme_sh.rs:136-138`): `issue()` then
returns, and with it the certificate's lock is released, while acme.sh and the reader task go on, and
another acme.sh may be started for the same certificate. The other properties of `store` hold for
calls left like this as well.

## The proofs

`CertServerProofs` proves every safety property of the passing runs for any number of handlers,
certificates, hosts, configurations, lifetimes and restarts, and an unbounded (natural) clock limit.
Assumed are only the named assumptions of the modules: task and null values are distinct, the
configurations are well formed, the periods are natural numbers and `TwoDays` is not zero.
`AnswersWereValid` also assumes that no provider returns an expired certificate (the file provider
could).

None of the properties is inductive by itself. The argument goes:

1. `TypeInv` adds to `TypeOK` that a task inside a call has a job, and that the startup check only has
   certificates with names before it.
2. `LockInv` says that the lock a queued task cloned from the map is the one in the map now, and that
   it is held by exactly the task in the locked part. It is needed because `OneIssuerPerCert` alone
   does not exclude that two tasks hold two different locks for one certificate. `NoLeakedLock` is a
   part of it; mutual exclusion follows.
3. `OnlyIssueStores`: no step but the success of a provider puts a certificate into the table
   (touching and deleting do not), and `FreshnessFades`: so no row becomes fresh otherwise. With
   mutual exclusion this gives `FlightInv` (`NoRedundantIssuance`, `ReadBackOwn`), and from the two
   `FreshCertKept`.
4. `OriginInv` extends `NoOrphanRow`, `RowMatchesId` and `ProviderDefined` to the maintenance job's
   copies and the arguments of calls, from which rows are written.
5. `AnswerInv` relates expiry and the time of the request at every stage of a call; `ReadBackOwn`
   carries it over the read-back.

`SteadyProofs` adds what holds if all of `Deployments` are the same (`Steady`), through crashes,
failures and panics as before. `SteadyInv` says that rows, the maintenance job's copies and calls all
are what the configuration says of their id, and that the startup check deletes nothing. Then
`SettledAsAsked`, which `names` refutes in general, holds (`SettledAsAskedWhenSteady`); the row of a
certificate with names is never deleted (`NamedCertsStay`), so a call of the startup check or the
maintenance job for it finds what it stored (`ReadBackSafe`); and unless a statement fails, neither of
the two ever dies (`BackgroundSurvives`: the maintenance job does not delete what it is itself about
to read back). `SweepErrsOnlyOnUse` says what is left of `sweep`: of all that the copies
may be wrong about, only the time of the last request can make the maintenance job delete what it
should not.

`ServedProofs` is about one certificate id, whichever it is. `RowsNeverOlder`: a row is only ever
replaced by one that expires no earlier, although calls carry jobs made long before and processes
come and go. The argument is `NoRedundantIssuance` again: what is stored replaces a row that is
due, and a due row ends before a new certificate does, provided that certificates live longer than
the windows in which they are due (`LongLived`; the file provider may break this). If, moreover, all
lifetimes are the same, `ServesAsAssumed` proves that `CertServer` implements the server of
`ServedCert`: the history variable `latest` keeps the expiry of the certificate last stored, for a
row may be deleted while a machine still has what it was. So the machines of `Machines` may be read
as machines beside `CertServer`.

`ChallengesProofs` proves every safety property of `store` for any number of calls, tokens and
authorizations, any pipe, TTL and clock limit, from the assumptions that calls are of one provider,
orders are sequences of tokens, and times are natural numbers. `AskedIsServed` is not inductive: that
a token is served now says nothing after a tick or a cleanup. `Announced` says instead that the entry
is no older than the announcement, which time and cleanups cannot undo before the TTL has passed, and
which an insertion by another call only improves. `ReaderDrained` needs that acme.sh works only while
`issue()` waits for it or has given up on it (`Phases`), and that a call which has returned
otherwise has its lines inserted or lost its reader (`AtRest`).

Two more theorems are the part of `CallReturns` that does not need fairness. `NobodyStuck`: whatever
the order, the pipe and the other calls, some party of a call that is not over has a step to take (the
full pipe waits for a reader that reads, the reader for a process that writes or ends, the process for
a CA that has been asked), also when `issue()` has lost the others or the reader has failed.
`CallsAreFinite`: `StepsLeft`, which is never more than four per authorization and five, falls with
every step of the call's own parties, so no call, and nothing that a call has left running, can go on for
ever. That the party which can go on does is the fairness, and stays with TLC.

`CertLedgerProofs` proves that `CertServer` implements `CertLedger` under the mapping `table <- db`,
`clock <- now`, `orders <- ` the certificates some task is issuing, `hand <- ` the row each handler is about
to answer with. Each action maps to one step of `CertLedger` or to none: `RecheckMiss` is `Place` and
needs mutual exclusion (nobody else's order is under way) and the second look (no fresh row);
`IssueSucceeds` is `Deliver` and needs `TypeInv` and `OriginInv` for what the row consists of; `Answer` is
`Reply`. `PastInv` (no time in a row, copy or call lies in the future) is needed for that, and gives
`RequestsRemembered` too: a touch never sets `requested_at` back, and neither does a call without a
copy's time.

`MachinesProofs` proves every safety property of `clients` for all spans with `TwoDays = 2 * Day` and
any number of services and faults. For the client, `KeyNeverOlder` holds because of what is known at each
write of a run (`NotNewer`, `KeyFirst`, `StateFirst`): certificates on offer only get newer, so the
response is at least as new as any file, and each file still to be written is at most as new as those
before it. `Announced` needs `AnnouncedFirst` (past the comparison, the file is there), and
`LastsUntilTomorrow` needs `Unfinished` and `CleanRun` (what a run not cut short has done so far).
For the router, the invariant says what each step may rely on: the files there, the entries imported so far,
the stamp absent or not that of the offer, or the time doubtful. `RouterKeepsOne` needs `StoreInv`: an import begins with an
empty store, and a service is at the entry in the store or at none. `RouterRunCompletes` is the half
of `RouterRecovers` that is not liveness: a run that reaches its end, in no doubtful time, leaves chain, key and CA (if any) of the
certificate it fetched and all services at it, whatever earlier runs were cut short.

`AdmissionProofs` proves that at most one configuration wins whatever the configuration (scores
are compared first, ids break ties, and no two configurations share an id), and that a host listed
literally among some names is never served a certificate without that name. This uses that no
pattern has 990,000 characters. With finitely many sources, a host that some pattern covers has a
winner (`WinnerExists`: scores are bounded, so some are highest, and of those one has the highest
rank). `LosersDoNotMatter`: to add, change or remove configurations that do not match the host
changes nothing for it. `NamesBeatDomains` and `NamesCoverTheHost` say what the bonus does: a
configuration that matches by name gives way only to another, or to a domain that is the host
literally (if no pattern has 10,000 literal characters); and a winner with names and no domains has a name for the host.

`ConnPoolProofs` proves every safety property of `pool` for any number of handlers, connections,
threads, hosts and configurations. The invariant: whoever is in a line is there once, for the certificate it
wants (`LineInv`); whoever is in the locked part is at the head of its line (`LockInv`); a connection is
held only in the places where it was taken and not yet given back (`HoldInv`); every handler is about the
certificate its host leads to (`HostInv`). `OneSecond` follows from `LockInv`. `CrowdNeeded` counts: if the
pool is empty, each connection is some task's first or second; first ones belong to active tasks
one to one, second ones to certificates in use one to one, and the task that waits has one fewer than its
share. `NobodyWaitsInCircles` (`NoStandstill`) needs the converse of `LineInv` too, that who waits
is in a line (`ComeInv`): the head of a line can go on unless all threads are blocked, and then those
who block them wait for the pool, which answers either way. It says that pool, lock and threads never
wait for each other in a circle; that everybody's turn comes is `CallsEnd`, with TLC.

Liveness is checked by TLC only: fairness and ENABLED are beyond the proof system's backends. Of
`CallReturns`, `CallsEnd` and `RouterRecovers` the theorems above give what can be said without.
For `RequestsAnswered`, `DueRowsRenewed`, `ForeignRowsRemoved`, `WorkersComeBack` and `ClientRecovers`
no such part is proved. Every safety property of the passing runs is stated by a theorem.

## Not modelled

The order of work was: `CertRules`, `CertServer`, `Challenges` and their proofs; then `CertLedger` and the
refinement; then the machines; then `Admission` and `ConnPool`. What is left out, and why:

* Parsing of configuration, command lines, headers, certificates and JSON, and X.509: data without control.
  That `X-Forwarded-For` is taken as it comes is modelled; whether it can be trusted is a matter of
  deployment.
* Logging, migrations, mounting of routes, packaging: no behaviour of their own.
* The files that acme.sh and the file provider read are written by other programs; reading them is one
  possible error of a call.
* Validation and refresh in the acme-lib provider: no order gets there with a challenge to answer
  (run `lib`).
* A change to certificates of a shorter lifetime, as a machine sees it: what is on offer to it only gets
  newer (`Lifetime` is one for all), as it does with one provider (`ServesAsAssumed`).
* `--force`, and the order of the three systemd units that share the renewal script: nixpkgs does not
  let them run at the same time.
* What should win when a wide glob among names competes with a more specific pattern among domains:
  `cert.rs:248` speaks of equally specific entries only, and nothing else in the repository says. What
  does win is in `NamesBeatDomains`.
* A provider that never returns, and a child process that never exits: nothing can be promised then,
  as no timeout is set.
