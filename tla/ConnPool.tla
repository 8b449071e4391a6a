------------------------------ MODULE ConnPool ------------------------------
(***************************************************************************)
(* What the tasks of the server have to share: database connections, which *)
(* come from a pool of fixed size, the threads the tasks run on, and the   *)
(* lock of each certificate.  A request, the startup check and the         *)
(* maintenance job all do the same:                                        *)
(*                                                                         *)
(*   take a first connection, which they keep until they are done, and,    *)
(*   to have a certificate issued, wait for its lock; with the lock, take  *)
(*   a second connection, look again, have the provider issue, and give    *)
(*   second connection and lock back.                                      *)
(*                                                                         *)
(* Waiting for a lock or a provider frees the thread for other tasks.      *)
(* Waiting for a connection blocks it; such a wait ends with an error      *)
(* after the pool's timeout.  What tasks read and write meanwhile is in    *)
(* CertServer: here a call may find or issue a certificate, or fail.       *)
(***************************************************************************)
EXTENDS Admission, FiniteSets

CONSTANTS
    Handlers,       \* handlers of requests, reused from request to request
    Startup, Cron,  \* the startup check and the maintenance job
    Configs,        \* configurations the server may run with
    Requests,       \* requests that come in
    Connections,    \* of the pool
    Workers,        \* number of threads
    None            \* no connection

Tasks == Handlers \cup {Startup, Cron}

ASSUME PoolAssumption ==
    /\ IsFiniteSet(Handlers) /\ IsFiniteSet(Connections)
    /\ Startup # Cron /\ Startup \notin Handlers /\ Cron \notin Handlers
    /\ Workers \in Nat \ {0} /\ None \notin Connections
    /\ \A r \in Requests : r.host \in Hosts

VARIABLES
    config,     \* the configuration of this process
    unchecked,  \* sources the startup check has yet to look at
    pc,         \* where each task is
    host,       \* the host a handler was asked for
    wanted,     \* the certificate a task is about
    first,      \* the connection a task keeps until it is done
    second,     \* the connection it has while it holds the lock
    idle,       \* connections in the pool
    queue       \* for each certificate, who holds its lock and who waits

vars == <<config, unchecked, pc, host, wanted, first, second, idle, queue>>

NoCert == <<NotSet, NotSet>>

Pcs == {"rest", "first", "work", "queued", "second", "inside", "issuing", "after"}

TypeOK ==
    /\ config \in Configs
    /\ unchecked \subseteq Sources
    /\ pc \in [Tasks -> Pcs]
    /\ host \in [Tasks -> Hosts \cup {NotSet}]
    /\ wanted \in [Tasks -> CertIds \cup {NoCert}]
    /\ first \in [Tasks -> Connections \cup {None}]
    /\ second \in [Tasks -> Connections \cup {None}]
    /\ idle \subseteq Connections
    /\ queue \in [CertIds -> Seq(Tasks)]

Init ==
    /\ config \in Configs
    /\ unchecked = {i \in Sources : IsNamed(config, i)}
    /\ pc = [t \in Tasks |-> "rest"]
    /\ host = [t \in Tasks |-> NotSet]
    /\ wanted = [t \in Tasks |-> NoCert]
    /\ first = [t \in Tasks |-> None]
    /\ second = [t \in Tasks |-> None]
    /\ idle = Connections
    /\ queue = [i \in CertIds |-> <<>>]

-----------------------------------------------------------------------------
\* A thread that is not blocked in Pool::get: what any other step needs.
FreeWorker == Cardinality({t \in Tasks : pc[t] \in {"first", "second"}}) < Workers

Goes(t, there) == pc' = [pc EXCEPT ![t] = there]

\* Admitted requests come to the pool.  (The others are answered at once.)
Arrive(t) ==
    /\ t \in Handlers /\ pc[t] = "rest" /\ FreeWorker
    /\ \E r \in Requests :
         /\ Admitted(config, r)
         /\ \E i \in Winners(config, r.host) :
              wanted' = [wanted EXCEPT ![t] = CertIdFor(config, i, r.host)]
         /\ host' = [host EXCEPT ![t] = r.host]
    /\ Goes(t, "first")
    /\ UNCHANGED <<config, unchecked, first, second, idle, queue>>

StartupNext ==
    /\ pc[Startup] = "rest" /\ FreeWorker
    /\ \E i \in unchecked :
         /\ unchecked' = unchecked \ {i}
         /\ wanted' = [wanted EXCEPT ![Startup] = <<i, NotSet>>]
    /\ Goes(Startup, "first")
    /\ UNCHANGED <<config, host, first, second, idle, queue>>

CronTick ==
    /\ pc[Cron] = "rest" /\ FreeWorker
    /\ Goes(Cron, "first")
    /\ UNCHANGED <<config, unchecked, host, wanted, first, second, idle, queue>>

TakeFirst(t) ==
    /\ pc[t] = "first"
    /\ \E c \in idle : first' = [first EXCEPT ![t] = c] /\ idle' = idle \ {c}
    /\ Goes(t, "work")
    /\ UNCHANGED <<config, unchecked, host, wanted, second, queue>>

\* The maintenance job comes to the next row that is due, which may date from
\* another configuration.
CronPick(i) ==
    /\ pc[Cron] = "work" /\ FreeWorker
    /\ wanted' = [wanted EXCEPT ![Cron] = i]
    /\ queue' = [queue EXCEPT ![i] = Append(@, Cron)]
    /\ Goes(Cron, "queued")
    /\ UNCHANGED <<config, unchecked, host, first, second, idle>>

\* No usable certificate in the table: call for one.
Call(t) ==
    /\ t # Cron /\ pc[t] = "work" /\ FreeWorker
    /\ queue' = [queue EXCEPT ![wanted[t]] = Append(@, t)]
    /\ Goes(t, "queued")
    /\ UNCHANGED <<config, unchecked, host, wanted, first, second, idle>>

\* The lock is fair.
HasLock(t) == queue[wanted[t]] # <<>> /\ Head(queue[wanted[t]]) = t

\* (Faulty variant: the lock is not waited for.)
GrantedAtOnce(t) ==
    /\ pc[t] = "queued" /\ FreeWorker
    /\ Goes(t, "second")
    /\ UNCHANGED <<config, unchecked, host, wanted, first, second, idle, queue>>

Granted(t) ==
    /\ pc[t] = "queued" /\ HasLock(t) /\ FreeWorker
    /\ Goes(t, "second")
    /\ UNCHANGED <<config, unchecked, host, wanted, first, second, idle, queue>>

TakeSecond(t) ==
    /\ pc[t] = "second"
    /\ \E c \in idle : second' = [second EXCEPT ![t] = c] /\ idle' = idle \ {c}
    /\ Goes(t, "inside")
    /\ UNCHANGED <<config, unchecked, host, wanted, first, queue>>

Order(t) ==
    /\ pc[t] = "inside" /\ FreeWorker
    /\ Goes(t, "issuing")
    /\ UNCHANGED <<config, unchecked, host, wanted, first, second, idle, queue>>

\* (Faulty variant: the lock is kept.)
LeavesLocked(t) ==
    /\ second' = [second EXCEPT ![t] = None]
    /\ idle' = idle \cup ({second[t]} \ {None})
    /\ Goes(t, IF t = Cron THEN "work" ELSE "after")
    /\ UNCHANGED <<config, unchecked, host, wanted, first, queue>>

\* (Faulty variant: the second connection is never given back.)
LeavesWithout(t) ==
    /\ second' = [second EXCEPT ![t] = None]
    /\ queue' = [queue EXCEPT ![wanted[t]] = Tail(@)]
    /\ Goes(t, IF t = Cron THEN "work" ELSE "after")
    /\ UNCHANGED <<config, unchecked, host, wanted, first, idle>>

\* (Faulty variant: a second connection is given back that was never taken.)
LeavesWithMore(t) ==
    /\ second' = [second EXCEPT ![t] = None]
    /\ idle' = idle \cup {second[t]}
    /\ queue' = [queue EXCEPT ![wanted[t]] = Tail(@)]
    /\ Goes(t, IF t = Cron THEN "work" ELSE "after")
    /\ UNCHANGED <<config, unchecked, host, wanted, first>>

\* issue_certificate_locked returns, and drops what it has.
Leaves(t) ==
    /\ second' = [second EXCEPT ![t] = None]
    /\ idle' = idle \cup ({second[t]} \ {None})
    /\ queue' = [queue EXCEPT ![wanted[t]] = Tail(@)]
    /\ Goes(t, IF t = Cron THEN "work" ELSE "after")
    /\ UNCHANGED <<config, unchecked, host, wanted, first>>

\* (Faulty variant: on this path alone the lock is kept.)
RecheckHitLocked(t) == pc[t] = "inside" /\ FreeWorker /\ LeavesLocked(t)

\* The second look finds a certificate that needs no renewal.
RecheckHit(t) == pc[t] = "inside" /\ FreeWorker /\ Leaves(t)

\* The provider has issued, or has failed.
ProviderReturns(t) == pc[t] = "issuing" /\ FreeWorker /\ Leaves(t)

Rests(t) ==
    /\ idle' = idle \cup ({first[t]} \ {None})
    /\ first' = [first EXCEPT ![t] = None]
    /\ host' = [host EXCEPT ![t] = NotSet]
    /\ wanted' = [wanted EXCEPT ![t] = NoCert]
    /\ Goes(t, "rest")
    /\ UNCHANGED <<config, unchecked, second, queue>>

\* (Faulty variant: it waits again.)
TimesOutToRetry(t) == idle = {} /\ pc[t] \in {"first", "second"} /\ UNCHANGED vars

\* Pool::get gives up: the first one ends the task, the second one the call.
TimesOut(t) ==
    /\ idle = {}
    /\ \/ pc[t] = "first" /\ Rests(t)
       \/ pc[t] = "second" /\ Leaves(t)

\* The row was usable, or the call is over; the maintenance job has come to
\* the end of its list.
Ends(t) == pc[t] \in {"work", "after"} /\ FreeWorker /\ Rests(t)

Step(t) ==
    \/ TakeFirst(t) \/ Call(t) \/ Granted(t) \/ TakeSecond(t) \/ RecheckHit(t)
    \/ Order(t) \/ ProviderReturns(t) \/ TimesOut(t) \/ Ends(t)

Next ==
    \/ \E t \in Tasks : Arrive(t) \/ Step(t)
    \/ StartupNext
    \/ CronTick \/ \E i \in CertIds : CronPick(i)

Spec == Init /\ [][Next]_vars

(* The runtime comes back to every task that can go on, however often other *)
(* tasks are taken first; a wait in Pool::get ends, and providers return.   *)
Fairness == (\A t \in Tasks : SF_vars(Step(t))) /\ WF_vars(StartupNext)

FairSpec == Spec /\ Fairness

-----------------------------------------------------------------------------
(* Safety *)

Active == {t \in Tasks : pc[t] # "rest"}

\* The certificates that someone has called for.
InUse == {i \in CertIds : queue[i] # <<>>}

\* No connection is lost and none is given twice, whichever way calls end:
\* each is in the pool, or with one task, once.
Accounted ==
    /\ \A c \in Connections :
         c \in idle <=> \A t \in Tasks : first[t] # c /\ second[t] # c
    /\ \A t, u \in Tasks :
         /\ first[t] = first[u] /\ t # u => first[t] = None
         /\ second[t] = second[u] /\ t # u => second[t] = None
         /\ first[t] = second[u] => first[t] = None

\* A task that is done has no connection left, holds no lock and waits for
\* none; a task that waits for a lock is in line once.
NothingKept ==
    \A t \in Tasks : \A i \in CertIds :
      /\ pc[t] = "rest" => first[t] = None /\ second[t] = None
      /\ (\E n \in DOMAIN queue[i] : queue[i][n] = t) =>
           pc[t] \in {"queued", "second", "inside", "issuing"} /\ i = wanted[t]

\* Of all who are about the same certificate one at a time has, or waits for,
\* a second connection: callers in line cannot use up the pool twice over.
OneSecond ==
    \A t, u \in Tasks :
      pc[t] \in {"second", "inside", "issuing"} /\ pc[u] \in {"second", "inside", "issuing"}
        /\ wanted[t] = wanted[u] => t = u

\* Nobody waits for a connection unless the tasks that are active and the
\* certificates called for outnumber the pool.
CrowdNeeded ==
    (\E t \in Tasks : pc[t] \in {"first", "second"}) /\ idle = {} =>
      Cardinality(Active) + Cardinality(InUse) > Cardinality(Connections)

\* Requests for one host at the same time are about one certificate, and so
\* are in the same line, whatever the order of the map of certificates.
SameHostSameCert ==
    \A t, u \in Handlers : host[t] = host[u] => wanted[t] = wanted[u]

\* What a task needs for its next step: a thread, unless it is the pool it
\* waits for, whose wait ends either way; and its turn at the lock.
CanGo(t) ==
    \/ pc[t] \in {"first", "second"}
    \/ FreeWorker /\ pc[t] \in {"work", "inside", "issuing", "after"}
    \/ FreeWorker /\ pc[t] = "queued" /\ HasLock(t)

\* Nobody waits in a circle: whoever cannot go on waits for a task that can,
\* one that blocks a thread or one that is about the same certificate.  (The
\* wait in Pool::get ends by itself: else the holder of a lock could wait for
\* a connection of those who wait for that lock.)
NoStandstill ==
    \A t \in Tasks : pc[t] # "rest" =>
      \E u \in Tasks :
        /\ CanGo(u)
        /\ u = t \/ pc[u] \in {"first", "second"} \/ wanted[u] = wanted[t]

-----------------------------------------------------------------------------
(* Liveness *)

\* A request comes to its end, and so does the check of a certificate at
\* start: callers that hold a connection each and wait for another one do
\* not stop each other for good.
CallsEnd == \A t \in Tasks \ {Cron} : pc[t] # "rest" ~> pc[t] = "rest"

\* The server never stays deaf, with all of its threads waiting for
\* connections: the challenges of the orders under way are answered by the
\* same threads.
WorkersComeBack == []<>FreeWorker
=============================================================================
