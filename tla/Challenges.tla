----------------------------- MODULE Challenges -----------------------------
(***************************************************************************)
(* HTTP-01 challenges: the in-memory challenge store, the endpoint that    *)
(* serves it, and the two ACME providers whose issue() fills it            *)
(* (challenge_store.rs, routes/challenge.rs, providers/acme_sh.rs and      *)
(* acme_lib.rs).                                                           *)
(*                                                                         *)
(* A call of the acme-sh provider runs three parties: issue() waiting for  *)
(* the child, the child acme.sh, which announces each key authorization on *)
(* fd 3 before it asks the CA to validate it, and the task that reads the  *)
(* pipe and inserts what it reads.  The CA fetches on its own time.  When  *)
(* waiting for the child fails, issue() returns and leaves the others to   *)
(* themselves; when reading fails, the others go on without the reader.    *)
(*                                                                         *)
(* The value stored for a token is the key authorization the token is a    *)
(* part of, so the store is a function from tokens to insertion times.     *)
(* The pipe is first-in first-out: its content is the part of a call's     *)
(* authorizations that is sent and not yet stored.                         *)
(***************************************************************************)
EXTENDS Integers, Sequences

CONSTANTS
    ShCalls,    \* calls of acme-sh providers that can be under way at once,
                \* those that issue() has left running included
    LibCalls,   \* calls of acme-lib providers
    Tokens,     \* challenge tokens of the CA
    AuthLists,  \* pending authorizations an order may start with (none: DNS)
    Absent,     \* no entry in the store
    TTL,        \* CHALLENGE_TTL
    PipeCap,    \* lines the pipe holds before its writer blocks
    MaxNow      \* bound on the clock

ASSUME CallsAssumption == ShCalls \cap LibCalls = {}
ASSUME ListsAssumption == AuthLists \subseteq Seq(Tokens)
ASSUME TimesAssumption == /\ TTL \in Nat \ {0} /\ MaxNow \in Nat
                          /\ PipeCap \in Nat \ {0} /\ Absent \notin Int

Calls == ShCalls \cup LibCalls

VARIABLES
    now,         \* the monotonic clock
    challenges,  \* the store: when the token was inserted
    stage,       \* where issue() of a call stands
    child,       \* what its acme.sh is doing
    auths,       \* the authorizations acme.sh has to answer, in order
    sent,        \* how many of them it has written to the pipe
    stored,      \* how many of those the reader task has inserted
    broken,      \* the calls whose reader task has ended on a read error
    since,       \* when the one it waits for was written
    ca           \* the CA's state of an authorization, by its token

vars == <<now, challenges, stage, child, auths, sent, stored, broken, since, ca>>

Resting == {"idle", "error", "lost"}
Working == {"work", "told", "poll"}

TypeOK ==
    /\ now \in 0..MaxNow
    /\ challenges \in [Tokens -> 0..MaxNow \cup {Absent}]
    /\ stage \in [Calls -> Resting \cup {"child", "reader", "store", "finalize"}]
    /\ child \in [Calls -> Working \cup {"none", "exited"}]
    /\ auths \in [Calls -> AuthLists \cup {<<>>}]
    /\ sent \in [Calls -> Nat] /\ stored \in [Calls -> Nat]
    /\ \A c \in Calls : stored[c] <= sent[c] /\ sent[c] <= Len(auths[c])
    /\ broken \subseteq ShCalls
    /\ since \in [Calls -> 0..MaxNow]
    /\ ca \in [Tokens -> {"pending", "asked", "valid", "invalid"}]

NoChallenges == [t \in Tokens |-> Absent]

NoCall(v) == [c \in Calls |-> v]

Init ==
    /\ now = 0
    /\ challenges = NoChallenges
    /\ stage = NoCall("idle") /\ child = NoCall("none") /\ auths = NoCall(<<>>)
    /\ sent = NoCall(0) /\ stored = NoCall(0) /\ broken = {} /\ since = NoCall(0)
    /\ ca = [t \in Tokens |-> "pending"]

Tick == /\ now < MaxNow /\ now' = now + 1
        /\ UNCHANGED <<challenges, stage, child, auths, sent, stored, broken, since, ca>>

-----------------------------------------------------------------------------
(* The store *)

\* What the endpoint answers: found and younger than the TTL.
Served(t) == challenges[t] # Absent /\ now - challenges[t] < TTL

\* (Faulty variant: an entry that is there already keeps its time.)
InsertedOnce(t) == IF challenges[t] = Absent THEN [challenges EXCEPT ![t] = now] ELSE challenges

Inserted(t) == [challenges EXCEPT ![t] = now]

\* (Faulty variant: entries go one unit of time too early.)
CleanupEarly ==
    /\ challenges' = [t \in Tokens |-> IF challenges[t] # Absent /\ now - challenges[t] < TTL - 1
                                       THEN challenges[t] ELSE Absent]
    /\ UNCHANGED <<now, stage, child, auths, sent, stored, broken, since, ca>>

\* At the end of a maintenance run.
Cleanup ==
    /\ challenges' = [t \in Tokens |-> IF challenges[t] # Absent /\ now - challenges[t] < TTL
                                       THEN challenges[t] ELSE Absent]
    /\ UNCHANGED <<now, stage, child, auths, sent, stored, broken, since, ca>>

-----------------------------------------------------------------------------
(* The CA *)

\* It asks the endpoint for the token of an authorization it was told to
\* validate, and accepts no other answer than the key authorization; the
\* request may also be lost.
Fetch(t) ==
    /\ ca[t] = "asked"
    /\ \E verdict \in {"valid", "invalid"} :
         /\ verdict = "valid" => Served(t)
         /\ ca' = [ca EXCEPT ![t] = verdict]
    /\ UNCHANGED <<now, challenges, stage, child, auths, sent, stored, broken, since>>

-----------------------------------------------------------------------------
(* The acme-sh provider *)

\* Nothing is left of a call: issue() has returned, acme.sh is not running,
\* and the reader task has seen the end of the pipe, or an error.  The same
\* slot can then stand for another call.
Over(c) ==
    stage[c] \in Resting /\ child[c] \notin Working /\ (c \in broken \/ stored[c] = sent[c])

\* (Faulty variant: the counters of the last call are not reset.)
SpawnCounting(c) ==
    /\ Over(c)
    /\ \E a \in AuthLists :
         /\ \A i \in 1..Len(a) : ca[a[i]] \in {"pending", "asked"}
         /\ auths' = [auths EXCEPT ![c] = a]
    /\ stage' = [stage EXCEPT ![c] = "child"]
    /\ child' = [child EXCEPT ![c] = "work"]
    /\ broken' = broken \ {c}
    /\ UNCHANGED <<now, challenges, sent, stored, since, ca>>

\* issue() opens the pipe, starts acme.sh and the task that reads the pipe.
\* acme.sh answers the authorizations of its order that are not settled.
\* Without pipe, webroot directory or acme.sh to run, nothing has happened.
Spawn(c) ==
    /\ Over(c)
    /\ \E a \in AuthLists :
         /\ \A i \in 1..Len(a) : ca[a[i]] \in {"pending", "asked"}
         /\ auths' = [auths EXCEPT ![c] = a]
    /\ stage' = [stage EXCEPT ![c] = "child"]
    /\ child' = [child EXCEPT ![c] = "work"]
    /\ sent' = [sent EXCEPT ![c] = 0] /\ stored' = [stored EXCEPT ![c] = 0]
    /\ broken' = broken \ {c}
    /\ UNCHANGED <<now, challenges, since, ca>>

Current(c) == auths[c][sent[c]]

\* acme.sh, as patched, writes a key authorization to fd 3 and blocks while
\* the pipe is full.
Announce(c) ==
    /\ child[c] = "work" /\ sent[c] < Len(auths[c])
    /\ c \notin broken /\ sent[c] - stored[c] < PipeCap
    /\ sent' = [sent EXCEPT ![c] = @ + 1]
    /\ since' = [since EXCEPT ![c] = now]
    /\ child' = [child EXCEPT ![c] = "told"]
    /\ UNCHANGED <<now, challenges, stage, auths, stored, broken, ca>>

\* Nobody reads the pipe any more: the write fails, and acme.sh with it.
AnnounceFails(c) ==
    /\ child[c] = "work" /\ sent[c] < Len(auths[c]) /\ c \in broken
    /\ child' = [child EXCEPT ![c] = "exited"]
    /\ UNCHANGED <<now, challenges, stage, auths, sent, stored, broken, since, ca>>

\* It then asks the CA to validate.
Ask(c) ==
    /\ child[c] = "told"
    /\ ca' = IF ca[Current(c)] = "pending" THEN [ca EXCEPT ![Current(c)] = "asked"] ELSE ca
    /\ child' = [child EXCEPT ![c] = "poll"]
    /\ UNCHANGED <<now, challenges, stage, auths, sent, stored, broken, since>>

\* It polls for the verdict.
Poll(c) ==
    /\ child[c] = "poll" /\ ca[Current(c)] \in {"valid", "invalid"}
    /\ child' = [child EXCEPT ![c] = IF ca[Current(c)] = "valid" THEN "work" ELSE "exited"]
    /\ since' = [since EXCEPT ![c] = 0]
    /\ UNCHANGED <<now, challenges, stage, auths, sent, stored, broken, ca>>

\* It exits with status 0 when everything is answered, and at once when the
\* certificate it has is not due by its own rules (RENEW_SKIP=0).
Finish(c) ==
    /\ child[c] = "work" /\ sent[c] \in {0, Len(auths[c])}
    /\ child' = [child EXCEPT ![c] = "exited"]
    /\ UNCHANGED <<now, challenges, stage, auths, sent, stored, broken, since, ca>>

\* It may fail at any time.
GiveUp(c) ==
    /\ child[c] \in Working
    /\ child' = [child EXCEPT ![c] = "exited"]
    /\ since' = [since EXCEPT ![c] = 0]
    /\ UNCHANGED <<now, challenges, stage, auths, sent, stored, broken, ca>>

\* (Faulty variant: the pipe is read only when acme.sh has exited.)
ReadLineLate(c) ==
    /\ stage[c] = "reader" /\ stored[c] < sent[c]
    /\ challenges' = Inserted(auths[c][stored[c] + 1])
    /\ stored' = [stored EXCEPT ![c] = @ + 1]
    /\ UNCHANGED <<now, stage, child, auths, sent, broken, since, ca>>

\* The reader task takes a line from the pipe and inserts it, whether issue()
\* is there to wait for it or not.
ReadLine(c) ==
    /\ c \notin broken /\ stored[c] < sent[c]
    /\ challenges' = Inserted(auths[c][stored[c] + 1])
    /\ stored' = [stored EXCEPT ![c] = @ + 1]
    /\ UNCHANGED <<now, stage, child, auths, sent, broken, since, ca>>

\* It cannot read the line, or the line is no text: the task ends, and what is
\* in the pipe is lost.
ReadFails(c) ==
    /\ c \notin broken /\ stored[c] < sent[c]
    /\ broken' = broken \cup {c}
    /\ UNCHANGED <<now, challenges, stage, child, auths, sent, stored, since, ca>>

\* child.wait() returns.
ChildExited(c) ==
    /\ stage[c] = "child" /\ child[c] = "exited"
    /\ stage' = [stage EXCEPT ![c] = "reader"]
    /\ UNCHANGED <<now, challenges, child, auths, sent, stored, broken, since, ca>>

\* child.wait() fails: issue() returns this error at once, while acme.sh and
\* the reader task go on.
WaitFails(c) ==
    /\ stage[c] = "child"
    /\ stage' = [stage EXCEPT ![c] = "lost"]
    /\ UNCHANGED <<now, challenges, child, auths, sent, stored, broken, since, ca>>

\* (Faulty variant: the reader task is not waited for.)
ReturnAtOnce(c) ==
    /\ stage[c] = "reader"
    /\ stage' = [stage EXCEPT ![c] = "idle"]
    /\ child' = [child EXCEPT ![c] = "none"]
    /\ UNCHANGED <<now, challenges, auths, sent, stored, broken, since, ca>>

\* The reader task has ended, at the end of the pipe or on an error that
\* nobody looks at.  The call is over, with a certificate, or with an error
\* for a bad exit status or for a file that cannot be read or parsed: nothing
\* here depends on which.
Return(c) ==
    /\ stage[c] = "reader" /\ (c \in broken \/ stored[c] = sent[c])
    /\ stage' = [stage EXCEPT ![c] = "idle"]
    /\ child' = [child EXCEPT ![c] = "none"]
    /\ UNCHANGED <<now, challenges, auths, sent, stored, broken, since, ca>>

-----------------------------------------------------------------------------
(* The acme-lib provider *)

\* An order whose authorizations the CA has kept is confirmed at once; any
\* other has a challenge to store first.  When directory, account or order
\* fail, nothing has happened.
Order(c) ==
    /\ stage[c] \in Resting
    /\ \E a \in AuthLists :
         /\ \A i \in 1..Len(a) : ca[a[i]] \in {"pending", "asked"}
         /\ auths' = [auths EXCEPT ![c] = a]
         /\ stage' = [stage EXCEPT ![c] = IF a = <<>> THEN "finalize" ELSE "store"]
    /\ UNCHANGED <<now, challenges, child, sent, stored, broken, since, ca>>

\* The thread started to insert the token asks for the runtime it runs in
\* (Handle::current), but a new thread runs in none: it panics before it
\* inserts, and join() makes an error of the call of that.
StoreChallenge(c) ==
    /\ stage[c] = "store"
    /\ stage' = [stage EXCEPT ![c] = "error"]
    /\ auths' = [auths EXCEPT ![c] = <<>>]
    /\ UNCHANGED <<now, challenges, child, sent, stored, broken, since, ca>>

\* The call is over, with a certificate or an error: nothing depends on which.
Finalize(c) ==
    /\ stage[c] = "finalize"
    /\ stage' = [stage EXCEPT ![c] = "idle"]
    /\ UNCHANGED <<now, challenges, child, auths, sent, stored, broken, since, ca>>

-----------------------------------------------------------------------------

\* The process ends and is started again.  The store was in memory; acme.sh
\* ends with its unit.  What the CA was told stays.
Restart ==
    /\ challenges' = NoChallenges
    /\ stage' = NoCall("idle") /\ child' = NoCall("none") /\ auths' = NoCall(<<>>)
    /\ sent' = NoCall(0) /\ stored' = NoCall(0) /\ broken' = {} /\ since' = NoCall(0)
    /\ UNCHANGED <<now, ca>>

AcmeSh(c) == Announce(c) \/ AnnounceFails(c) \/ Ask(c) \/ Poll(c) \/ Finish(c)
ShCall(c) ==
    \/ Spawn(c) \/ ReadLine(c) \/ ReadFails(c)
    \/ ChildExited(c) \/ WaitFails(c) \/ Return(c)
LibCall(c) == Order(c) \/ StoreChallenge(c) \/ Finalize(c)

Next ==
    \/ Tick \/ Cleanup \/ Restart
    \/ \E t \in Tokens : Fetch(t)
    \/ \E c \in ShCalls : ShCall(c) \/ AcmeSh(c) \/ GiveUp(c)
    \/ \E c \in LibCalls : LibCall(c)

Spec == Init /\ [][Next]_vars

\* Whenever a party of a call can take its next step, one of them does:
\* tasks of the server run, acme.sh runs, and the CA gets on with its work.
Fairness ==
    /\ \A c \in ShCalls : WF_vars(ReadLine(c) \/ ChildExited(c) \/ Return(c) \/ AcmeSh(c))
    /\ \A c \in LibCalls : WF_vars(StoreChallenge(c) \/ Finalize(c))
    /\ WF_vars(\E t \in Tokens : Fetch(t))

FairSpec == Spec /\ Fairness

-----------------------------------------------------------------------------
(* Properties *)

\* While acme.sh waits for the CA, the endpoint serves its token, whatever
\* cleanups and other orders do, unless the announcement is still in the
\* pipe, was lost with the reader task, or is ten minutes old: validation can
\* fail for no other reason of ours.
AskedIsServed == \A c \in ShCalls : child[c] = "poll" =>
    stored[c] < sent[c] \/ now - since[c] >= TTL \/ Served(Current(c))

\* When issue() has returned, with a certificate or with any error but one,
\* nothing of the call is left: acme.sh has exited and no task will insert
\* another token.  The one error is that waiting for acme.sh failed (stage
\* "lost"): acme.sh and the reader task are left running then.
ReaderDrained == \A c \in ShCalls : stage[c] = "idle" => Over(c)

\* Nobody can tell from the endpoint's answers that the store was cleaned up.
CleanupInvisible == [][Cleanup => \A t \in Tokens : Served(t)' = Served(t)]_vars

\* A call returns: issue(), acme.sh and the reader task do not wait for each
\* other in a circle, also when the pipe is full.  (A call of acme-lib waits
\* for nobody but the CA.)
CallReturns == \A c \in ShCalls : stage[c] \notin Resting ~> stage[c] \in Resting

\* README.md: `Issues certificates from Let's Encrypt using HTTP-01
\* validation`: of the orders with an open authorization that an acme-lib
\* provider makes, again and again in a process that goes on, one is
\* finalized some time.  (None is: no challenge is ever stored.)
LibOrdersPass == \A c \in LibCalls :
    <>[][~Restart]_vars /\ []<>(stage[c] = "store")
      => <>(stage[c] = "finalize" /\ auths[c] # <<>>)
=============================================================================
