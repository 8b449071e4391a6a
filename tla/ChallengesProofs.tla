--------------------------- MODULE ChallengesProofs ---------------------------
(***************************************************************************)
(* Proofs about Challenges, for any number of calls, tokens and            *)
(* authorizations, any pipe and any TTL.                                   *)
(***************************************************************************)
EXTENDS Challenges, TLAPS

\* What typing needs and gives: an order is a sequence of tokens.
LEMMA AuthsAreTokens ==
    ASSUME TypeOK, NEW c \in Calls
    PROVE  /\ auths[c] \in Seq(Tokens) /\ Len(auths[c]) \in Nat
           /\ \A i \in 1..Len(auths[c]) : auths[c][i] \in Tokens
  <1>1. auths[c] \in AuthLists \cup {<<>>}
    BY DEF TypeOK
  <1>2. <<>> \in Seq(Tokens)
    OBVIOUS
  <1>3. auths[c] \in Seq(Tokens)
    BY <1>1, <1>2, ListsAssumption
  <1> QED BY <1>3

\* Calls of acme-lib write to no pipe: typing their counters needs to know.
NoPipe == \A c \in LibCalls : child[c] = "none" /\ sent[c] = 0 /\ stored[c] = 0

TypeInv == TypeOK /\ NoPipe

LEMMA InitType == Init => TypeInv
  BY TimesAssumption DEF Init, TypeInv, NoPipe, Calls, TypeOK, NoCall, NoChallenges, Resting, Working

LEMMA TypeStep == TypeInv /\ [Next]_vars => TypeOK'
  <1> SUFFICES ASSUME TypeOK, NoPipe, [Next]_vars PROVE TypeOK'
    BY DEF TypeInv
  <1> USE TimesAssumption DEF TypeOK, Resting, Working
  <1>1. CASE Tick
    BY <1>1 DEF Tick
  <1>2. CASE Cleanup
    BY <1>2 DEF Cleanup
  <1>3. CASE Restart
    BY <1>3 DEF Restart, NoCall, NoChallenges
  <1>4. ASSUME NEW t \in Tokens, Fetch(t) PROVE TypeOK'
    BY <1>4 DEF Fetch
  <1>5. ASSUME NEW c \in ShCalls, ShCall(c) \/ AcmeSh(c) \/ GiveUp(c) PROVE TypeOK'
    <2>0. c \in Calls
      BY DEF Calls
    <2>1. CASE Spawn(c)
      <3>1. PICK a \in AuthLists : auths' = [auths EXCEPT ![c] = a]
        BY <2>1 DEF Spawn
      <3>2. Len(a) \in Nat
        BY ListsAssumption
      <3>3. /\ auths' \in [Calls -> AuthLists \cup {<<>>}]
            /\ \A d \in Calls : stored'[d] <= sent'[d] /\ sent'[d] <= Len(auths'[d])
        BY <2>0, <2>1, <3>1, <3>2 DEF Spawn
      <3> QED BY <2>0, <2>1, <3>3 DEF Spawn
    <2>2. CASE ReadFails(c)
      BY <2>2 DEF ReadFails
    <2>3. CASE ReadLine(c)
      <3>1. stored[c] + 1 \in 1..Len(auths[c])
        BY <2>0, <2>3, AuthsAreTokens DEF ReadLine
      <3>2. challenges' \in [Tokens -> 0..MaxNow \cup {Absent}]
        BY <2>0, <2>3, <3>1, AuthsAreTokens DEF ReadLine, Inserted
      <3>3. /\ stored' \in [Calls -> Nat]
            /\ \A d \in Calls : stored'[d] <= sent'[d] /\ sent'[d] <= Len(auths'[d])
        BY <2>0, <2>3, AuthsAreTokens DEF ReadLine
      <3> QED BY <2>3, <3>2, <3>3 DEF ReadLine
    <2>4. CASE ChildExited(c) \/ WaitFails(c)
      BY <2>0, <2>4 DEF ChildExited, WaitFails
    <2>5. CASE Return(c)
      BY <2>0, <2>5 DEF Return
    <2>6. CASE Announce(c)
      <3>1. sent' \in [Calls -> Nat] /\ sent'[c] <= Len(auths[c]) /\ stored[c] <= sent'[c]
        BY <2>0, <2>6, AuthsAreTokens DEF Announce
      <3>2. \A e \in Calls : stored'[e] <= sent'[e] /\ sent'[e] <= Len(auths'[e])
        BY <2>0, <2>6, <3>1 DEF Announce
      <3>3. /\ since' \in [Calls -> 0..MaxNow]
            /\ child' \in [Calls -> Working \cup {"none", "exited"}]
        BY <2>0, <2>6 DEF Announce
      <3> QED BY <2>6, <3>1, <3>2, <3>3 DEF Announce
    <2>7. CASE Ask(c)
      BY <2>0, <2>7 DEF Ask
    <2>8. CASE Poll(c)
      BY <2>0, <2>8 DEF Poll
    <2>9. CASE Finish(c) \/ AnnounceFails(c)
      BY <2>0, <2>9 DEF Finish, AnnounceFails
    <2>10. CASE GiveUp(c)
      BY <2>0, <2>10 DEF GiveUp
    <2> QED BY <1>5, <2>1, <2>2, <2>3, <2>4, <2>5, <2>6, <2>7, <2>8, <2>9, <2>10
            DEF ShCall, AcmeSh
  <1>6. ASSUME NEW c \in LibCalls, LibCall(c) PROVE TypeOK'
    <2>0. c \in Calls
      BY DEF Calls
    <2>1. sent[c] = 0 /\ stored[c] = 0
      BY DEF NoPipe
    <2>2. CASE Order(c)
      <3>1. /\ auths' \in [Calls -> AuthLists \cup {<<>>}]
            /\ Len(auths'[c]) \in Nat /\ \A d \in Calls \ {c} : auths'[d] = auths[d]
        BY <2>0, <2>2, ListsAssumption DEF Order
      <3>2. \A d \in Calls : stored'[d] <= sent'[d] /\ sent'[d] <= Len(auths'[d])
        BY <2>0, <2>1, <2>2, <3>1 DEF Order
      <3> QED BY <2>0, <2>2, <3>1, <3>2 DEF Order
    <2>3. CASE StoreChallenge(c)
      BY <2>0, <2>1, <2>3 DEF StoreChallenge
    <2>4. CASE Finalize(c)
      BY <2>0, <2>4 DEF Finalize
    <2> QED BY <1>6, <2>2, <2>3, <2>4 DEF LibCall
  <1>7. CASE UNCHANGED vars
    BY <1>7 DEF vars
  <1> QED BY <1>1, <1>2, <1>3, <1>4, <1>5, <1>6, <1>7 DEF Next

LEMMA NoPipeStep == TypeInv /\ [Next]_vars => NoPipe'
  <1> SUFFICES ASSUME TypeOK, NoPipe, [Next]_vars PROVE NoPipe'
    BY DEF TypeInv
  <1> USE DEF NoPipe
  <1>1. CASE Tick \/ Cleanup
    BY <1>1 DEF Tick, Cleanup
  <1>2. CASE Restart
    BY <1>2 DEF Restart, NoCall, Calls
  <1>3. ASSUME NEW t \in Tokens, Fetch(t) PROVE NoPipe'
    BY <1>3 DEF Fetch
  <1>4. ASSUME NEW c \in ShCalls, ShCall(c) \/ AcmeSh(c) \/ GiveUp(c) PROVE NoPipe'
    <2>1. \A d \in LibCalls : child'[d] = child[d] /\ sent'[d] = sent[d] /\ stored'[d] = stored[d]
      BY <1>4, CallsAssumption
      DEF TypeOK, Calls, ShCall, AcmeSh, Spawn, ReadLine, ReadFails, ChildExited, WaitFails,
          Return, Announce, AnnounceFails, Ask, Poll, Finish, GiveUp
    <2> QED BY <2>1
  <1>5. ASSUME NEW c \in LibCalls, LibCall(c) PROVE NoPipe'
    BY <1>5 DEF LibCall, Order, StoreChallenge, Finalize
  <1>6. CASE UNCHANGED vars
    BY <1>6 DEF vars
  <1> QED BY <1>1, <1>2, <1>3, <1>4, <1>5, <1>6 DEF Next

LEMMA TypeInvariant == Spec => []TypeInv
  <1>1. TypeInv /\ [Next]_vars => TypeInv'
    BY TypeStep, NoPipeStep DEF TypeInv
  <1> QED BY InitType, <1>1, PTL DEF Spec

\* Every variable keeps its type; in particular no call reads lines that were
\* not written or writes more lines than its order has authorizations.
THEOREM TypeCorrect == Spec => []TypeOK
  <1>1. TypeInv => TypeOK
    BY DEF TypeInv
  <1> QED BY TypeInvariant, <1>1, PTL

-----------------------------------------------------------------------------
(* What is settled when a call returns *)

\* acme.sh works only while issue() waits for it or has lost it.
Phases == \A c \in Calls : child[c] \in Working => stage[c] \in {"child", "lost"}

\* No call that has returned has lines in its pipe and a reader task to take
\* them, one that has not run yet included.
AtRest == \A c \in ShCalls : stage[c] = "idle" => c \in broken \/ stored[c] = sent[c]

DrainInv == TypeInv /\ Phases /\ AtRest

LEMMA PhasesStep == TypeInv /\ Phases /\ [Next]_vars => Phases'
  <1> SUFFICES ASSUME TypeOK, NoPipe, Phases, [Next]_vars PROVE Phases'
    BY DEF TypeInv
  <1> USE DEF Phases, Working
  <1>1. CASE Tick \/ Cleanup
    BY <1>1 DEF Tick, Cleanup
  <1>2. CASE Restart
    BY <1>2 DEF Restart, NoCall
  <1>3. ASSUME NEW t \in Tokens, Fetch(t) PROVE Phases'
    BY <1>3 DEF Fetch
  <1>4. ASSUME NEW c \in ShCalls, ShCall(c) \/ AcmeSh(c) \/ GiveUp(c) PROVE Phases'
    <2>0. c \in Calls
      BY DEF Calls
    <2>1. CASE Spawn(c)
      BY <2>0, <2>1 DEF TypeOK, Spawn
    <2>3. CASE ReadLine(c) \/ ReadFails(c)
      BY <2>3 DEF ReadLine, ReadFails
    <2>4. CASE ChildExited(c) \/ WaitFails(c)
      BY <2>0, <2>4 DEF TypeOK, ChildExited, WaitFails
    <2>5. CASE Return(c)
      BY <2>0, <2>5 DEF TypeOK, Return
    <2>6. CASE AcmeSh(c) \/ GiveUp(c)
      BY <2>0, <2>6 DEF TypeOK, AcmeSh, Announce, AnnounceFails, Ask, Poll, Finish, GiveUp
    <2> QED BY <1>4, <2>1, <2>3, <2>4, <2>5, <2>6 DEF ShCall
  <1>5. ASSUME NEW c \in LibCalls, LibCall(c) PROVE Phases'
    <2>1. /\ child[c] = "none" /\ child' = child
          /\ \A d \in Calls \ {c} : stage'[d] = stage[d]
      BY <1>5 DEF TypeOK, NoPipe, LibCall, Order, StoreChallenge, Finalize
    <2> QED BY <2>1
  <1>6. CASE UNCHANGED vars
    BY <1>6 DEF vars
  <1> QED BY <1>1, <1>2, <1>3, <1>4, <1>5, <1>6 DEF Next

LEMMA AtRestStep == DrainInv /\ [Next]_vars => AtRest'
  <1> SUFFICES ASSUME TypeOK, Phases, AtRest, [Next]_vars PROVE AtRest'
    BY DEF DrainInv, TypeInv
  <1> USE DEF AtRest
  <1>1. CASE Tick \/ Cleanup
    BY <1>1 DEF Tick, Cleanup
  <1>2. CASE Restart
    BY <1>2 DEF Restart, NoCall, Calls
  <1>3. ASSUME NEW t \in Tokens, Fetch(t) PROVE AtRest'
    BY <1>3 DEF Fetch
  <1>4. ASSUME NEW c \in ShCalls, ShCall(c) \/ AcmeSh(c) \/ GiveUp(c) PROVE AtRest'
    <2>0. c \in Calls
      BY DEF Calls
    <2>1. CASE Spawn(c)
      BY <2>0, <2>1 DEF TypeOK, Spawn, Calls
    <2>2. CASE ReadFails(c)
      BY <2>2 DEF ReadFails
    <2>3. CASE ReadLine(c)
      BY <2>0, <2>3 DEF TypeOK, ReadLine, Calls
    <2>4. CASE ChildExited(c) \/ WaitFails(c)
      BY <2>0, <2>4 DEF TypeOK, ChildExited, WaitFails, Calls
    <2>5. CASE Return(c)
      BY <2>0, <2>5 DEF TypeOK, Return, Calls
    <2>6. CASE AcmeSh(c) \/ GiveUp(c)
      BY <2>0, <2>6
      DEF TypeOK, Phases, Working, AcmeSh, Announce, AnnounceFails, Ask, Poll, Finish, GiveUp,
          Calls
    <2> QED BY <1>4, <2>1, <2>2, <2>3, <2>4, <2>5, <2>6 DEF ShCall
  <1>5. ASSUME NEW c \in LibCalls, LibCall(c) PROVE AtRest'
    <2>1. /\ \A d \in ShCalls : stage'[d] = stage[d]
          /\ UNCHANGED <<sent, stored, broken>>
      BY <1>5, CallsAssumption DEF TypeOK, Calls, LibCall, Order, StoreChallenge, Finalize
    <2> QED BY <2>1
  <1>6. CASE UNCHANGED vars
    BY <1>6 DEF vars
  <1> QED BY <1>1, <1>2, <1>3, <1>4, <1>5, <1>6 DEF Next

LEMMA DrainInvariant == Spec => []DrainInv
  <1>1. Init => DrainInv
    BY InitType DEF DrainInv, Init, NoCall, Phases, Working, AtRest, Calls
  <1>2. DrainInv /\ [Next]_vars => DrainInv'
    BY TypeStep, NoPipeStep, PhasesStep, AtRestStep DEF DrainInv, TypeInv
  <1> QED BY <1>1, <1>2, PTL DEF Spec

\* When issue() of the acme-sh provider has returned, with anything but the
\* error of a failed wait, acme.sh has exited and its reader task has ended.
THEOREM ReadersDrained == Spec => []ReaderDrained
  <1>1. DrainInv => ReaderDrained
    BY DEF DrainInv, Phases, AtRest, ReaderDrained, Over, Resting, Calls
  <1> QED BY DrainInvariant, <1>1, PTL

-----------------------------------------------------------------------------
(* What the endpoint answers *)

\* The token acme.sh waits for has been inserted at or after its
\* announcement, unless it is in the pipe or too old to be served anyway:
\* this, not being served, survives the passing of time and a cleanup.
Answerable(c) ==
    \/ stored[c] < sent[c]
    \/ now - since[c] >= TTL
    \/ challenges[Current(c)] # Absent /\ challenges[Current(c)] >= since[c]

Announced == \A c \in ShCalls : child[c] \in {"told", "poll"} =>
    sent[c] >= 1 /\ since[c] <= now /\ Answerable(c)

ServeInv == DrainInv /\ Announced

LEMMA CurrentToken ==
    ASSUME TypeOK, NEW c \in Calls, sent[c] >= 1
    PROVE  Current(c) \in Tokens
  <1>1. sent[c] \in 1..Len(auths[c])
    BY AuthsAreTokens DEF TypeOK
  <1> QED BY <1>1, AuthsAreTokens DEF Current

\* A step that leaves a call and its order alone, and of the store removes
\* only what is too old or inserts what is new, leaves it answerable.
LEMMA AnswerableKept ==
    ASSUME TypeOK, TypeOK', NEW c \in ShCalls, sent[c] >= 1, since[c] <= now, Answerable(c),
           now' >= now, auths'[c] = auths[c], sent'[c] = sent[c], stored'[c] = stored[c],
           since'[c] = since[c],
           \A t \in Tokens : \/ challenges'[t] \in {challenges[t], now}
                             \/ challenges[t] = Absent
                             \/ now - challenges[t] >= TTL
    PROVE  since'[c] <= now' /\ Answerable(c)'
  <1> DEFINE t == Current(c)
  <1>0. c \in Calls
    BY DEF Calls
  <1>1. t \in Tokens /\ Current(c)' = t
    BY <1>0, CurrentToken DEF Current
  <1>2. /\ now \in Int /\ now' \in Int /\ since[c] \in Int /\ TTL \in Int
        /\ challenges[t] \in Int \cup {Absent} /\ Absent \notin Int
    BY <1>0, <1>1, TimesAssumption DEF TypeOK
  <1>3. CASE stored[c] < sent[c]
    BY <1>2, <1>3 DEF Answerable
  <1>4. CASE now - since[c] >= TTL
    BY <1>2, <1>4 DEF Answerable
  <1>5. CASE challenges[t] # Absent /\ challenges[t] >= since[c]
    <2>1. CASE challenges'[t] \in {challenges[t], now}
      BY <1>1, <1>2, <1>5, <2>1 DEF Answerable
    <2>2. CASE now - challenges[t] >= TTL
      <3>1. now' - since[c] >= TTL
        BY <1>2, <1>5, <2>2
      <3> QED BY <1>2, <3>1 DEF Answerable
    <2> QED BY <1>1, <1>5, <2>1, <2>2
  <1> QED BY <1>3, <1>4, <1>5 DEF Answerable

\* Every call that is answerable was so before, and its own state is kept.
LEMMA AnnouncedKept ==
    ASSUME TypeOK, TypeOK', Announced, NEW d \in ShCalls,
           child'[d] \in {"told", "poll"} => child[d] \in {"told", "poll"},
           child'[d] \in {"told", "poll"} =>
              /\ auths'[d] = auths[d] /\ sent'[d] = sent[d]
              /\ stored'[d] = stored[d] /\ since'[d] = since[d],
           now' >= now,
           \A t \in Tokens : \/ challenges'[t] \in {challenges[t], now}
                             \/ challenges[t] = Absent
                             \/ now - challenges[t] >= TTL,
           child'[d] \in {"told", "poll"}
    PROVE  sent'[d] >= 1 /\ since'[d] <= now' /\ Answerable(d)'
  <1>1. sent[d] >= 1 /\ since[d] <= now /\ Answerable(d)
    BY DEF Announced
  <1> QED BY <1>1, AnswerableKept

LEMMA AnnouncedStep ==
    ASSUME TypeOK, TypeOK', DrainInv, Announced, [Next]_vars
    PROVE  Announced'
  <1> SUFFICES ASSUME NEW d \in ShCalls, child'[d] \in {"told", "poll"}
               PROVE  sent'[d] >= 1 /\ since'[d] <= now' /\ Answerable(d)'
    BY DEF Announced
  <1>0. d \in Calls /\ now \in Int /\ now >= now
    BY DEF Calls, TypeOK
  <1>1. CASE Tick
    <2>1. now' >= now /\ challenges' = challenges
      BY <1>0, <1>1 DEF Tick
    <2> QED BY <1>1, <2>1, AnnouncedKept DEF Tick
  <1>2. CASE Cleanup
    <2>1. \A t \in Tokens : \/ challenges'[t] = challenges[t] \/ challenges[t] = Absent
                            \/ now - challenges[t] >= TTL
      BY <1>0, <1>2, TimesAssumption DEF Cleanup, TypeOK
    <2> QED BY <1>0, <1>2, <2>1, AnnouncedKept DEF Cleanup
  <1>3. CASE Restart
    BY <1>0, <1>3 DEF Restart, NoCall
  <1>4. ASSUME NEW t \in Tokens, Fetch(t)
        PROVE  sent'[d] >= 1 /\ since'[d] <= now' /\ Answerable(d)'
    BY <1>0, <1>4, AnnouncedKept DEF Fetch
  <1>5. ASSUME NEW c \in ShCalls, ShCall(c) \/ AcmeSh(c) \/ GiveUp(c)
        PROVE  sent'[d] >= 1 /\ since'[d] <= now' /\ Answerable(d)'
    <2>0. c \in Calls
      BY DEF Calls
    <2>1. CASE Spawn(c)
      <3>1. d # c
        BY <1>0, <2>0, <2>1 DEF Spawn, TypeOK
      <3>2. /\ child'[d] = child[d] /\ auths'[d] = auths[d] /\ sent'[d] = sent[d]
            /\ stored'[d] = stored[d] /\ UNCHANGED <<now, challenges, since>>
        BY <1>0, <2>1, <3>1 DEF Spawn, TypeOK
      <3> QED BY <1>0, <3>2, AnnouncedKept
    <2>2. CASE ReadFails(c) \/ ChildExited(c) \/ WaitFails(c) \/ Ask(c) \/ AnnounceFails(c)
      <3>1. child'[d] \in {"told", "poll"} => child[d] \in {"told", "poll"}
        BY <1>0, <2>0, <2>2
        DEF ReadFails, ChildExited, WaitFails, Ask, AnnounceFails, TypeOK
      <3>2. UNCHANGED <<now, challenges, auths, sent, stored, since>>
        BY <2>2 DEF ReadFails, ChildExited, WaitFails, Ask, AnnounceFails
      <3> QED BY <1>0, <3>1, <3>2, AnnouncedKept
    <2>3. CASE ReadLine(c)
      <3>1. /\ challenges' = [challenges EXCEPT ![auths[c][stored[c] + 1]] = now]
            /\ stored[c] < sent[c] /\ stored'[c] = stored[c] + 1
            /\ \A e \in Calls \ {c} : stored'[e] = stored[e]
            /\ UNCHANGED <<now, stage, child, auths, sent, since, ca>>
        BY <2>0, <2>3 DEF ReadLine, Inserted, TypeOK
      <3>2. CASE d = c
        <4>1. sent[d] >= 1 /\ since[d] <= now
          BY <1>0, <3>1 DEF Announced
        <4>2. Current(d) \in Tokens /\ Current(d)' = Current(d)
          BY <1>0, <3>1, <4>1, CurrentToken DEF Current
        <4>3. stored[d] \in Nat /\ sent[d] \in Nat /\ Absent \notin Int
          BY <1>0, TimesAssumption DEF TypeOK
        <4>4. CASE stored[d] + 1 < sent[d]
          BY <3>1, <3>2, <4>1, <4>4 DEF Answerable
        <4>5. CASE stored[d] + 1 = sent[d]
          <5>1. challenges'[Current(d)] = now
            <6>1. Current(d) = auths[c][stored[c] + 1]
              BY <3>2, <4>5 DEF Current
            <6>2. challenges \in [Tokens -> 0..MaxNow \cup {Absent}]
              BY DEF TypeOK
            <6> QED BY <3>1, <4>2, <6>1, <6>2
          <5> QED BY <1>0, <3>1, <4>1, <4>2, <4>3, <5>1 DEF Answerable
        <4> QED BY <3>1, <3>2, <4>3, <4>4, <4>5
      <3>3. CASE d # c
        <4>1. \A t \in Tokens : challenges'[t] \in {challenges[t], now}
          BY <3>1 DEF TypeOK
        <4> QED BY <1>0, <3>1, <3>3, <4>1, AnnouncedKept
      <3> QED BY <3>2, <3>3
    <2>4. CASE Return(c)
      <3>1. d # c
        BY <1>0, <2>0, <2>4 DEF Return, TypeOK
      <3>2. /\ child'[d] = child[d] /\ auths'[d] = auths[d] /\ sent'[d] = sent[d]
            /\ stored'[d] = stored[d] /\ since'[d] = since[d] /\ UNCHANGED <<now, challenges>>
        BY <1>0, <2>4, <3>1 DEF Return, TypeOK
      <3> QED BY <1>0, <3>2, AnnouncedKept
    <2>5. CASE Announce(c)
      <3>1. CASE d = c
        <4>1. /\ sent'[d] = sent[d] + 1 /\ since'[d] = now /\ now' = now
              /\ stored'[d] = stored[d]
          BY <1>0, <2>5, <3>1 DEF Announce, TypeOK
        <4>2. stored[d] <= sent[d] /\ stored[d] \in Nat /\ sent[d] \in Nat
          BY <1>0 DEF TypeOK
        <4> QED BY <1>0, <4>1, <4>2 DEF Answerable
      <3>2. CASE d # c
        <4>1. /\ child'[d] = child[d] /\ auths'[d] = auths[d] /\ sent'[d] = sent[d]
              /\ stored'[d] = stored[d] /\ since'[d] = since[d] /\ UNCHANGED <<now, challenges>>
          BY <1>0, <2>5, <3>2 DEF Announce, TypeOK
        <4> QED BY <1>0, <4>1, AnnouncedKept
      <3> QED BY <3>1, <3>2
    <2>6. CASE Poll(c) \/ Finish(c) \/ GiveUp(c)
      <3>1. d # c
        BY <1>0, <2>0, <2>6 DEF Poll, Finish, GiveUp, TypeOK
      <3>2. /\ child'[d] = child[d] /\ auths'[d] = auths[d] /\ sent'[d] = sent[d]
            /\ stored'[d] = stored[d] /\ since'[d] = since[d] /\ UNCHANGED <<now, challenges>>
        BY <1>0, <2>6, <3>1 DEF Poll, Finish, GiveUp, TypeOK
      <3> QED BY <1>0, <3>2, AnnouncedKept
    <2> QED BY <1>5, <2>1, <2>2, <2>3, <2>4, <2>5, <2>6 DEF ShCall, AcmeSh
  <1>6. ASSUME NEW c \in LibCalls, LibCall(c)
        PROVE  sent'[d] >= 1 /\ since'[d] <= now' /\ Answerable(d)'
    <2>1. d # c /\ c \in Calls
      BY CallsAssumption DEF Calls
    <2>2. UNCHANGED <<now, challenges, child, sent, stored, since>>
      BY <1>6 DEF LibCall, Order, StoreChallenge, Finalize
    <2>3. auths'[d] = auths[d]
      <3>1. auths = [e \in Calls |-> auths[e]]
        BY DEF TypeOK
      <3>2. CASE Order(c)
        <4>1. PICK a : auths' = [auths EXCEPT ![c] = a]
          BY <3>2 DEF Order
        <4> QED BY <1>0, <2>1, <3>1, <4>1
      <3>3. CASE StoreChallenge(c)
        BY <1>0, <2>1, <3>1, <3>3 DEF StoreChallenge
      <3>4. CASE Finalize(c)
        BY <3>4 DEF Finalize
      <3> QED BY <1>6, <3>2, <3>3, <3>4 DEF LibCall
    <2> QED BY <1>0, <2>2, <2>3, AnnouncedKept
  <1>7. CASE UNCHANGED vars
    BY <1>0, <1>7, AnnouncedKept DEF vars
  <1> QED BY <1>1, <1>2, <1>3, <1>4, <1>5, <1>6, <1>7 DEF Next

LEMMA ServeInvariant == Spec => []ServeInv
  <1>1. Init => Announced
    BY DEF Init, NoCall, Announced, Calls
  <1>2. Announced /\ DrainInv /\ DrainInv' /\ [Next]_vars => Announced'
    BY AnnouncedStep DEF DrainInv, TypeInv
  <1>3. Spec => []Announced
    BY <1>1, <1>2, DrainInvariant, PTL DEF Spec
  <1> QED BY <1>3, DrainInvariant, PTL DEF ServeInv

\* The endpoint serves the token acme.sh waits for, unless its line is still
\* in the pipe, was lost with the reader task, or the TTL has passed since it
\* was written.
THEOREM AskedServed == Spec => []AskedIsServed
  <1>1. ServeInv => AskedIsServed
    <2> SUFFICES ASSUME ServeInv, NEW c \in ShCalls, child[c] = "poll",
                        ~(stored[c] < sent[c]), ~(now - since[c] >= TTL)
                 PROVE  Served(Current(c))
      BY DEF AskedIsServed
    <2>1. c \in Calls /\ TypeOK
      BY DEF Calls, ServeInv, DrainInv, TypeInv
    <2>2. /\ sent[c] >= 1
          /\ challenges[Current(c)] # Absent /\ challenges[Current(c)] >= since[c]
      BY DEF ServeInv, Announced, Answerable
    <2>3. challenges[Current(c)] \in Int /\ since[c] \in Int /\ now \in Int /\ TTL \in Int
      BY <2>1, <2>2, CurrentToken, TimesAssumption DEF TypeOK
    <2> QED BY <2>2, <2>3 DEF Served
  <1> QED BY ServeInvariant, <1>1, PTL

\* A cleanup changes no answer of the endpoint.
THEOREM CleanupsInvisible == Spec => CleanupInvisible
  <1>1. TypeOK /\ [Next]_vars => [Cleanup => \A t \in Tokens : Served(t)' = Served(t)]_vars
    <2> SUFFICES ASSUME TypeOK, Cleanup, NEW t \in Tokens PROVE Served(t)' = Served(t)
      OBVIOUS
    <2>1. now' = now
      BY DEF Cleanup
    <2>2. challenges'[t] = IF challenges[t] # Absent /\ now - challenges[t] < TTL
                           THEN challenges[t] ELSE Absent
      BY DEF Cleanup
    <2>3. CASE challenges[t] # Absent /\ now - challenges[t] < TTL
      BY <2>1, <2>2, <2>3 DEF Served
    <2>4. CASE ~(challenges[t] # Absent /\ now - challenges[t] < TTL)
      BY <2>1, <2>2, <2>4 DEF Served
    <2> QED BY <2>3, <2>4
  <1> QED BY TypeCorrect, <1>1, PTL DEF CleanupInvisible, Spec

-----------------------------------------------------------------------------
(* Calls of the acme-sh provider come to an end.  The temporal argument is *)
(* TLC's (CallReturns); what it rests on is proved for every pipe and any  *)
(* number of calls: some party can always take the next step of a call,    *)
(* and a call takes no more steps than its order allows.                   *)

\* issue() waits for a child it has started, and acme.sh for an
\* authorization that the CA was told to validate.
Started ==
    /\ \A c \in ShCalls : stage[c] \in {"idle", "child", "reader", "lost"}
    /\ \A c \in ShCalls : stage[c] = "child" => child[c] # "none"
    /\ \A c \in ShCalls : child[c] = "poll" => ca[Current(c)] # "pending"

LEMMA StartedStep == ServeInv /\ Started /\ [Next]_vars => Started'
  <1> SUFFICES ASSUME ServeInv, TypeOK, Started, [Next]_vars, NEW d \in ShCalls
               PROVE  /\ stage'[d] \in {"idle", "child", "reader", "lost"}
                      /\ stage'[d] = "child" => child'[d] # "none"
                      /\ child'[d] = "poll" => ca'[Current(d)'] # "pending"
    BY DEF Started, ServeInv, DrainInv, TypeInv
  <1> DEFINE Fine == /\ stage'[d] \in {"idle", "child", "reader", "lost"}
                     /\ stage'[d] = "child" => child'[d] # "none"
                     /\ child'[d] = "poll" => ca'[Current(d)'] # "pending"
  <1>0. d \in Calls /\ (child[d] = "poll" => Current(d) \in Tokens)
    BY CurrentToken DEF Calls, ServeInv, Announced
  <1>1. ASSUME UNCHANGED <<stage, child, auths, sent, ca>> PROVE Fine
    BY <1>1 DEF Started, Current
  <1>2. CASE Tick \/ Cleanup \/ UNCHANGED vars
    BY <1>1, <1>2 DEF Tick, Cleanup, vars
  <1>3. CASE Restart
    BY <1>0, <1>3 DEF Restart, NoCall
  <1>4. ASSUME NEW t \in Tokens, Fetch(t) PROVE Fine
    BY <1>0, <1>4 DEF Fetch, Started, Current, TypeOK
  <1>5. ASSUME NEW c \in ShCalls, ShCall(c) \/ AcmeSh(c) \/ GiveUp(c) PROVE Fine
    <2>0. c \in Calls
      BY DEF Calls
    <2>1. CASE ReadLine(c) \/ ReadFails(c)
      BY <1>1, <2>1 DEF ReadLine, ReadFails
    <2>2. CASE Ask(c)
      <3>1. CASE d = c
        <4>1. Current(c) \in Tokens /\ Current(c)' = Current(c)
          BY <2>0, <2>2, CurrentToken DEF Ask, ServeInv, Announced, Current
        <4>2. stage'[d] = stage[d] /\ child'[d] = "poll"
          BY <1>0, <2>2, <3>1 DEF Ask, TypeOK
        <4>3. ca'[Current(c)] # "pending"
          BY <2>2, <4>1 DEF Ask, TypeOK
        <4> QED BY <3>1, <4>1, <4>2, <4>3 DEF Started
      <3>2. CASE d # c
        <4>1. /\ UNCHANGED <<stage, auths, sent>> /\ child'[d] = child[d]
              /\ \A t \in Tokens : ca[t] # "pending" => ca'[t] # "pending"
          BY <1>0, <2>2, <3>2 DEF Ask, TypeOK
        <4> QED BY <1>0, <4>1 DEF Started, Current
      <3> QED BY <3>1, <3>2
    <2>3. CASE ~ReadLine(c) /\ ~ReadFails(c) /\ ~Ask(c)
      <3>1. CASE d = c
        <4>1. /\ stage'[d] \in {"idle", "child", "reader", "lost"}
              /\ stage'[d] = "child" => child'[d] # "none"
          BY <1>0, <1>5, <2>3, <3>1
          DEF ShCall, AcmeSh, Spawn, ChildExited, WaitFails, Return, Announce, AnnounceFails,
              Poll, Finish, GiveUp, TypeOK, Started
        <4>2. CASE ChildExited(c) \/ WaitFails(c)
          BY <1>0, <3>1, <4>1, <4>2 DEF ChildExited, WaitFails, Started, Current
        <4>3. CASE ~ChildExited(c) /\ ~WaitFails(c)
          <5>1. child'[d] # "poll"
            BY <1>0, <1>5, <2>3, <3>1, <4>3
            DEF ShCall, AcmeSh, Spawn, Return, Announce, AnnounceFails, Poll, Finish, GiveUp,
                TypeOK
          <5> QED BY <4>1, <5>1
        <4> QED BY <4>2, <4>3
      <3>2. CASE d # c
        <4>1. /\ stage'[d] = stage[d] /\ child'[d] = child[d] /\ auths'[d] = auths[d]
              /\ sent'[d] = sent[d] /\ ca' = ca
          BY <1>0, <1>5, <2>3, <3>2
          DEF ShCall, AcmeSh, Spawn, ChildExited, WaitFails, Return, Announce, AnnounceFails,
              Poll, Finish, GiveUp, TypeOK
        <4> QED BY <4>1 DEF Started, Current
      <3> QED BY <3>1, <3>2
    <2> QED BY <2>1, <2>2, <2>3
  <1>6. ASSUME NEW c \in LibCalls, LibCall(c) PROVE Fine
    <2>1. d # c /\ c \in Calls
      BY CallsAssumption DEF Calls
    <2>2. /\ stage'[d] = stage[d] /\ auths'[d] = auths[d] /\ UNCHANGED <<child, sent, ca>>
      BY <1>0, <1>6, <2>1 DEF LibCall, Order, StoreChallenge, Finalize, TypeOK
    <2> QED BY <2>2 DEF Started, Current
  <1> QED BY <1>2, <1>3, <1>4, <1>5, <1>6 DEF Next

\* The next step of call c can be taken: by the reader task, by issue(), by
\* acme.sh, or by the CA.
CanGoOn(c) ==
    \/ c \notin broken /\ stored[c] < sent[c]
    \/ stage[c] = "child" /\ child[c] = "exited"
    \/ stage[c] = "reader" /\ (c \in broken \/ stored[c] = sent[c])
    \/ /\ child[c] = "work" /\ sent[c] < Len(auths[c])
       /\ c \in broken \/ sent[c] - stored[c] < PipeCap
    \/ child[c] = "work" /\ sent[c] = Len(auths[c])
    \/ child[c] = "told"
    \/ child[c] = "poll" /\ ca[Current(c)] \in {"asked", "valid", "invalid"}

\* Whatever is left of a call, orphans of a failed wait included, can go on.
NoCallStuck == \A c \in ShCalls : ~Over(c) => CanGoOn(c)

\* issue(), acme.sh and the reader task never wait for each other in a
\* circle, however small the pipe and however many calls share tokens.
THEOREM NobodyStuck == Spec => []NoCallStuck
  <1>1. Init => Started
    BY DEF Init, NoCall, Started, Calls
  <1>2. ServeInv /\ Started => NoCallStuck
    <2> SUFFICES ASSUME ServeInv, TypeOK, Started, NEW c \in ShCalls, ~Over(c)
                 PROVE  CanGoOn(c)
      BY DEF NoCallStuck, ServeInv, DrainInv, TypeInv
    <2>1. /\ c \in Calls /\ stored[c] \in Nat /\ sent[c] \in Nat /\ stored[c] <= sent[c]
          /\ Len(auths[c]) \in Nat /\ sent[c] <= Len(auths[c]) /\ PipeCap \in Nat \ {0}
      BY AuthsAreTokens, TimesAssumption DEF TypeOK, Calls
    <2>2. CASE c \notin broken /\ stored[c] # sent[c]
      BY <2>1, <2>2 DEF CanGoOn
    <2>3. CASE (c \in broken \/ stored[c] = sent[c]) /\ stage[c] = "reader"
      BY <2>3 DEF CanGoOn
    <2>4. CASE stage[c] = "child" /\ child[c] = "exited"
      BY <2>4 DEF CanGoOn
    <2>5. CASE (c \in broken \/ stored[c] = sent[c]) /\ child[c] \in Working
      <3>1. CASE child[c] = "work"
        BY <2>1, <2>5, <3>1 DEF CanGoOn
      <3>2. CASE child[c] = "told"
        BY <3>2 DEF CanGoOn
      <3>3. CASE child[c] = "poll"
        <4>1. Current(c) \in Tokens
          BY <2>1, <3>3, CurrentToken DEF ServeInv, Announced
        <4> QED BY <3>3, <4>1 DEF Started, CanGoOn, TypeOK
      <3> QED BY <2>5, <3>1, <3>2, <3>3 DEF Working
    <2>6. \/ c \notin broken /\ stored[c] # sent[c]
          \/ stage[c] = "reader"
          \/ child[c] \in Working
          \/ stage[c] = "child" /\ child[c] = "exited"
      BY <2>1 DEF Over, Started, Resting, Working, TypeOK
    <2> QED BY <2>2, <2>3, <2>4, <2>5, <2>6
  <1> QED BY <1>1, <1>2, StartedStep, ServeInvariant, PTL DEF Spec

\* How many steps are left of a call at most: for each authorization the
\* announcement, the question and its answer, and the line read, while there
\* is a reader task; then the end of acme.sh and of issue().
Phase == [none |-> 0, exited |-> 0, work |-> 1, poll |-> 2, told |-> 3]

LinesLeft(c) == IF c \in broken THEN 0 ELSE Len(auths[c]) - stored[c]

Waits(c) == IF stage[c] = "child" THEN 2 ELSE IF stage[c] = "reader" THEN 1 ELSE 0

StepsLeft(c) == 3 * (Len(auths[c]) - sent[c]) + LinesLeft(c) + Phase[child[c]] + Waits(c)

\* A step that a party of an unfinished call takes leaves it fewer.
CallsShrink == \A c \in ShCalls :
    /\ ~Over(c)
    /\ <<stage[c], child[c], auths[c], sent[c], stored[c], c \in broken>>'
         # <<stage[c], child[c], auths[c], sent[c], stored[c], c \in broken>>
    => StepsLeft(c)' < StepsLeft(c)

FewSteps == \A c \in ShCalls :
    StepsLeft(c) \in Nat /\ StepsLeft(c) <= 4 * Len(auths[c]) + 5

LEMMA PhaseType ==
    /\ Phase["none"] = 0 /\ Phase["exited"] = 0
    /\ Phase["work"] = 1 /\ Phase["poll"] = 2 /\ Phase["told"] = 3
  BY DEF Phase

LEMMA FewSum ==
    ASSUME NEW n \in Nat, NEW s \in 0..n, NEW r \in 0..n, NEW p \in 0..3, NEW w \in 0..2
    PROVE  /\ 3 * (n - s) + r + p + w \in Nat
           /\ 3 * (n - s) + r + p + w <= 4 * n + 5
           /\ r >= 1 \/ p >= 1 \/ w >= 1 => 3 * (n - s) + r + p + w > 0
  OBVIOUS

\* The terms of the sum.
LEMMA Terms ==
    ASSUME TypeOK, NEW c \in ShCalls
    PROVE  /\ Len(auths[c]) \in Nat /\ sent[c] \in 0..Len(auths[c])
           /\ LinesLeft(c) \in 0..Len(auths[c])
           /\ Phase[child[c]] \in 0..3 /\ Waits(c) \in 0..2
  <1>1. /\ stored[c] \in Nat /\ sent[c] \in Nat /\ stored[c] <= sent[c]
        /\ Len(auths[c]) \in Nat /\ sent[c] <= Len(auths[c])
    BY AuthsAreTokens DEF TypeOK, Calls
  <1>2. Phase[child[c]] \in 0..3
    <2>1. child[c] \in {"none", "exited", "work", "poll", "told"}
      BY DEF TypeOK, Calls, Working
    <2> QED BY <2>1, PhaseType
  <1>3. LinesLeft(c) \in 0..Len(auths[c])
    BY <1>1 DEF LinesLeft
  <1> QED BY <1>1, <1>2, <1>3 DEF Waits

LEMMA FewStepsLeft ==
    ASSUME TypeOK, NEW c \in ShCalls
    PROVE  StepsLeft(c) \in Nat /\ StepsLeft(c) <= 4 * Len(auths[c]) + 5
  BY Terms, FewSum DEF StepsLeft

\* The arithmetic of one step.
LEMMA FewerSteps ==
    ASSUME NEW n \in Nat, NEW s \in Nat, NEW r \in Nat, NEW p \in Nat, NEW w \in Nat,
           NEW s1 \in Nat, NEW r1 \in Nat, NEW p1 \in Nat, NEW w1 \in Nat,
           \/ s1 = s + 1 /\ r1 = r /\ p1 <= p + 2 /\ w1 = w
           \/ s1 = s /\ r1 < r /\ p1 = p /\ w1 = w
           \/ s1 = s /\ r1 = r /\ p1 < p /\ w1 = w
           \/ s1 = s /\ r1 = r /\ p1 = p /\ w1 < w
    PROVE  3 * (n - s1) + r1 + p1 + w1 < 3 * (n - s) + r + p + w
  OBVIOUS

\* What is not over has a step left.
LEMMA StepLeft ==
    ASSUME TypeOK, NEW c \in ShCalls, stage[c] \in {"idle", "child", "reader", "lost"}, ~Over(c)
    PROVE  StepsLeft(c) > 0
  <1>1. /\ stored[c] \in Nat /\ sent[c] \in Nat /\ stored[c] <= sent[c]
        /\ Len(auths[c]) \in Nat /\ sent[c] <= Len(auths[c])
    BY AuthsAreTokens DEF TypeOK, Calls
  <1>2. CASE stage[c] \in {"child", "reader"}
    <2>1. Waits(c) >= 1
      BY <1>2 DEF Waits
    <2> QED BY <2>1, Terms, FewSum DEF StepsLeft
  <1>3. CASE child[c] \in Working
    <2>1. Phase[child[c]] >= 1
      BY <1>3, PhaseType DEF Working
    <2> QED BY <2>1, Terms, FewSum DEF StepsLeft
  <1>4. CASE c \notin broken /\ stored[c] # sent[c]
    <2>1. LinesLeft(c) >= 1
      BY <1>1, <1>4 DEF LinesLeft
    <2> QED BY <2>1, Terms, FewSum DEF StepsLeft
  <1> QED BY <1>2, <1>3, <1>4 DEF Over, Resting

\* A step of the call itself, of issue(), its child or its reader task.
LEMMA OwnStep ==
    ASSUME TypeOK, TypeOK', Phases, NEW d \in ShCalls, ~Over(d),
           ShCall(d) \/ AcmeSh(d) \/ GiveUp(d)
    PROVE  StepsLeft(d)' < StepsLeft(d)
  <1>0. /\ d \in Calls /\ sent[d] \in Nat /\ stored[d] \in Nat /\ stored[d] <= sent[d]
        /\ sent[d] <= Len(auths[d]) /\ Len(auths[d]) \in Nat
    BY AuthsAreTokens DEF Calls, TypeOK
  <1>1. auths'[d] = auths[d]
    BY DEF ShCall, AcmeSh, Spawn, ReadLine, ReadFails, ChildExited, WaitFails, Return, Announce,
           AnnounceFails, Ask, Poll, Finish, GiveUp
  <1> DEFINE Fewer ==
               \/ /\ sent'[d] = sent[d] + 1 /\ LinesLeft(d)' = LinesLeft(d)
                  /\ Phase[child'[d]] <= Phase[child[d]] + 2 /\ Waits(d)' = Waits(d)
               \/ /\ sent'[d] = sent[d] /\ LinesLeft(d)' < LinesLeft(d)
                  /\ Phase[child'[d]] = Phase[child[d]] /\ Waits(d)' = Waits(d)
               \/ /\ sent'[d] = sent[d] /\ LinesLeft(d)' = LinesLeft(d)
                  /\ Phase[child'[d]] < Phase[child[d]] /\ Waits(d)' = Waits(d)
               \/ /\ sent'[d] = sent[d] /\ LinesLeft(d)' = LinesLeft(d)
                  /\ Phase[child'[d]] = Phase[child[d]] /\ Waits(d)' < Waits(d)
  <1>2. ASSUME Spawn(d) PROVE Fewer
    BY <1>2 DEF Spawn
  <1>3. ASSUME ReadLine(d) PROVE Fewer
    <2>1. /\ UNCHANGED <<stage, child, auths, sent, broken>> /\ stored'[d] = stored[d] + 1
          /\ d \notin broken
      BY <1>0, <1>3 DEF ReadLine, TypeOK
    <2> QED BY <1>0, <2>1 DEF LinesLeft, Waits
  <1>4. ASSUME ReadFails(d) PROVE Fewer
    <2>1. UNCHANGED <<stage, child, auths, sent, stored>> /\ d \notin broken /\ d \in broken'
      BY <1>4 DEF ReadFails
    <2>2. stored[d] < sent[d]
      BY <1>4 DEF ReadFails
    <2> QED BY <1>0, <2>1, <2>2 DEF LinesLeft, Waits
  <1>5. ASSUME ChildExited(d) \/ WaitFails(d) PROVE Fewer
    <2>1. /\ UNCHANGED <<child, auths, sent, stored, broken>>
          /\ stage[d] = "child" /\ stage'[d] \in {"reader", "lost"}
      BY <1>0, <1>5 DEF ChildExited, WaitFails, TypeOK
    <2> QED BY <2>1 DEF LinesLeft, Waits
  <1>6. ASSUME Return(d) PROVE Fewer
    <2>1. /\ UNCHANGED <<auths, sent, stored, broken>>
          /\ stage[d] = "reader" /\ stage'[d] = "idle" /\ child'[d] = "none"
      BY <1>0, <1>6 DEF Return, TypeOK
    <2>2. LinesLeft(d)' = LinesLeft(d) /\ Waits(d)' < Waits(d)
      BY <2>1 DEF LinesLeft, Waits
    <2>3. Phase[child[d]] = 0 /\ Phase[child'[d]] = 0
      BY <1>0, <2>1, PhaseType DEF Phases, Working, TypeOK
    <2> QED BY <2>1, <2>2, <2>3
  <1>7. ASSUME Announce(d) PROVE Fewer
    <2>1. /\ UNCHANGED <<stage, auths, stored, broken>> /\ sent'[d] = sent[d] + 1
          /\ child[d] = "work" /\ child'[d] = "told"
      BY <1>0, <1>7 DEF Announce, TypeOK
    <2> QED BY <2>1, PhaseType DEF LinesLeft, Waits
  <1>8. ASSUME AnnounceFails(d) \/ Ask(d) \/ Poll(d) \/ Finish(d) \/ GiveUp(d) PROVE Fewer
    <2>1. /\ UNCHANGED <<stage, auths, sent, stored, broken>>
          /\ \/ child[d] = "work" /\ child'[d] = "exited"
             \/ child[d] = "told" /\ child'[d] = "poll"
             \/ child[d] = "poll" /\ child'[d] \in {"work", "exited"}
             \/ child[d] \in Working /\ child'[d] = "exited"
      BY <1>0, <1>8 DEF AnnounceFails, Ask, Poll, Finish, GiveUp, TypeOK
    <2>2. LinesLeft(d)' = LinesLeft(d) /\ Waits(d)' = Waits(d)
      BY <2>1 DEF LinesLeft, Waits
    <2>3. Phase[child'[d]] < Phase[child[d]]
      BY <2>1, PhaseType DEF Working
    <2> QED BY <2>1, <2>2, <2>3
  <1>9. Fewer
    BY <1>2, <1>3, <1>4, <1>5, <1>6, <1>7, <1>8 DEF ShCall, AcmeSh
  <1> HIDE DEF Fewer
  <1>10. /\ sent'[d] \in Nat /\ LinesLeft(d) \in Nat /\ LinesLeft(d)' \in Nat
         /\ Phase[child[d]] \in Nat /\ Phase[child'[d]] \in Nat
         /\ Waits(d) \in Nat /\ Waits(d)' \in Nat
    <2>1. /\ Phase[child[d]] \in Nat /\ LinesLeft(d) \in Nat
          /\ Waits(d) \in Nat /\ Waits(d)' \in Nat
      BY Terms DEF Waits
    <2>2. /\ sent'[d] \in Nat /\ stored'[d] \in Nat /\ stored'[d] <= sent'[d]
          /\ sent'[d] <= Len(auths'[d])
      BY <1>0 DEF TypeOK
    <2>3. LinesLeft(d)' \in Nat
      BY <1>0, <1>1, <2>2 DEF LinesLeft
    <2>4. child'[d] \in {"none", "exited", "work", "poll", "told"}
      BY <1>0 DEF TypeOK, Working
    <2>5. Phase[child'[d]] \in Nat
      BY <2>4, PhaseType
    <2> QED BY <2>1, <2>2, <2>3, <2>5
  <1>11. StepsLeft(d)' = 3 * (Len(auths[d]) - sent'[d]) + LinesLeft(d)'
                          + Phase[child'[d]] + Waits(d)'
    BY <1>1 DEF StepsLeft
  <1>12. 3 * (Len(auths[d]) - sent'[d]) + LinesLeft(d)' + Phase[child'[d]] + Waits(d)'
           < 3 * (Len(auths[d]) - sent[d]) + LinesLeft(d) + Phase[child[d]] + Waits(d)
    <2> DEFINE n == Len(auths[d])
               s == sent[d]
               s1 == sent'[d]
               r == LinesLeft(d)
               r1 == LinesLeft(d)'
               p == Phase[child[d]]
               p1 == Phase[child'[d]]
               w == Waits(d)
               w1 == Waits(d)'
    <2>1. /\ n \in Nat /\ s \in Nat /\ s1 \in Nat /\ r \in Nat /\ r1 \in Nat
          /\ p \in Nat /\ p1 \in Nat /\ w \in Nat /\ w1 \in Nat
      BY <1>0, <1>10
    <2>2. \/ s1 = s + 1 /\ r1 = r /\ p1 <= p + 2 /\ w1 = w
          \/ s1 = s /\ r1 < r /\ p1 = p /\ w1 = w
          \/ s1 = s /\ r1 = r /\ p1 < p /\ w1 = w
          \/ s1 = s /\ r1 = r /\ p1 = p /\ w1 < w
      BY <1>9 DEF Fewer
    <2> HIDE DEF n, s, s1, r, r1, p, p1, w, w1
    <2>3. 3 * (n - s1) + r1 + p1 + w1 < 3 * (n - s) + r + p + w
      BY <2>1, <2>2, FewerSteps
    <2> QED BY <2>3 DEF n, s, s1, r, r1, p, p1, w, w1
  <1> QED BY <1>11, <1>12 DEF StepsLeft

LEMMA CallsShrinkStep ==
    ASSUME TypeOK, TypeOK', Phases, Started, [Next]_vars
    PROVE  CallsShrink
  <1> SUFFICES ASSUME NEW d \in ShCalls, ~Over(d),
                      <<stage[d], child[d], auths[d], sent[d], stored[d], d \in broken>>'
                        # <<stage[d], child[d], auths[d], sent[d], stored[d], d \in broken>>
               PROVE  StepsLeft(d)' < StepsLeft(d)
    BY DEF CallsShrink
  <1>0. d \in Calls
    BY DEF Calls
  <1>1. CASE Tick \/ Cleanup \/ UNCHANGED vars
    BY <1>1 DEF Tick, Cleanup, vars
  <1>2. CASE Restart
    <2>1. /\ auths'[d] = <<>> /\ sent'[d] = 0 /\ stored'[d] = 0
          /\ child'[d] = "none" /\ stage'[d] = "idle"
      BY <1>0, <1>2 DEF Restart, NoCall
    <2>2. StepsLeft(d)' = 0
      BY <2>1, PhaseType DEF StepsLeft, LinesLeft, Waits
    <2> QED BY <2>2, StepLeft DEF Started
  <1>3. ASSUME NEW t \in Tokens, Fetch(t) PROVE FALSE
    BY <1>3 DEF Fetch
  <1>4. ASSUME NEW c \in ShCalls, ShCall(c) \/ AcmeSh(c) \/ GiveUp(c)
        PROVE  StepsLeft(d)' < StepsLeft(d)
    <2>1. ASSUME d # c PROVE FALSE
      <3>1. /\ stage'[d] = stage[d] /\ child'[d] = child[d] /\ auths'[d] = auths[d]
            /\ sent'[d] = sent[d] /\ stored'[d] = stored[d]
            /\ (d \in broken') = (d \in broken)
        <4>1. CASE Spawn(c)
          BY <1>0, <2>1, <4>1 DEF Spawn, TypeOK
        <4>2. CASE ReadLine(c) \/ ReadFails(c) \/ ChildExited(c) \/ WaitFails(c) \/ Return(c)
          BY <1>0, <2>1, <4>2 DEF ReadLine, ReadFails, ChildExited, WaitFails, Return, TypeOK
        <4>3. CASE AcmeSh(c) \/ GiveUp(c)
          BY <1>0, <2>1, <4>3
          DEF AcmeSh, Announce, AnnounceFails, Ask, Poll, Finish, GiveUp, TypeOK
        <4> QED BY <1>4, <4>1, <4>2, <4>3 DEF ShCall
      <3> QED BY <3>1
    <2>2. ShCall(d) \/ AcmeSh(d) \/ GiveUp(d)
      BY <1>4, <2>1
    <2> QED BY <2>2, OwnStep
  <1>5. ASSUME NEW c \in LibCalls, LibCall(c) PROVE FALSE
    <2>1. d # c /\ c \in Calls
      BY CallsAssumption DEF Calls
    <2>2. UNCHANGED <<child, sent, stored, broken>>
      BY <1>5 DEF LibCall, Order, StoreChallenge, Finalize
    <2>3. stage'[d] = stage[d] /\ auths'[d] = auths[d]
      <3>1. CASE Order(c)
        BY <1>0, <2>1, <3>1 DEF Order, TypeOK
      <3>2. CASE StoreChallenge(c)
        BY <1>0, <2>1, <3>2 DEF StoreChallenge, TypeOK
      <3>3. CASE Finalize(c)
        BY <1>0, <2>1, <3>3 DEF Finalize, TypeOK
      <3> QED BY <1>5, <3>1, <3>2, <3>3 DEF LibCall
    <2> QED BY <2>2, <2>3
  <1> QED BY <1>1, <1>2, <1>3, <1>4, <1>5 DEF Next

\* A call takes a number of steps that its order bounds: neither acme.sh nor
\* the reader task goes round in circles, left to themselves or not.
THEOREM CallsAreFinite == Spec => []FewSteps /\ [][CallsShrink]_vars
  <1>1. TypeOK => FewSteps
    BY FewStepsLeft DEF FewSteps
  <1>2. Init => Started
    BY DEF Init, NoCall, Started, Calls
  <1>3. ServeInv /\ Started /\ ServeInv' /\ [Next]_vars => CallsShrink
    BY CallsShrinkStep DEF ServeInv, DrainInv, TypeInv
  <1> QED BY <1>1, <1>2, <1>3, StartedStep, TypeCorrect, ServeInvariant, PTL DEF Spec
=============================================================================
