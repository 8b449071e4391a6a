---------------------------- MODULE ConnPoolProofs ----------------------------
(***************************************************************************)
(* Proofs about ConnPool, for any number of handlers, connections, threads *)
(* and certificates.  The inductive invariant says where a task may be in  *)
(* line, who is at the head of a line, when a task has which connection,   *)
(* and that connections are accounted for.                                 *)
(***************************************************************************)
EXTENDS ConnPool, AdmissionProofs, FiniteSetTheorems, TLAPS

InLine == {"queued", "second", "inside", "issuing"}
Locked == {"second", "inside", "issuing"}

WantInv ==
    \A t \in Tasks :
      /\ pc[t] \in InLine => wanted[t] \in CertIds
      /\ pc[t] # "rest" /\ t # Cron => wanted[t] \in CertIds

LineInv ==
    \A i \in CertIds : \A n \in 1..Len(queue[i]) :
      /\ pc[queue[i][n]] \in InLine /\ wanted[queue[i][n]] = i
      /\ \A m \in 1..Len(queue[i]) : queue[i][m] = queue[i][n] => m = n

\* Who waits for a lock, or has it, is in its line.
ComeInv ==
    \A t \in Tasks : pc[t] \in InLine =>
      \E n \in 1..Len(queue[wanted[t]]) : queue[wanted[t]][n] = t

LockInv ==
    \A t \in Tasks : pc[t] \in Locked => queue[wanted[t]] # <<>> /\ queue[wanted[t]][1] = t

HoldInv ==
    \A t \in Tasks :
      /\ first[t] # None => pc[t] \notin {"rest", "first"}
      /\ second[t] # None => pc[t] \in {"inside", "issuing"}

HostInv ==
    \A t \in Handlers :
      IF host[t] = NotSet THEN wanted[t] = NoCert
      ELSE \E i \in Winners(config, host[t]) : wanted[t] = CertIdFor(config, i, host[t])

Inv == TypeOK /\ WantInv /\ LineInv /\ ComeInv /\ LockInv /\ HoldInv /\ HostInv /\ Accounted

-----------------------------------------------------------------------------
(* Lines *)

LEMMA Join ==
    ASSUME NEW S, NEW q \in Seq(S), NEW e \in S
    PROVE  /\ Append(q, e) \in Seq(S) /\ Len(Append(q, e)) = Len(q) + 1 /\ Len(q) \in Nat
           /\ Append(q, e) # <<>>
           /\ \A n \in 1..(Len(q) + 1) : Append(q, e)[n] = IF n <= Len(q) THEN q[n] ELSE e
  OBVIOUS

LEMMA Advance ==
    ASSUME NEW S, NEW q \in Seq(S), q # <<>>
    PROVE  /\ Tail(q) \in Seq(S) /\ Len(Tail(q)) = Len(q) - 1 /\ Len(q) \in Nat \ {0}
           /\ \A n \in 1..(Len(q) - 1) : Tail(q)[n] = q[n + 1]
           /\ q[1] \in S /\ Head(q) = q[1]
  OBVIOUS

LEMMA LineTypes ==
    ASSUME TypeOK, NEW i \in CertIds
    PROVE  /\ queue[i] \in Seq(Tasks) /\ Len(queue[i]) \in Nat
           /\ \A n \in 1..Len(queue[i]) : queue[i][n] \in Tasks
  BY DEF TypeOK

LEMMA NamedId == ASSUME NEW i \in Sources PROVE <<i, NotSet>> \in CertIds
  BY DEF CertIds

LEMMA WonId ==
    ASSUME NEW k, NEW h \in Hosts, NEW i \in Winners(k, h)
    PROVE  CertIdFor(k, i, h) \in CertIds
  <1>1. i \in Sources
    BY WinnerUnique
  <1> QED BY <1>1 DEF CertIdFor, CertIds

-----------------------------------------------------------------------------
(* One lemma for each thing that steps do to the shared state *)

\* A task starts to wait for its first connection.
LEMMA InvOfStarting ==
    ASSUME Inv, NEW t \in Tasks, NEW w \in CertIds \cup {NoCert}, NEW h \in Hosts \cup {NotSet},
           pc[t] = "rest", pc' = [pc EXCEPT ![t] = "first"],
           wanted' = [wanted EXCEPT ![t] = w], host' = [host EXCEPT ![t] = h],
           t # Cron => w \in CertIds,
           t \in Handlers => h # NotSet /\ \E i \in Winners(config, h) : w = CertIdFor(config, i, h),
           unchecked' \subseteq Sources, UNCHANGED <<config, first, second, idle, queue>>
    PROVE  Inv'
  <1>1. TypeOK'
    BY DEF Inv, TypeOK, Pcs
  <1>2. /\ pc'[t] = "first" /\ wanted'[t] = w /\ host'[t] = h
        /\ \A u \in Tasks : u # t => pc'[u] = pc[u] /\ wanted'[u] = wanted[u] /\ host'[u] = host[u]
    BY DEF Inv, TypeOK
  <1>3. WantInv'
    BY <1>2 DEF Inv, WantInv, InLine
  <1>4. LineInv'
    <2> SUFFICES ASSUME NEW i \in CertIds, NEW n \in 1..Len(queue[i])
                 PROVE  pc'[queue[i][n]] = pc[queue[i][n]] /\ wanted'[queue[i][n]] = wanted[queue[i][n]]
      BY DEF Inv, LineInv
    <2>1. queue[i][n] \in Tasks /\ pc[queue[i][n]] \in InLine
      BY LineTypes DEF Inv, LineInv
    <2> QED BY <1>2, <2>1 DEF InLine
  <1>5. LockInv'
    BY <1>2 DEF Inv, LockInv, Locked
  <1>6. HoldInv'
    BY <1>2 DEF Inv, HoldInv
  <1>7. HostInv'
    BY <1>2 DEF Inv, HostInv, Tasks
  <1>8. Accounted'
    BY DEF Inv, Accounted
  <1>9. ComeInv'
    BY <1>2 DEF Inv, ComeInv, InLine
  <1> QED BY <1>1, <1>3, <1>4, <1>5, <1>6, <1>7, <1>8, <1>9 DEF Inv

\* A task gets into line.
LEMMA InvOfJoining ==
    ASSUME Inv, NEW t \in Tasks, NEW i \in CertIds, pc[t] = "work",
           pc' = [pc EXCEPT ![t] = "queued"], queue' = [queue EXCEPT ![i] = Append(@, t)],
           wanted' = [wanted EXCEPT ![t] = i], t # Cron => wanted[t] = i,
           UNCHANGED <<config, unchecked, host, first, second, idle>>
    PROVE  Inv'
  <1>1. /\ queue'[i] = Append(queue[i], t) /\ \A j \in CertIds : j # i => queue'[j] = queue[j]
        /\ queue[i] \in Seq(Tasks)
    BY DEF Inv, TypeOK
  <1>2. /\ Append(queue[i], t) \in Seq(Tasks) /\ Len(queue'[i]) = Len(queue[i]) + 1
        /\ Len(queue[i]) \in Nat /\ queue'[i] # <<>>
        /\ \A n \in 1..(Len(queue[i]) + 1) :
             queue'[i][n] = IF n <= Len(queue[i]) THEN queue[i][n] ELSE t
    BY <1>1, Join
  <1>3. /\ pc'[t] = "queued" /\ wanted'[t] = i
        /\ \A u \in Tasks : u # t => pc'[u] = pc[u] /\ wanted'[u] = wanted[u]
    BY DEF Inv, TypeOK
  <1>4. TypeOK'
    BY <1>2 DEF Inv, TypeOK, Pcs
  <1>5. WantInv'
    BY <1>3 DEF Inv, WantInv, InLine
  <1>6. \A j \in CertIds : \A n \in 1..Len(queue[j]) :
          /\ queue[j][n] \in Tasks /\ queue[j][n] # t
          /\ pc'[queue[j][n]] \in InLine /\ wanted'[queue[j][n]] = j
    <2> SUFFICES ASSUME NEW j \in CertIds, NEW n \in 1..Len(queue[j])
                 PROVE  /\ queue[j][n] \in Tasks /\ queue[j][n] # t
                        /\ pc'[queue[j][n]] \in InLine /\ wanted'[queue[j][n]] = j
      OBVIOUS
    <2>1. queue[j][n] \in Tasks /\ pc[queue[j][n]] \in InLine /\ wanted[queue[j][n]] = j
      BY LineTypes DEF Inv, LineInv
    <2> QED BY <1>3, <2>1 DEF InLine
  <1>7. LineInv'
    <2> SUFFICES ASSUME NEW j \in CertIds, NEW n \in 1..Len(queue'[j])
                 PROVE  /\ pc'[queue'[j][n]] \in InLine /\ wanted'[queue'[j][n]] = j
                        /\ \A m \in 1..Len(queue'[j]) : queue'[j][m] = queue'[j][n] => m = n
      BY DEF LineInv
    <2>1. CASE j # i
      BY <1>1, <1>6, <2>1 DEF Inv, LineInv
    <2>2. CASE j = i /\ n <= Len(queue[i])
      BY <1>2, <1>6, <2>2 DEF Inv, LineInv
    <2>3. CASE j = i /\ ~(n <= Len(queue[i]))
      BY <1>2, <1>3, <1>6, <2>3 DEF InLine
    <2> QED BY <2>1, <2>2, <2>3
  <1>8. LockInv'
    <2> SUFFICES ASSUME NEW u \in Tasks, pc'[u] \in Locked
                 PROVE  queue'[wanted'[u]] # <<>> /\ queue'[wanted'[u]][1] = u
      BY DEF LockInv
    <2>1. u # t /\ pc[u] \in Locked /\ wanted'[u] = wanted[u] /\ wanted[u] \in CertIds
      BY <1>3 DEF Locked, InLine, Inv, WantInv
    <2>2. queue[wanted[u]] # <<>> /\ queue[wanted[u]][1] = u
      BY <2>1 DEF Inv, LockInv
    <2>3. CASE wanted[u] # i
      BY <1>1, <2>1, <2>2, <2>3
    <2>4. CASE wanted[u] = i
      <3>1. Len(queue[i]) # 0
        BY <1>1, <2>2, <2>4
      <3> QED BY <1>2, <2>1, <2>2, <2>4, <3>1
    <2> QED BY <2>3, <2>4
  <1>9. HoldInv'
    BY <1>3 DEF Inv, HoldInv
  <1>10. HostInv'
    <2> SUFFICES ASSUME NEW u \in Handlers PROVE wanted'[u] = wanted[u]
      BY DEF Inv, HostInv
    <2>1. u \in Tasks /\ u # Cron
      BY PoolAssumption DEF Tasks
    <2> QED BY <1>3, <2>1
  <1>11. Accounted'
    BY DEF Inv, Accounted
  <1>12. ComeInv'
    <2> SUFFICES ASSUME NEW u \in Tasks, pc'[u] \in InLine
                 PROVE  \E n \in 1..Len(queue'[wanted'[u]]) : queue'[wanted'[u]][n] = u
      BY DEF ComeInv
    <2>1. CASE u = t
      <3>1. Len(queue'[i]) \in 1..Len(queue'[i]) /\ queue'[i][Len(queue'[i])] = t
        BY <1>2
      <3> QED BY <1>3, <2>1, <3>1
    <2>2. CASE u # t
      <3>1. wanted'[u] = wanted[u] /\ wanted[u] \in CertIds /\ pc[u] \in InLine
        BY <1>3, <2>2 DEF Inv, WantInv
      <3>2. PICK n \in 1..Len(queue[wanted[u]]) : queue[wanted[u]][n] = u
        BY <3>1 DEF Inv, ComeInv
      <3>3. CASE wanted[u] # i
        BY <1>1, <3>1, <3>2, <3>3
      <3>4. CASE wanted[u] = i
        <4>1. n \in 1..Len(queue'[i]) /\ queue'[i][n] = queue[i][n]
          BY <1>2, <3>2, <3>4
        <4> QED BY <3>1, <3>2, <3>4, <4>1
      <3> QED BY <3>3, <3>4
    <2> QED BY <2>1, <2>2
  <1> QED BY <1>4, <1>5, <1>7, <1>8, <1>9, <1>10, <1>11, <1>12 DEF Inv

\* A task goes on, keeping what it has.
LEMMA InvOfGoing ==
    ASSUME Inv, NEW t \in Tasks, NEW there \in Pcs, pc' = [pc EXCEPT ![t] = there],
           UNCHANGED <<config, unchecked, host, wanted, queue>>,
           pc[t] # "rest", there # "rest",
           pc[t] \in InLine <=> there \in InLine,
           there \in Locked => pc[t] \in Locked \/ HasLock(t),
           TypeOK', HoldInv', Accounted'
    PROVE  Inv'
  <1>1. /\ pc'[t] = there /\ \A u \in Tasks : u # t => pc'[u] = pc[u]
    BY DEF Inv, TypeOK
  <1>2. WantInv'
    BY <1>1 DEF Inv, WantInv
  <1>3. LineInv'
    <2> SUFFICES ASSUME NEW i \in CertIds, NEW n \in 1..Len(queue[i])
                 PROVE  pc'[queue[i][n]] \in InLine
      BY DEF Inv, LineInv
    <2>1. queue[i][n] \in Tasks /\ pc[queue[i][n]] \in InLine
      BY LineTypes DEF Inv, LineInv
    <2> QED BY <1>1, <2>1
  <1>4. LockInv'
    <2> SUFFICES ASSUME NEW u \in Tasks, pc'[u] \in Locked
                 PROVE  queue[wanted[u]] # <<>> /\ queue[wanted[u]][1] = u
      BY DEF LockInv
    <2>1. CASE pc[u] \in Locked
      BY <2>1 DEF Inv, LockInv
    <2>2. CASE pc[u] \notin Locked
      <3>1. u = t /\ HasLock(t) /\ pc[t] \in InLine
        BY <1>1, <2>2 DEF InLine, Locked
      <3>2. queue[wanted[t]] \in Seq(Tasks)
        BY <3>1, LineTypes DEF Inv, WantInv
      <3> QED BY <3>1, <3>2, Advance DEF HasLock
    <2> QED BY <2>1, <2>2
  <1>5. HostInv'
    BY DEF Inv, HostInv
  <1>6. ComeInv'
    BY <1>1 DEF Inv, ComeInv
  <1> QED BY <1>2, <1>3, <1>4, <1>5, <1>6 DEF Inv

\* A task leaves the locked part.
LEMMA InvOfLeaving ==
    ASSUME Inv, NEW t \in Tasks, pc[t] \in Locked, Leaves(t)
    PROVE  Inv'
  <1> DEFINE i == wanted[t]
             there == IF t = Cron THEN "work" ELSE "after"
  <1>1. i \in CertIds
    BY DEF Inv, WantInv, Locked, InLine
  <1>2. /\ pc' = [pc EXCEPT ![t] = there] /\ second' = [second EXCEPT ![t] = None]
        /\ idle' = idle \cup ({second[t]} \ {None}) /\ queue' = [queue EXCEPT ![i] = Tail(@)]
        /\ UNCHANGED <<config, unchecked, host, wanted, first>>
    BY DEF Leaves, Goes
  <1>3. /\ queue'[i] = Tail(queue[i]) /\ \A j \in CertIds : j # i => queue'[j] = queue[j]
        /\ queue[i] \in Seq(Tasks) /\ queue[i] # <<>> /\ queue[i][1] = t
    BY <1>1, <1>2 DEF Inv, TypeOK, LockInv
  <1>4. /\ Tail(queue[i]) \in Seq(Tasks) /\ Len(queue'[i]) = Len(queue[i]) - 1
        /\ Len(queue[i]) \in Nat \ {0}
        /\ \A n \in 1..(Len(queue[i]) - 1) : queue'[i][n] = queue[i][n + 1]
    BY <1>3, Advance
  <1>5. /\ pc'[t] \in {"work", "after"} /\ second'[t] = None
        /\ \A u \in Tasks : u # t => pc'[u] = pc[u] /\ second'[u] = second[u]
    BY <1>2 DEF Inv, TypeOK
  <1>6. TypeOK'
    BY <1>1, <1>2, <1>4 DEF Inv, TypeOK, Pcs
  <1>7. WantInv'
    BY <1>1, <1>2, <1>5 DEF Inv, WantInv, InLine
  <1>8. LineInv'
    <2> SUFFICES ASSUME NEW j \in CertIds, NEW n \in 1..Len(queue'[j])
                 PROVE  /\ pc'[queue'[j][n]] \in InLine /\ wanted'[queue'[j][n]] = j
                        /\ \A m \in 1..Len(queue'[j]) : queue'[j][m] = queue'[j][n] => m = n
      BY DEF LineInv
    <2>1. CASE j # i
      <3>1. /\ queue'[j] = queue[j] /\ queue[j][n] \in Tasks
            /\ pc[queue[j][n]] \in InLine /\ wanted[queue[j][n]] = j
        BY <1>3, <2>1, LineTypes DEF Inv, LineInv
      <3>2. queue[j][n] # t
        BY <2>1, <3>1
      <3>3. \A m \in 1..Len(queue[j]) : queue[j][m] = queue[j][n] => m = n
        BY <3>1 DEF Inv, LineInv
      <3> HIDE DEF i
      <3> QED BY <1>2, <1>5, <3>1, <3>2, <3>3
    <2>2. CASE j = i
      <3>1. /\ n + 1 \in 1..Len(queue[i]) /\ n + 1 # 1 /\ n \in 1..(Len(queue[i]) - 1)
            /\ 1 \in 1..Len(queue[i])
        BY <1>4, <2>2
      <3>2. /\ queue'[j][n] = queue[i][n + 1] /\ queue[i][n + 1] # t /\ queue[i][n + 1] \in Tasks
            /\ pc[queue[i][n + 1]] \in InLine /\ wanted[queue[i][n + 1]] = i
        <4> HIDE DEF i
        <4>1. queue'[j][n] = queue[i][n + 1]
          BY <1>4, <2>2, <3>1
        <4>2. queue[i][n + 1] \in Tasks
          BY <1>1, <3>1, LineTypes DEF Inv
        <4>3. pc[queue[i][n + 1]] \in InLine /\ wanted[queue[i][n + 1]] = i
          BY <1>1, <3>1 DEF Inv, LineInv
        <4>4. queue[i][n + 1] # queue[i][1]
          BY <1>1, <3>1 DEF Inv, LineInv
        <4> QED BY <1>3, <4>1, <4>2, <4>3, <4>4
      <3>3. ASSUME NEW m \in 1..Len(queue'[j]), queue'[j][m] = queue'[j][n]
            PROVE  m = n
        <4>1. m + 1 \in 1..Len(queue[i]) /\ m \in 1..(Len(queue[i]) - 1)
          BY <1>4, <2>2
        <4>2. queue[i][m + 1] = queue[i][n + 1]
          BY <1>4, <2>2, <3>2, <3>3, <4>1
        <4>3. m + 1 = n + 1
          BY <1>1, <3>1, <4>1, <4>2 DEF Inv, LineInv
        <4> QED BY <3>1, <4>1, <4>3
      <3> QED BY <1>2, <1>5, <2>2, <3>2, <3>3
    <2> QED BY <2>1, <2>2
  <1>9. LockInv'
    <2> SUFFICES ASSUME NEW u \in Tasks, pc'[u] \in Locked
                 PROVE  queue'[wanted[u]] # <<>> /\ queue'[wanted[u]][1] = u
      BY <1>2 DEF LockInv
    <2>1. u # t /\ pc[u] \in Locked
      BY <1>5 DEF Locked
    <2>2. queue[wanted[u]] # <<>> /\ queue[wanted[u]][1] = u /\ wanted[u] \in CertIds
      BY <2>1 DEF Inv, LockInv, WantInv, Locked, InLine
    <2>3. wanted[u] # i
      BY <1>3, <2>1, <2>2
    <2> QED BY <1>3, <2>2, <2>3
  <1>10. HoldInv'
    BY <1>2, <1>5 DEF Inv, HoldInv, Locked
  <1>11. HostInv'
    BY <1>2 DEF Inv, HostInv
  <1>12. Accounted'
    <2>1. ASSUME NEW c \in Connections
          PROVE  (c \in idle' <=> \A u \in Tasks : first'[u] # c /\ second'[u] # c)
      <3>1. c \in idle <=> \A u \in Tasks : first[u] # c /\ second[u] # c
        BY DEF Inv, Accounted
      <3>2. c # None
        BY PoolAssumption
      <3>3. CASE second[t] = c
        <4>1. \A u \in Tasks : first[u] # c /\ (u # t => second[u] # c)
          BY <3>2, <3>3 DEF Inv, Accounted
        <4> QED BY <1>2, <1>5, <3>2, <3>3, <4>1
      <3>4. CASE second[t] # c
        BY <1>2, <1>5, <3>1, <3>2, <3>4
      <3> QED BY <3>3, <3>4
    <2>2. \A u, v \in Tasks :
            /\ first'[u] = first'[v] /\ u # v => first'[u] = None
            /\ second'[u] = second'[v] /\ u # v => second'[u] = None
            /\ first'[u] = second'[v] => first'[u] = None
      BY <1>2, <1>5 DEF Inv, Accounted
    <2> QED BY <2>1, <2>2 DEF Accounted
  <1>13. ComeInv'
    <2> SUFFICES ASSUME NEW u \in Tasks, pc'[u] \in InLine
                 PROVE  \E n \in 1..Len(queue'[wanted[u]]) : queue'[wanted[u]][n] = u
      BY <1>2 DEF ComeInv
    <2>1. u # t /\ pc[u] \in InLine /\ wanted[u] \in CertIds
      BY <1>5 DEF InLine, Inv, WantInv
    <2>2. PICK n \in 1..Len(queue[wanted[u]]) : queue[wanted[u]][n] = u
      BY <2>1 DEF Inv, ComeInv
    <2> HIDE DEF i
    <2>3. CASE wanted[u] # i
      BY <1>3, <2>1, <2>2, <2>3
    <2>4. CASE wanted[u] = i
      <3>1. n \in 1..Len(queue[i]) /\ n # 1
        BY <1>3, <2>1, <2>2, <2>4
      <3>2. n - 1 \in 1..(Len(queue[i]) - 1) /\ (n - 1) + 1 = n
        BY <1>4, <3>1
      <3>3. queue'[i][n - 1] = queue[i][n]
        BY <1>4, <3>2
      <3> QED BY <1>4, <2>2, <2>4, <3>2, <3>3
    <2> QED BY <2>3, <2>4
  <1> QED BY <1>6, <1>7, <1>8, <1>9, <1>10, <1>11, <1>12, <1>13 DEF Inv

\* A task is done.
LEMMA InvOfResting ==
    ASSUME Inv, NEW t \in Tasks, pc[t] \in {"first", "work", "after"}, Rests(t)
    PROVE  Inv'
  <1>1. /\ pc' = [pc EXCEPT ![t] = "rest"] /\ first' = [first EXCEPT ![t] = None]
        /\ idle' = idle \cup ({first[t]} \ {None}) /\ wanted' = [wanted EXCEPT ![t] = NoCert]
        /\ host' = [host EXCEPT ![t] = NotSet]
        /\ UNCHANGED <<config, unchecked, second, queue>>
    BY DEF Rests, Goes
  <1>2. /\ pc'[t] = "rest" /\ first'[t] = None /\ wanted'[t] = NoCert /\ host'[t] = NotSet
        /\ \A u \in Tasks : u # t =>
             pc'[u] = pc[u] /\ first'[u] = first[u] /\ wanted'[u] = wanted[u] /\ host'[u] = host[u]
    BY <1>1 DEF Inv, TypeOK
  <1>3. TypeOK'
    BY <1>1 DEF Inv, TypeOK, Pcs
  <1>4. WantInv'
    BY <1>2 DEF Inv, WantInv, InLine
  <1>5. LineInv'
    <2> SUFFICES ASSUME NEW i \in CertIds, NEW n \in 1..Len(queue[i])
                 PROVE  pc'[queue[i][n]] = pc[queue[i][n]] /\ wanted'[queue[i][n]] = wanted[queue[i][n]]
      BY <1>1 DEF Inv, LineInv
    <2>1. queue[i][n] \in Tasks /\ pc[queue[i][n]] \in InLine
      BY LineTypes DEF Inv, LineInv
    <2> QED BY <1>2, <2>1 DEF InLine
  <1>6. LockInv'
    BY <1>1, <1>2 DEF Inv, LockInv, Locked
  <1>7. HoldInv'
    BY <1>1, <1>2 DEF Inv, HoldInv
  <1>8. HostInv'
    BY <1>1, <1>2 DEF Inv, HostInv, Tasks
  <1>9. Accounted'
    <2>1. ASSUME NEW c \in Connections
          PROVE  (c \in idle' <=> \A u \in Tasks : first'[u] # c /\ second'[u] # c)
      <3>1. c \in idle <=> \A u \in Tasks : first[u] # c /\ second[u] # c
        BY DEF Inv, Accounted
      <3>2. c # None
        BY PoolAssumption
      <3>3. CASE first[t] = c
        <4>1. \A u \in Tasks : second[u] # c /\ (u # t => first[u] # c)
          BY <3>2, <3>3 DEF Inv, Accounted
        <4> QED BY <1>1, <1>2, <3>2, <3>3, <4>1
      <3>4. CASE first[t] # c
        BY <1>1, <1>2, <3>1, <3>2, <3>4
      <3> QED BY <3>3, <3>4
    <2>2. \A u, v \in Tasks :
            /\ first'[u] = first'[v] /\ u # v => first'[u] = None
            /\ second'[u] = second'[v] /\ u # v => second'[u] = None
            /\ first'[u] = second'[v] => first'[u] = None
      BY <1>1, <1>2 DEF Inv, Accounted
    <2> QED BY <2>1, <2>2 DEF Accounted
  <1>10. ComeInv'
    BY <1>1, <1>2 DEF Inv, ComeInv, InLine
  <1> QED BY <1>3, <1>4, <1>5, <1>6, <1>7, <1>8, <1>9, <1>10 DEF Inv

\* A connection is taken.
LEMMA InvOfTakingFirst ==
    ASSUME Inv, NEW t \in Tasks, TakeFirst(t)
    PROVE  Inv'
  <1>1. PICK c \in idle : first' = [first EXCEPT ![t] = c] /\ idle' = idle \ {c}
    BY DEF TakeFirst
  <1>2. /\ pc[t] = "first" /\ pc' = [pc EXCEPT ![t] = "work"]
        /\ UNCHANGED <<config, unchecked, host, wanted, second, queue>>
    BY DEF TakeFirst, Goes
  <1>3. c \in Connections /\ c # None /\ first[t] = None
    BY <1>2, PoolAssumption DEF Inv, TypeOK, HoldInv
  <1>4. /\ first'[t] = c /\ pc'[t] = "work"
        /\ \A u \in Tasks : u # t => first'[u] = first[u] /\ pc'[u] = pc[u]
    BY <1>1, <1>2 DEF Inv, TypeOK
  <1>5. TypeOK'
    BY <1>1, <1>2, <1>3 DEF Inv, TypeOK, Pcs
  <1>6. HoldInv'
    BY <1>2, <1>4 DEF Inv, HoldInv
  <1>7. \A u \in Tasks : first[u] # c /\ second[u] # c
    BY <1>1, <1>3 DEF Inv, Accounted
  <1>8. Accounted'
    <2>1. \A d \in Connections : d \in idle' <=> \A u \in Tasks : first'[u] # d /\ second'[u] # d
      <3> SUFFICES ASSUME NEW d \in Connections
                   PROVE  (d \in idle' <=> \A u \in Tasks : first'[u] # d /\ second'[u] # d)
        OBVIOUS
      <3>1. d \in idle <=> \A u \in Tasks : first[u] # d /\ second[u] # d
        BY DEF Inv, Accounted
      <3>2. d # None
        BY PoolAssumption
      <3> QED BY <1>1, <1>2, <1>3, <1>4, <3>1, <3>2
    <2>2. \A u, v \in Tasks :
            /\ first'[u] = first'[v] /\ u # v => first'[u] = None
            /\ second'[u] = second'[v] /\ u # v => second'[u] = None
            /\ first'[u] = second'[v] => first'[u] = None
      BY <1>2, <1>4, <1>7 DEF Inv, Accounted
    <2> QED BY <2>1, <2>2 DEF Accounted
  <1> QED BY <1>2, <1>5, <1>6, <1>8, InvOfGoing DEF Pcs, InLine, Locked

LEMMA InvOfTakingSecond ==
    ASSUME Inv, NEW t \in Tasks, TakeSecond(t)
    PROVE  Inv'
  <1>1. PICK c \in idle : second' = [second EXCEPT ![t] = c] /\ idle' = idle \ {c}
    BY DEF TakeSecond
  <1>2. /\ pc[t] = "second" /\ pc' = [pc EXCEPT ![t] = "inside"]
        /\ UNCHANGED <<config, unchecked, host, wanted, first, queue>>
    BY DEF TakeSecond, Goes
  <1>3. c \in Connections /\ c # None /\ second[t] = None
    BY <1>2, PoolAssumption DEF Inv, TypeOK, HoldInv
  <1>4. /\ second'[t] = c /\ pc'[t] = "inside"
        /\ \A u \in Tasks : u # t => second'[u] = second[u] /\ pc'[u] = pc[u]
    BY <1>1, <1>2 DEF Inv, TypeOK
  <1>5. TypeOK'
    BY <1>1, <1>2, <1>3 DEF Inv, TypeOK, Pcs
  <1>6. HoldInv'
    BY <1>2, <1>4 DEF Inv, HoldInv
  <1>7. \A u \in Tasks : first[u] # c /\ second[u] # c
    BY <1>1, <1>3 DEF Inv, Accounted
  <1>8. Accounted'
    <2>1. \A d \in Connections : d \in idle' <=> \A u \in Tasks : first'[u] # d /\ second'[u] # d
      <3> SUFFICES ASSUME NEW d \in Connections
                   PROVE  (d \in idle' <=> \A u \in Tasks : first'[u] # d /\ second'[u] # d)
        OBVIOUS
      <3>1. d \in idle <=> \A u \in Tasks : first[u] # d /\ second[u] # d
        BY DEF Inv, Accounted
      <3>2. d # None
        BY PoolAssumption
      <3> QED BY <1>1, <1>2, <1>3, <1>4, <3>1, <3>2
    <2>2. \A u, v \in Tasks :
            /\ first'[u] = first'[v] /\ u # v => first'[u] = None
            /\ second'[u] = second'[v] /\ u # v => second'[u] = None
            /\ first'[u] = second'[v] => first'[u] = None
      BY <1>2, <1>4, <1>7 DEF Inv, Accounted
    <2> QED BY <2>1, <2>2 DEF Accounted
  <1> QED BY <1>2, <1>5, <1>6, <1>8, InvOfGoing DEF Pcs, InLine, Locked

\* A task gets its turn, or goes on to the provider.
LEMMA InvOfTurn ==
    ASSUME Inv, NEW t \in Tasks, Granted(t) \/ Order(t)
    PROVE  Inv'
  <1>1. /\ UNCHANGED <<config, unchecked, host, wanted, first, second, idle, queue>>
        /\ \/ pc[t] = "queued" /\ HasLock(t) /\ pc' = [pc EXCEPT ![t] = "second"]
           \/ pc[t] = "inside" /\ pc' = [pc EXCEPT ![t] = "issuing"]
    BY DEF Granted, Order, Goes
  <1>2. TypeOK'
    BY <1>1 DEF Inv, TypeOK, Pcs
  <1>3. HoldInv'
    BY <1>1 DEF Inv, TypeOK, HoldInv
  <1>4. Accounted'
    BY <1>1 DEF Inv, Accounted
  <1>5. CASE pc[t] = "queued"
    BY <1>1, <1>2, <1>3, <1>4, <1>5, InvOfGoing DEF Pcs, InLine, Locked
  <1>6. CASE pc[t] = "inside"
    BY <1>1, <1>2, <1>3, <1>4, <1>6, InvOfGoing DEF Pcs, InLine, Locked
  <1> QED BY <1>1, <1>5, <1>6

-----------------------------------------------------------------------------
THEOREM PoolInvariant == Spec => []Inv
  <1>1. Init => Inv
    <2> SUFFICES ASSUME Init PROVE Inv
      OBVIOUS
    <2>1. \A t \in Tasks : /\ pc[t] = "rest" /\ wanted[t] = NoCert /\ host[t] = NotSet
                           /\ first[t] = None /\ second[t] = None
      BY DEF Init
    <2>2. \A i \in CertIds : queue[i] = <<>>
      BY DEF Init
    <2>3. TypeOK
      BY DEF Init, TypeOK, Pcs
    <2>4. WantInv /\ LineInv /\ ComeInv /\ LockInv /\ HoldInv
      BY <2>1, <2>2 DEF WantInv, LineInv, ComeInv, LockInv, HoldInv, InLine, Locked
    <2>5. HostInv
      BY <2>1 DEF HostInv, Tasks
    <2>6. Accounted
      BY <2>1, PoolAssumption DEF Init, Accounted
    <2> QED BY <2>3, <2>4, <2>5, <2>6 DEF Inv
  <1>2. Inv /\ [Next]_vars => Inv'
    <2> SUFFICES ASSUME Inv, [Next]_vars PROVE Inv'
      OBVIOUS
    <2>1. ASSUME NEW t \in Tasks, Arrive(t) PROVE Inv'
      <3>1. PICK r \in Requests :
              /\ \E i \in Winners(config, r.host) :
                   wanted' = [wanted EXCEPT ![t] = CertIdFor(config, i, r.host)]
              /\ host' = [host EXCEPT ![t] = r.host]
        BY <2>1 DEF Arrive
      <3>2. PICK i \in Winners(config, r.host) :
              wanted' = [wanted EXCEPT ![t] = CertIdFor(config, i, r.host)]
        BY <3>1
      <3>3. r.host \in Hosts /\ r.host # NotSet
        BY PoolAssumption, PatternAssumption
      <3>5. CertIdFor(config, i, r.host) \in CertIds
        BY <3>3, WonId
      <3>4. /\ pc[t] = "rest" /\ pc' = [pc EXCEPT ![t] = "first"] /\ unchecked \subseteq Sources
            /\ UNCHANGED <<config, unchecked, first, second, idle, queue>>
        BY <2>1 DEF Arrive, Goes, Inv, TypeOK
      <3> QED BY <3>1, <3>2, <3>3, <3>4, <3>5, InvOfStarting
    <2>2. CASE StartupNext
      <3>1. PICK i \in unchecked :
              unchecked' = unchecked \ {i} /\ wanted' = [wanted EXCEPT ![Startup] = <<i, NotSet>>]
        BY <2>2 DEF StartupNext
      <3>2. Startup \in Tasks /\ Startup \notin Handlers /\ unchecked' \subseteq Sources
            /\ <<i, NotSet>> \in CertIds
        BY <3>1, NamedId, PoolAssumption DEF Tasks, Inv, TypeOK
      <3>3. /\ pc[Startup] = "rest" /\ pc' = [pc EXCEPT ![Startup] = "first"]
            /\ UNCHANGED <<config, first, second, idle, queue>> /\ host' = host
        BY <2>2 DEF StartupNext, Goes
      <3>4. host' = [host EXCEPT ![Startup] = host[Startup]] /\ host[Startup] \in Hosts \cup {NotSet}
        BY <3>2, <3>3 DEF Inv, TypeOK
      <3> QED BY <3>1, <3>2, <3>3, <3>4, InvOfStarting
    <2>3. CASE CronTick
      <3>1. Cron \in Tasks /\ Cron \notin Handlers
        BY PoolAssumption DEF Tasks
      <3>2. /\ pc[Cron] = "rest" /\ pc' = [pc EXCEPT ![Cron] = "first"]
            /\ UNCHANGED <<config, unchecked, first, second, idle, queue, host, wanted>>
        BY <2>3 DEF CronTick, Goes
      <3>3. PICK h \in Hosts \cup {NotSet} : host' = [host EXCEPT ![Cron] = h]
        BY <3>1, <3>2 DEF Inv, TypeOK
      <3>4. PICK w \in CertIds \cup {NoCert} : wanted' = [wanted EXCEPT ![Cron] = w]
        BY <3>1, <3>2 DEF Inv, TypeOK
      <3>5. unchecked' \subseteq Sources
        BY <3>2 DEF Inv, TypeOK
      <3> QED BY <3>1, <3>2, <3>3, <3>4, <3>5, InvOfStarting
    <2>4. ASSUME NEW i \in CertIds, CronPick(i) PROVE Inv'
      <3>1. Cron \in Tasks
        BY DEF Tasks
      <3>2. /\ pc[Cron] = "work" /\ pc' = [pc EXCEPT ![Cron] = "queued"]
            /\ queue' = [queue EXCEPT ![i] = Append(@, Cron)]
            /\ wanted' = [wanted EXCEPT ![Cron] = i]
            /\ UNCHANGED <<config, unchecked, host, first, second, idle>>
        BY <2>4 DEF CronPick, Goes
      <3> QED BY <3>1, <3>2, InvOfJoining
    <2>5. ASSUME NEW t \in Tasks, Call(t) PROVE Inv'
      <3>1. wanted[t] \in CertIds /\ wanted' = [wanted EXCEPT ![t] = wanted[t]]
        BY <2>5 DEF Call, Inv, WantInv, TypeOK
      <3> QED BY <2>5, <3>1, InvOfJoining DEF Call, Goes
    <2>6. ASSUME NEW t \in Tasks, TakeFirst(t) \/ TakeSecond(t) \/ Granted(t) \/ Order(t)
          PROVE  Inv'
      BY <2>6, InvOfTakingFirst, InvOfTakingSecond, InvOfTurn
    <2>7. ASSUME NEW t \in Tasks, RecheckHit(t) \/ ProviderReturns(t) PROVE Inv'
      BY <2>7, InvOfLeaving DEF RecheckHit, ProviderReturns, Locked
    <2>8. ASSUME NEW t \in Tasks, TimesOut(t) PROVE Inv'
      BY <2>8, InvOfLeaving, InvOfResting DEF TimesOut, Locked
    <2>9. ASSUME NEW t \in Tasks, Ends(t) PROVE Inv'
      BY <2>9, InvOfResting DEF Ends
    <2>10. CASE UNCHANGED vars
      BY <2>10
      DEF vars, Inv, TypeOK, WantInv, LineInv, ComeInv, LockInv, HoldInv, HostInv, Accounted
    <2> QED BY <2>1, <2>2, <2>3, <2>4, <2>5, <2>6, <2>7, <2>8, <2>9, <2>10 DEF Next, Step
  <1> QED BY <1>1, <1>2, PTL DEF Spec

\* The types of all variables; in particular nothing but connections is in
\* the pool.
THEOREM TypeCorrect == Spec => []TypeOK
  <1>1. Inv => TypeOK
    BY DEF Inv
  <1> QED BY <1>1, PoolInvariant, PTL

\* Connections are neither lost nor shared, however calls end.
THEOREM ConnectionsAccounted == Spec => []Accounted
  <1>1. Inv => Accounted
    BY DEF Inv
  <1> QED BY <1>1, PoolInvariant, PTL

\* Who is done has left nothing behind.
THEOREM NothingIsKept == Spec => []NothingKept
  <1>1. Inv => NothingKept
    <2> SUFFICES ASSUME Inv, NEW t \in Tasks, NEW i \in CertIds
                 PROVE  /\ pc[t] = "rest" => first[t] = None /\ second[t] = None
                        /\ (\E n \in DOMAIN queue[i] : queue[i][n] = t) =>
                             pc[t] \in InLine /\ i = wanted[t]
      BY DEF NothingKept, InLine
    <2>1. DOMAIN queue[i] = 1..Len(queue[i])
      BY LineTypes DEF Inv
    <2> QED BY <2>1 DEF Inv, HoldInv, LineInv
  <1> QED BY <1>1, PoolInvariant, PTL

\* For each certificate there is one second connection, at most.
LEMMA OneLocked ==
    ASSUME Inv, NEW t \in Tasks, NEW u \in Tasks, pc[t] \in Locked, pc[u] \in Locked,
           wanted[t] = wanted[u]
    PROVE  t = u
  BY DEF Inv, LockInv

THEOREM OneSecondEach == Spec => []OneSecond
  <1>1. Inv => OneSecond
    BY OneLocked DEF OneSecond, Locked
  <1> QED BY <1>1, PoolInvariant, PTL

\* Requests for one host are in one line.
THEOREM SameHostSameLine == Spec => []SameHostSameCert
  <1>1. Inv => SameHostSameCert
    <2> SUFFICES ASSUME Inv, NEW t \in Handlers, NEW u \in Handlers, host[t] = host[u]
                 PROVE  wanted[t] = wanted[u]
      BY DEF SameHostSameCert
    <2>1. CASE host[t] = NotSet
      BY <2>1 DEF Inv, HostInv
    <2>2. CASE host[t] # NotSet
      <3>1. PICK i \in Winners(config, host[t]) : wanted[t] = CertIdFor(config, i, host[t])
        BY <2>2 DEF Inv, HostInv
      <3>2. PICK j \in Winners(config, host[t]) : wanted[u] = CertIdFor(config, j, host[t])
        BY <2>2 DEF Inv, HostInv
      <3>3. i = j
        BY WinnerUnique
      <3> QED BY <3>1, <3>2, <3>3
    <2> QED BY <2>1, <2>2
  <1> QED BY <1>1, PoolInvariant, PTL

-----------------------------------------------------------------------------
(* Who waits for whom *)

\* The first in a line can go on, or waits for a thread only.
LEMMA HeadOfLine ==
    ASSUME Inv, FreeWorker, NEW t \in Tasks, pc[t] \in InLine
    PROVE  \E u \in Tasks : CanGo(u) /\ wanted[u] = wanted[t]
  <1> DEFINE q == queue[wanted[t]]
             u == q[1]
  <1>1. wanted[t] \in CertIds
    BY DEF Inv, WantInv
  <1>2. q # <<>> /\ q \in Seq(Tasks) /\ Len(q) \in Nat
    <2>1. PICK n \in 1..Len(q) : q[n] = t
      BY DEF Inv, ComeInv
    <2>2. q \in Seq(Tasks) /\ Len(q) \in Nat
      BY <1>1, LineTypes DEF Inv
    <2> QED BY <2>1, <2>2
  <1>3. u \in Tasks /\ Head(q) = u /\ 1 \in 1..Len(q)
    BY <1>2, Advance
  <1>4. pc[u] \in InLine /\ wanted[u] = wanted[t]
    BY <1>1, <1>3 DEF Inv, LineInv
  <1>5. HasLock(u)
    BY <1>2, <1>3, <1>4 DEF HasLock
  <1> HIDE DEF u
  <1>6. CanGo(u)
    BY <1>4, <1>5 DEF CanGo, InLine
  <1> QED BY <1>3, <1>4, <1>6

\* Deadlock freedom, for any number of tasks, threads and connections, be it
\* none: whoever cannot go on waits for somebody who can.
THEOREM NobodyWaitsInCircles == Spec => []NoStandstill
  <1>1. Inv => NoStandstill
    <2> SUFFICES ASSUME Inv, NEW t \in Tasks, pc[t] # "rest"
                 PROVE  \E u \in Tasks :
                          /\ CanGo(u)
                          /\ u = t \/ pc[u] \in {"first", "second"} \/ wanted[u] = wanted[t]
      BY DEF NoStandstill
    <2>1. CASE \E u \in Tasks : pc[u] \in {"first", "second"}
      BY <2>1 DEF CanGo
    <2>2. CASE \A u \in Tasks : pc[u] \notin {"first", "second"}
      <3>1. FreeWorker
        <4>1. {u \in Tasks : pc[u] \in {"first", "second"}} = {}
          BY <2>2
        <4>2. Cardinality({}) = 0 /\ Workers > 0
          BY PoolAssumption, FS_EmptySet
        <4> QED BY <4>1, <4>2 DEF FreeWorker
      <3>2. CASE pc[t] \in InLine
        BY <3>1, <3>2, HeadOfLine
      <3>3. CASE pc[t] \notin InLine
        <4>1. pc[t] \in {"work", "after"}
          BY <2>2, <3>3 DEF Inv, TypeOK, Pcs, InLine
        <4> QED BY <3>1, <4>1 DEF CanGo
      <3> QED BY <3>2, <3>3
    <2> QED BY <2>1, <2>2
  <1> QED BY <1>1, PoolInvariant, PTL

-----------------------------------------------------------------------------
(* Counting connections *)

Holders == {t \in Tasks : first[t] # None}
Doubles == {t \in Tasks : second[t] # None}

LEMMA FiniteTasks == IsFiniteSet(Tasks)
  <1>1. IsFiniteSet({Startup, Cron})
    <2>1. IsFiniteSet({Startup} \cup {Cron})
      BY FS_Singleton, FS_AddElement
    <2>2. {Startup, Cron} = {Startup} \cup {Cron}
      OBVIOUS
    <2> QED BY <2>1, <2>2
  <1> QED BY <1>1, PoolAssumption, FS_Union DEF Tasks

LEMMA FiniteInUse ==
    ASSUME Inv
    PROVE  IsFiniteSet(InUse)
  <1> DEFINE head == [i \in InUse |-> queue[i][1]]
  <1>1. \A i \in InUse : queue[i][1] \in Tasks /\ wanted[queue[i][1]] = i
    <2> SUFFICES ASSUME NEW i \in InUse PROVE queue[i][1] \in Tasks /\ wanted[queue[i][1]] = i
      OBVIOUS
    <2>1. i \in CertIds /\ queue[i] # <<>>
      BY DEF InUse
    <2>2. 1 \in 1..Len(queue[i]) /\ queue[i][1] \in Tasks
      BY <2>1, LineTypes, Advance DEF Inv
    <2> QED BY <2>1, <2>2 DEF Inv, LineInv
  <1>2. head \in Injection(InUse, Tasks)
    BY <1>1 DEF Injection, IsInjective
  <1> QED BY <1>2, FiniteTasks, FS_Injection

\* As long as nobody's second connection is counted twice, and each belongs
\* to a certificate of its own, the pool has what holders and certificates
\* in use leave.
LEMMA AllTaken ==
    ASSUME Inv, idle = {}
    PROVE  /\ IsFiniteSet(Holders) /\ IsFiniteSet(Doubles)
           /\ Cardinality(Connections) <= Cardinality(Holders) + Cardinality(Doubles)
  <1>1. IsFiniteSet(Holders) /\ IsFiniteSet(Doubles)
    BY FiniteTasks, FS_Subset DEF Holders, Doubles
  <1> DEFINE F == {first[t] : t \in Holders}
             S == {second[t] : t \in Doubles}
             f == [t \in Holders |-> first[t]]
             s == [t \in Doubles |-> second[t]]
  <1>2. f \in Surjection(Holders, F) /\ s \in Surjection(Doubles, S)
    BY DEF Surjection
  <1>3. /\ IsFiniteSet(F) /\ Cardinality(F) <= Cardinality(Holders)
        /\ IsFiniteSet(S) /\ Cardinality(S) <= Cardinality(Doubles)
    BY <1>1, <1>2, FS_Surjection
  <1>4. Connections \subseteq F \cup S
    <2> SUFFICES ASSUME NEW c \in Connections PROVE c \in F \cup S
      OBVIOUS
    <2>1. PICK t \in Tasks : first[t] = c \/ second[t] = c
      BY DEF Inv, Accounted
    <2>2. c # None
      BY PoolAssumption
    <2>3. CASE first[t] = c
      BY <2>2, <2>3 DEF Holders
    <2>4. CASE second[t] = c
      BY <2>2, <2>4 DEF Doubles
    <2> QED BY <2>1, <2>3, <2>4
  <1>5. /\ IsFiniteSet(F \cup S)
        /\ Cardinality(F \cup S) = Cardinality(F) + Cardinality(S) - Cardinality(F \cap S)
    BY <1>3, FS_Union
  <1>6. Cardinality(Connections) <= Cardinality(F \cup S)
    BY <1>4, <1>5, FS_Subset
  <1>7. IsFiniteSet(F \cap S)
    BY <1>3, FS_Intersection
  <1>8. /\ Cardinality(F \cap S) \in Nat /\ Cardinality(F) \in Nat /\ Cardinality(S) \in Nat
        /\ Cardinality(Holders) \in Nat /\ Cardinality(Doubles) \in Nat
        /\ Cardinality(F \cup S) \in Nat /\ Cardinality(Connections) \in Nat
    BY <1>1, <1>3, <1>5, <1>7, PoolAssumption, FS_CardinalityType
  <1> QED BY <1>1, <1>3, <1>5, <1>6, <1>8

\* While there are fewer callers and certificates than connections, nobody
\* is kept waiting by the pool, let alone turned away by its timeout.
THEOREM WaitingNeedsCrowd == Spec => []CrowdNeeded
  <1>1. Inv => CrowdNeeded
    <2> SUFFICES ASSUME Inv, NEW w \in Tasks, pc[w] \in {"first", "second"}, idle = {}
                 PROVE  Cardinality(Active) + Cardinality(InUse) > Cardinality(Connections)
      BY DEF CrowdNeeded
    <2>1. /\ IsFiniteSet(Holders) /\ IsFiniteSet(Doubles)
          /\ Cardinality(Connections) <= Cardinality(Holders) + Cardinality(Doubles)
      BY AllTaken
    <2>2. IsFiniteSet(Active) /\ IsFiniteSet(InUse)
      BY FiniteTasks, FiniteInUse, FS_Subset DEF Active
    <2>3. Holders \subseteq Active
      BY DEF Holders, Active, Inv, HoldInv
    <2> DEFINE about == [t \in Doubles |-> wanted[t]]
    <2>4. \A t \in Doubles : t \in Tasks /\ pc[t] \in {"inside", "issuing"} /\ wanted[t] \in InUse
      <3> SUFFICES ASSUME NEW t \in Doubles
                   PROVE  t \in Tasks /\ pc[t] \in {"inside", "issuing"} /\ wanted[t] \in InUse
        OBVIOUS
      <3>1. t \in Tasks /\ pc[t] \in {"inside", "issuing"}
        BY DEF Doubles, Inv, HoldInv
      <3> QED BY <3>1 DEF InUse, Inv, LockInv, WantInv, Locked, InLine
    <2>5. \A t, u \in Doubles : wanted[t] = wanted[u] => t = u
      BY <2>4, OneLocked DEF Locked
    <2>6. /\ Cardinality(Active) \in Nat /\ Cardinality(InUse) \in Nat
          /\ Cardinality(Holders) \in Nat /\ Cardinality(Doubles) \in Nat
          /\ Cardinality(Connections) \in Nat
      BY <2>1, <2>2, PoolAssumption, FS_CardinalityType
    <2>7. CASE pc[w] = "first"
      <3>1. w \in Active /\ w \notin Holders
        BY <2>7 DEF Active, Holders, Inv, HoldInv
      <3>2. Cardinality(Holders) <= Cardinality(Active) /\ Cardinality(Holders) # Cardinality(Active)
        BY <2>2, <2>3, <3>1, FS_Subset
      <3>3. about \in Injection(Doubles, InUse)
        BY <2>4, <2>5 DEF Injection, IsInjective
      <3>4. Cardinality(Doubles) <= Cardinality(InUse)
        BY <2>2, <3>3, FS_Injection
      <3> QED BY <2>1, <2>6, <3>2, <3>4
    <2>8. CASE pc[w] = "second"
      <3>1. wanted[w] \in InUse
        BY <2>8 DEF InUse, Inv, LockInv, WantInv, Locked, InLine
      <3>2. \A t \in Doubles : wanted[t] # wanted[w]
        BY <2>4, <2>8, OneLocked DEF Locked
      <3>3. about \in Injection(Doubles, InUse \ {wanted[w]})
        BY <2>4, <2>5, <3>2 DEF Injection, IsInjective
      <3>4. /\ IsFiniteSet(InUse \ {wanted[w]})
            /\ Cardinality(InUse \ {wanted[w]}) = Cardinality(InUse) - 1
        BY <2>2, <3>1, FS_RemoveElement
      <3>5. Cardinality(Doubles) <= Cardinality(InUse \ {wanted[w]})
        BY <3>3, <3>4, FS_Injection
      <3>6. Cardinality(Holders) <= Cardinality(Active)
        BY <2>2, <2>3, FS_Subset
      <3> QED BY <2>1, <2>6, <3>4, <3>5, <3>6
    <2> QED BY <2>7, <2>8
  <1> QED BY <1>1, PoolInvariant, PTL
=============================================================================
