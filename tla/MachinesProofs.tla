---------------------------- MODULE MachinesProofs ----------------------------
(***************************************************************************)
(* Proofs about Machines, for any number of faults, services and renewals. *)
(*                                                                         *)
(*   RouterInv   a router that is at work on a certificate has the stamp   *)
(*               of an older one, or none;                                 *)
(*   ClientInv   what the files of a NixOS machine have to do with each    *)
(*               other, with the stage of the run and with the certificate *)
(*               on offer, in six parts.                                   *)
(***************************************************************************)
EXTENDS Machines, TLAPS

LEMMA SpanTypes == /\ Day \in Nat \ {0} /\ TwoDays = 2 * Day /\ TwoDays \in Nat /\ Week \in Nat
                   /\ Lifetime \in Nat /\ MaxNow \in Nat /\ MaxFaults \in Nat
  BY SpanAssumption

LEMMA Contents == /\ Absent \notin Int /\ Torn \notin Int /\ NoCert \notin Int /\ Absent # Torn
                  /\ Nothing \notin Int
  BY ContentAssumption, NothingAssumption

-----------------------------------------------------------------------------
(* Types *)

LEMMA ServerStepType ==
    ASSUME ServerTypeOK, ServerNext
    PROVE  ServerTypeOK' /\ now <= now' /\ served <= served'
  <1>1. CASE Tick
    BY <1>1, SpanTypes DEF ServerNext, Tick, ServerTypeOK
  <1>2. CASE Renews
    BY <1>2, SpanTypes DEF ServerNext, Renews, ServerTypeOK
  <1> QED BY <1>1, <1>2 DEF ServerNext

LEMMA FaultType == ServerTypeOK /\ Fault => faults' \in 0..MaxFaults
  BY SpanTypes DEF ServerTypeOK, Fault

LEMMA DataType ==
    ASSUME ClientTypeOK, stage \in Files
    PROVE  DataFor(stage) \in Content
  BY DEF ClientTypeOK, Files, Fetched, Installed, DataFor, Content

LEMMA AfterType ==
    /\ After["json"] = "key" /\ After["key"] = "issuer" /\ After["issuer"] = "crt"
    /\ After["crt"] = "compare" /\ After["fullchain"] = "out_key" /\ After["out_key"] = "chain"
    /\ After["chain"] = "full" /\ After["full"] = "post"
  BY DEF After

LEMMA ThenType ==
    /\ Then["write_pem"] = "write_key" /\ Then["write_key"] = "write_ca"
    /\ Then["write_ca"] = "remove" /\ Then["remove"] = "import_pem"
    /\ Then["import_pem"] = "import_key" /\ Then["import_key"] = "import_ca"
    /\ Then["import_ca"] = "tidy" /\ Then["tidy"] = "unstamp" /\ Then["unstamp"] = "stamp"
    /\ Then["stamp"] = "bind"
    /\ DOMAIN Then = {"write_pem", "write_key", "write_ca", "remove", "import_pem", "import_key",
                      "import_ca", "tidy", "unstamp", "stamp"}
  BY DEF Then

LEMMA PartsOfSteps ==
    /\ DOMAIN Writes = {"write_pem", "write_key", "write_ca"}
    /\ Writes["write_pem"] = "pem" /\ Writes["write_key"] = "key" /\ Writes["write_ca"] = "ca"
    /\ DOMAIN Imports = {"import_pem", "import_key", "import_ca"}
    /\ Imports["import_pem"] = "pem" /\ Imports["import_key"] = "key" /\ Imports["import_ca"] = "ca"
  BY DEF Writes, Imports

\* What is imported of a certificate, and what the store has of it then.
LEMMA EntriesOf ==
    ASSUME NEW e, NEW f \in [Parts -> Expiry]
    PROVE  /\ PartsOf(e) \subseteq Parts /\ "pem" \in PartsOf(e) /\ "key" \in PartsOf(e)
           /\ "ca" \in PartsOf(e) <=> e \notin NoCa
           /\ Entries(e)["pem"] = e /\ Entries(e)["key"] = e
           /\ Entries(e)["ca"] = IF e \in NoCa THEN Nothing ELSE e
           /\ f["pem"] = e /\ f["key"] = e /\ f["ca"] = Entries(e)["ca"] => f = Entries(e)
  <1>1. /\ PartsOf(e) \subseteq Parts /\ "pem" \in PartsOf(e) /\ "key" \in PartsOf(e)
        /\ "ca" \in PartsOf(e) <=> e \notin NoCa
    BY DEF PartsOf, Parts
  <1>2. \A q \in Parts : Entries(e)[q] = IF q \in PartsOf(e) THEN e ELSE Nothing
    BY DEF Entries
  <1>3. f["pem"] = e /\ f["key"] = e /\ f["ca"] = Entries(e)["ca"] => f = Entries(e)
    <2>1. Entries(e) = [q \in Parts |-> Entries(e)[q]]
      BY DEF Entries
    <2>2. f = [q \in Parts |-> f[q]]
      OBVIOUS
    <2>3. ASSUME f["pem"] = e, f["key"] = e, f["ca"] = Entries(e)["ca"]
          PROVE  \A q \in Parts : f[q] = Entries(e)[q]
      BY <1>1, <1>2, <2>3 DEF Parts
    <2> QED BY <2>1, <2>2, <2>3
  <1> QED BY <1>1, <1>2, <1>3 DEF Parts

LEMMA ClientStepType ==
    ASSUME TypeOK, ClientNext, UNCHANGED serverVars
    PROVE  ClientTypeOK' /\ ServerTypeOK'
  <1> USE Contents
  <1>1. ServerTypeOK'
    BY FaultType DEF TypeOK, ServerTypeOK, ClientNext, CutShort, serverVars
  <1> SUFFICES ClientTypeOK'
    BY <1>1
  <1>2. CASE StartFetch \/ StartNoFetch
    BY <1>2
    DEF StartFetch, FetchCertificate, StartNoFetch, TypeOK, ClientTypeOK, ServerTypeOK, Fetched, Files
  <1>3. CASE Write
    <2>1. disk' \in [Files -> Content]
      BY <1>3, DataType DEF Write, TypeOK, ClientTypeOK
    <2>2. stage' \in Files \cup {"compare", "post"}
      BY <1>3, AfterType DEF Write, Files, Fetched, Installed
    <2>3. stage' \in Fetched => stage \in Fetched
      BY <1>3, AfterType DEF Write, Files, Fetched, Installed
    <2>4. got' \in (IF stage' \in Fetched THEN Int ELSE {NoCert})
      BY <1>3, <2>3 DEF Write, TypeOK, ClientTypeOK
    <2> QED BY <1>1, <1>3, <2>1, <2>2, <2>4 DEF Write, TypeOK, ClientTypeOK
  <1>4. CASE CompareDiffers \/ CompareSame
    BY <1>4 DEF CompareDiffers, CompareSame, TypeOK, ClientTypeOK, Files, Fetched, Installed
  <1>5. CASE Post
    <2>1. loaded' \in Content \X Content
      BY <1>5 DEF Post, TypeOK, ClientTypeOK, Files, Installed
    <2> QED BY <1>5, <2>1 DEF Post, TypeOK, ClientTypeOK, Files, Fetched, Installed
  <1>6. CASE CutShort
    BY <1>6 DEF CutShort, TypeOK, ClientTypeOK, Content, Fetched
  <1> QED BY <1>1, <1>2, <1>3, <1>4, <1>5, <1>6 DEF ClientNext, ClientStep

LEMMA RouterStepType ==
    ASSUME TypeOK, RouterNext, UNCHANGED serverVars
    PROVE  RouterTypeOK' /\ ServerTypeOK'
  <1>1. ServerTypeOK'
    BY FaultType
    DEF TypeOK, ServerTypeOK, RouterNext, ImportsNothing, Fails, PowerFails, RemovedByHand, serverVars
  <1> SUFFICES RouterTypeOK'
    BY <1>1
  <1>2. Steps = DOMAIN Then \cup {"idle", "bind"}
    BY DEF Steps
  <1> USE ThenType, <1>2 DEF TypeOK, RouterTypeOK, Expiry
  <1>3. CASE Fetch
    BY <1>3 DEF Fetch, ServerTypeOK
  <1>4. CASE WriteFile
    <2>1. temp' \subseteq Parts
      BY <1>4 DEF WriteFile, PartsOf
    <2> QED BY <1>4, <2>1, PartsOfSteps DEF WriteFile
  <1>5. CASE Import
    <2>1. Imports[step] \in Parts
      BY <1>5, PartsOfSteps DEF Import, Parts
    <2>2. store' \in [Parts -> Int \cup {Nothing}]
      BY <1>5, <2>1 DEF Import
    <2> QED BY <1>5, <2>2, PartsOfSteps DEF Import
  <1>6. CASE ImportsNothing
    BY <1>6, PartsOfSteps DEF ImportsNothing
  <1>7. CASE RemoveOld
    BY <1>7 DEF RemoveOld, NoEntry, Dangling
  <1>8. CASE Tidy \/ Unstamp \/ Stamp
    BY <1>8 DEF Tidy, Unstamp, Stamp
  <1>9. ASSUME NEW s \in Services, Bind(s) PROVE RouterTypeOK'
    BY <1>9 DEF Bind, Parts
  <1>10. CASE Done \/ NotFound \/ Fails \/ PowerFails
    BY <1>10 DEF Stop, Done, NotFound, Fails, PowerFails
  <1>11. CASE RemovedByHand
    BY <1>11 DEF RemovedByHand, NoEntry, Dangling
  <1> QED BY <1>1, <1>3, <1>4, <1>5, <1>6, <1>7, <1>8, <1>9, <1>10, <1>11
        DEF RouterNext, RouterStep

LEMMA TypeInit == Init => TypeOK
  <1> SUFFICES ASSUME Init PROVE TypeOK
    OBVIOUS
  <1>1. ServerTypeOK
    BY SpanTypes DEF Init, ServerInit, ServerTypeOK
  <1>2. ClientTypeOK
    BY DEF Init, ClientInit, ClientTypeOK, Content, Fetched
  <1>3. RouterTypeOK
    <2>1. "idle" \in Steps
      BY DEF Steps
    <2> QED BY <2>1 DEF Init, RouterInit, RouterTypeOK, Expiry, NoEntry, Dangling
  <1> QED BY <1>1, <1>2, <1>3 DEF Init, TypeOK

LEMMA TypeStep == TypeOK /\ [Next]_vars => TypeOK'
  <1> SUFFICES ASSUME TypeOK, [Next]_vars PROVE TypeOK'
    OBVIOUS
  <1>1. CASE ServerNext /\ UNCHANGED <<kind, clientVars, routerVars>>
    BY <1>1, ServerStepType
    DEF TypeOK, clientVars, routerVars, ClientTypeOK, RouterTypeOK
  <1>2. CASE ClientNext /\ UNCHANGED <<kind, serverVars, routerVars>>
    BY <1>2, ClientStepType DEF TypeOK, routerVars, RouterTypeOK
  <1>3. CASE RouterNext /\ UNCHANGED <<kind, serverVars, clientVars>>
    BY <1>3, RouterStepType DEF TypeOK, clientVars, ClientTypeOK
  <1>4. CASE UNCHANGED vars
    BY <1>4 DEF vars, serverVars, clientVars, routerVars, TypeOK, ServerTypeOK, ClientTypeOK,
                RouterTypeOK
  <1> QED BY <1>1, <1>2, <1>3, <1>4 DEF Next

\* The types of all variables; in particular a response is in hand exactly
\* while the files it is written to are written.
THEOREM TypeCorrect == Spec => []TypeOK
  <1> QED BY TypeInit, TypeStep, PTL DEF Spec

-----------------------------------------------------------------------------
(* The router *)

\* Steps of a run that has something to install and has not stamped it.
AtWork == {"write_pem", "write_key", "write_ca", "remove", "import_pem", "import_key",
           "import_ca", "tidy", "unstamp"}

Before(e) == stamp = Nothing \/ stamp < e

RouterInv ==
    /\ step # "idle" => offer \in Int /\ offer <= served
    /\ stamp # Nothing => stamp <= served
    /\ ~doubtful => Before(served) \/ store = Entries(stamp)
    /\ ~doubtful /\ temp # {} => Before(served)
    /\ ~doubtful /\ step \in AtWork => Before(offer)
    /\ step \in {"unstamp", "stamp"} => temp = {}
    /\ step = "write_key" => "pem" \in temp
    /\ step = "write_ca" => {"pem", "key"} \subseteq temp
    /\ step = "remove" => PartsOf(offer) \subseteq temp
    /\ step \in {"import_pem", "import_key", "import_ca"} => store["ca"] = Nothing
    /\ ~doubtful =>
         /\ step \in {"import_key", "import_ca", "tidy", "unstamp", "stamp"} => store["pem"] = offer
         /\ step \in {"import_ca", "tidy", "unstamp", "stamp"} => store["key"] = offer
         /\ step \in {"tidy", "unstamp", "stamp"} => store["ca"] = Entries(offer)["ca"]

LEMMA RouterInvStep ==
    ASSUME TypeOK, RouterInv, RouterNext, UNCHANGED serverVars
    PROVE  RouterInv'
  <1> USE ThenType DEF serverVars, RouterInv, Before, AtWork
  <1>0. /\ served \in Int /\ offer \in Int \cup {Nothing} /\ stamp \in Int \cup {Nothing}
        /\ temp \subseteq Parts /\ store \in [Parts -> Int \cup {Nothing}] /\ Nothing \notin Int
    BY Contents DEF TypeOK, ServerTypeOK, RouterTypeOK, Expiry
  <1>11. \A e : /\ PartsOf(e) \subseteq Parts /\ "pem" \in PartsOf(e) /\ "key" \in PartsOf(e)
                /\ "ca" \in PartsOf(e) <=> e \notin NoCa
                /\ Entries(e)["pem"] = e
                /\ Entries(e)["ca"] = IF e \in NoCa THEN Nothing ELSE e
                /\ store["pem"] = e /\ store["key"] = e /\ store["ca"] = Entries(e)["ca"]
                     => store = Entries(e)
    BY <1>0, EntriesOf DEF Expiry
  <1>1. CASE Fetch
    <2>1. CASE UpToDate(served)
      BY <1>0, <1>1, <2>1 DEF Fetch
    <2>2. CASE ~UpToDate(served)
      <3>1. ~doubtful => stamp = Nothing \/ stamp < served
        <4>1. store = Entries(stamp) /\ store = NoEntry => stamp = Nothing
          <5>1. NoEntry["pem"] = Nothing
            BY DEF NoEntry, Parts
          <5>2. Entries(stamp)["pem"] = stamp
            BY DEF Entries, PartsOf, Parts
          <5> QED BY <5>1, <5>2
        <4> QED BY <1>0, <2>2, <4>1 DEF UpToDate
      <3> QED BY <1>0, <1>1, <2>2, <3>1 DEF Fetch
    <2> QED BY <2>1, <2>2
  <1>2. CASE WriteFile
    <2>1. CASE step = "write_pem"
      BY <1>0, <1>11, <1>2, <2>1, PartsOfSteps DEF WriteFile
    <2>2. CASE step = "write_key"
      BY <1>0, <1>11, <1>2, <2>2, PartsOfSteps DEF WriteFile
    <2>3. CASE step = "write_ca"
      <3>1. PartsOf(offer) \subseteq temp' /\ UNCHANGED offer
        BY <1>0, <1>2, <2>3, PartsOfSteps DEF WriteFile, PartsOf, Parts
      <3> QED BY <1>0, <1>2, <2>3, <3>1 DEF WriteFile
    <2> QED BY <1>2, <2>1, <2>2, <2>3, PartsOfSteps DEF WriteFile
  <1>3. CASE RemoveOld
    BY <1>0, <1>3 DEF RemoveOld, NoEntry, Parts
  <1>4. CASE Import
    <2>1. step \in AtWork /\ step' \in {"import_key", "import_ca", "tidy"}
      BY <1>4, PartsOfSteps DEF Import
    <2>2. /\ \/ step = "import_pem" /\ step' = "import_key"
             \/ step = "import_key" /\ step' = "import_ca"
             \/ step = "import_ca" /\ step' = "tidy"
          /\ UNCHANGED <<offer, stamp, temp, doubtful>>
      BY <1>4, PartsOfSteps DEF Import
    <2>3. step = "import_pem" => store'["pem"] = offer /\ store'["ca"] = Nothing
      BY <1>0, <1>11, <1>4, PartsOfSteps DEF Import, Imported, Parts
    <2>4. step = "import_key" =>
            /\ store'["ca"] = Nothing
            /\ ~doubtful => store'["pem"] = offer /\ store'["key"] = offer
      <3>1. step = "import_key" /\ ~doubtful => store["pem"] = offer /\ offer # Nothing
        BY <1>0
      <3> QED BY <1>0, <1>11, <1>4, <3>1, PartsOfSteps DEF Import, Imported, Parts
    <2>5. step = "import_ca" /\ ~doubtful =>
            store'["pem"] = offer /\ store'["key"] = offer /\ store'["ca"] = Entries(offer)["ca"]
      BY <1>0, <1>11, <1>4, PartsOfSteps DEF Import, Imported, Parts
    <2>6. Entries(offer)' = Entries(offer) /\ Entries(stamp)' = Entries(stamp)
      BY <2>2
    <2> QED BY <1>0, <2>1, <2>2, <2>3, <2>4, <2>5, <2>6
  <1>5. CASE ImportsNothing
    <2>1. step \in AtWork /\ step' \in {"import_key", "import_ca", "tidy"}
          /\ (step' \in {"import_key", "import_ca"} => step \in {"import_pem", "import_key"})
      BY <1>5, PartsOfSteps DEF ImportsNothing
    <2> QED BY <1>0, <1>5, <2>1 DEF ImportsNothing
  <1>6. CASE Tidy \/ Unstamp
    BY <1>0, <1>6 DEF Tidy, Unstamp
  <1>7. CASE Stamp
    <2>1. ~doubtful' => store = Entries(offer)
      BY <1>11, <1>7 DEF Stamp
    <2> QED BY <1>0, <1>7, <2>1 DEF Stamp
  <1>8. ASSUME NEW s \in Services, Bind(s) PROVE RouterInv'
    BY <1>0, <1>8 DEF Bind
  <1>9. CASE Done \/ NotFound \/ Fails \/ PowerFails
    BY <1>0, <1>9 DEF Stop, Done, NotFound, Fails, PowerFails
  <1>10. CASE RemovedByHand
    BY <1>0, <1>10 DEF RemovedByHand
  <1> QED BY <1>1, <1>2, <1>3, <1>4, <1>5, <1>6, <1>7, <1>8, <1>9, <1>10
        DEF RouterNext, RouterStep

LEMMA RouterInvServer ==
    ASSUME TypeOK, RouterInv, ServerNext, UNCHANGED routerVars
    PROVE  RouterInv'
  <1>1. served' \in Int /\ served \in Int /\ served <= served'
    BY ServerStepType DEF TypeOK, ServerTypeOK
  <1>2. offer \in Int \cup {Nothing} /\ stamp \in Int \cup {Nothing} /\ Nothing \notin Int
    BY Contents DEF TypeOK, RouterTypeOK, Expiry
  <1> QED BY <1>1, <1>2 DEF RouterInv, Before, AtWork, routerVars

THEOREM RouterInvariance == Spec => [](TypeOK /\ RouterInv)
  <1>1. Init => RouterInv
    BY Contents DEF Init, RouterInit, RouterInv, Before, AtWork
  <1>2. TypeOK /\ RouterInv /\ [Next]_vars => RouterInv'
    <2> SUFFICES ASSUME TypeOK, RouterInv, [Next]_vars PROVE RouterInv'
      OBVIOUS
    <2>1. CASE ServerNext /\ UNCHANGED routerVars
      BY <2>1, RouterInvServer
    <2>2. CASE RouterNext /\ UNCHANGED serverVars
      BY <2>2, RouterInvStep
    <2>3. CASE UNCHANGED <<serverVars, routerVars>>
      BY <2>3 DEF serverVars, routerVars, RouterInv, Before, AtWork
    <2> QED BY <2>1, <2>2, <2>3 DEF Next, vars
  <1> QED BY <1>1, <1>2, TypeInit, TypeStep, PTL DEF Spec

\* Whatever runs were cut short, a router that finds nothing to do has the
\* certificate on offer, complete.
THEOREM RouterSkipsRightly == Spec => []SkipsOnlyComplete
  <1>1. TypeOK /\ RouterInv => SkipsOnlyComplete
    BY Contents
    DEF TypeOK, ServerTypeOK, RouterTypeOK, RouterInv, Before, SkipsOnlyComplete, UpToDate
  <1> QED BY <1>1, RouterInvariance, PTL

\* A private key stays behind among the router's files past the next whole
\* run only in the case that the property excepts.
THEOREM RouterTidies == Spec => []KeyLeftOnlyInDoubt
  <1>1. TypeOK /\ RouterInv => KeyLeftOnlyInDoubt
    BY Contents
    DEF TypeOK, ServerTypeOK, RouterTypeOK, RouterInv, Before, KeyLeftOnlyInDoubt, UpToDate
  <1> QED BY <1>1, RouterInvariance, PTL

\* The script removes a certificate only with all files of another one there,
\* of the stamped one only if entries were removed by hand.
THEOREM RouterGivesUpForNew == Spec => GivenUpOnlyForNew
  <1> DEFINE ForNew == step # "idle" /\ store["pem"] # Nothing /\ store'["pem"] = Nothing
                         => PartsOf(offer) \subseteq temp /\ (offer # stamp \/ doubtful)
  <1>1. TypeOK /\ RouterInv /\ [Next]_vars => [ForNew]_routerVars
    <2> SUFFICES ASSUME TypeOK, RouterInv, [Next]_vars, step # "idle",
                        store["pem"] # Nothing, store'["pem"] = Nothing
                 PROVE  PartsOf(offer) \subseteq temp /\ (offer # stamp \/ doubtful)
      OBVIOUS
    <2>1. store \in [Parts -> Int \cup {Nothing}] /\ stamp \in Int \cup {Nothing}
          /\ Nothing \notin Int /\ (step # "idle" => offer \in Int)
      BY Contents DEF TypeOK, RouterTypeOK, Expiry, RouterInv
    <2>2. CASE RemoveOld
      BY <2>1, <2>2 DEF RemoveOld, RouterInv, Before, AtWork
    <2>3. CASE Import
      <3>1. store'["pem"] = store["pem"] \/ store'["pem"] = offer
        BY <2>1, <2>3 DEF Import, Parts
      <3> QED BY <2>1, <3>1
    <2>4. CASE store' = store
      BY <2>4
    <2>5. RemoveOld \/ Import \/ store' = store
      BY DEF Next, vars, routerVars, RouterNext, RouterStep, Fetch, WriteFile, Tidy, Unstamp, Stamp,
             Bind, Stop, Done, NotFound, ImportsNothing, Fails, PowerFails, RemovedByHand
    <2> QED BY <2>2, <2>3, <2>4, <2>5
  <1> QED BY <1>1, RouterInvariance, PTL DEF Spec, GivenUpOnlyForNew

\* What the store and the bindings have to do with each other, and with the
\* certificate that is being imported.
StoreInv ==
    /\ \A s \in Services : bound[s] # Nothing => bound[s] = store["pem"]
    /\ store["key"] # Nothing => store["key"] = store["pem"]
    /\ store["ca"] # Nothing /\ store["pem"] # Nothing => store["ca"] = store["pem"]
    /\ step = "import_pem" => store = NoEntry /\ bound = Dangling
    /\ step \in {"import_key", "import_ca"} => store["pem"] \in {Nothing, offer}

LEMMA StoreInvStep ==
    ASSUME TypeOK, StoreInv, RouterNext
    PROVE  StoreInv'
  <1> USE ThenType, PartsOfSteps DEF StoreInv
  <1>0. /\ bound \in [Services -> Expiry] /\ store \in [Parts -> Expiry]
        /\ {"pem", "key", "ca"} = Parts
    BY DEF TypeOK, RouterTypeOK, Parts
  <1>1. CASE RemoveOld
    BY <1>0, <1>1 DEF RemoveOld, NoEntry, Dangling
  <1>2. CASE Import
    <2>1. CASE step = "import_pem"
      BY <1>0, <1>2, <2>1 DEF Import, NoEntry, Dangling
    <2>2. CASE step = "import_key"
      BY <1>0, <1>2, <2>2 DEF Import, Imported
    <2>3. CASE step = "import_ca"
      BY <1>0, <1>2, <2>3 DEF Import
    <2> QED BY <1>2, <2>1, <2>2, <2>3 DEF Import
  <1>3. CASE ImportsNothing
    <2>1. step' # "import_pem" /\ UNCHANGED <<offer, store, bound>>
      BY <1>3 DEF ImportsNothing
    <2>2. step' \in {"import_key", "import_ca"} => store["pem"] \in {Nothing, offer}
      BY <1>0, <1>3 DEF ImportsNothing, NoEntry
    <2> QED BY <2>1, <2>2
  <1>4. ASSUME NEW s \in Services, Bind(s) PROVE StoreInv'
    BY <1>0, <1>4 DEF Bind
  <1>5. CASE Fetch
    BY <1>5 DEF Fetch
  <1>6. CASE WriteFile
    BY <1>6 DEF WriteFile
  <1>7. CASE Tidy \/ Unstamp \/ Stamp
    BY <1>7 DEF Tidy, Unstamp, Stamp
  <1>8. CASE Done \/ NotFound \/ Fails \/ PowerFails
    BY <1>8 DEF Done, NotFound, Fails, PowerFails, Stop
  <1>9. CASE RemovedByHand
    BY <1>0, <1>9 DEF RemovedByHand, NoEntry, Dangling
  <1> QED BY <1>1, <1>2, <1>3, <1>4, <1>5, <1>6, <1>7, <1>8, <1>9 DEF RouterNext, RouterStep

\* A router never has the chain of one certificate and the key, the CA or
\* the services of another.
THEOREM RouterKeepsOne == Spec => []OneCertificate
  <1>1. Init => StoreInv
    BY DEF Init, RouterInit, StoreInv, NoEntry, Dangling, Parts
  <1>2. TypeOK /\ StoreInv /\ [Next]_vars => StoreInv'
    <2>1. UNCHANGED routerVars /\ StoreInv => StoreInv'
      BY DEF routerVars, StoreInv
    <2> QED BY <2>1, StoreInvStep DEF Next, vars
  <1>3. TypeOK /\ StoreInv => OneCertificate
    BY DEF StoreInv, OneCertificate, InUse, Parts
  <1> QED BY <1>1, <1>2, <1>3, TypeCorrect, PTL DEF Spec

\* A run that comes to its end leaves the certificate it fetched, complete,
\* and all services at it: what later runs rely on, and the safety half of
\* RouterRecovers.  (Not so after an import that failed silently.)
RunCompletes ==
    Done /\ ~doubtful =>
      store = Entries(offer) /\ (\A s \in Services : bound[s] = offer)

AtBind == step = "bind" /\ ~doubtful => store = Entries(offer)

LEMMA AtBindStep ==
    ASSUME TypeOK, RouterInv, AtBind, RouterNext, UNCHANGED serverVars
    PROVE  AtBind'
  <1> SUFFICES ASSUME step' = "bind", ~doubtful'
               PROVE  store' = Entries(offer')
    BY DEF AtBind, Entries, PartsOf
  <1>1. CASE Fetch
    <2>1. UpToDate(served) /\ ~doubtful /\ offer' = served /\ store' = store
      BY <1>1 DEF Fetch
    <2>2. SkipsOnlyComplete
      BY Contents
      DEF TypeOK, ServerTypeOK, RouterTypeOK, RouterInv, Before, SkipsOnlyComplete, UpToDate
    <2> QED BY <2>1, <2>2 DEF SkipsOnlyComplete
  <1>2. CASE Stamp
    <2>1. offer' = offer /\ store' = store
      BY <1>2 DEF Stamp
    <2>2. CASE doubtful
      BY <1>2, <2>1, <2>2 DEF Stamp
    <2>3. CASE ~doubtful
      <3>1. store["pem"] = offer /\ store["key"] = offer /\ store["ca"] = Entries(offer)["ca"]
        BY <1>2, <2>3 DEF Stamp, RouterInv
      <3>2. store = Entries(offer)
        BY <3>1, EntriesOf DEF TypeOK, RouterTypeOK
      <3> QED BY <2>1, <3>2
    <2> QED BY <2>2, <2>3
  <1>3. ASSUME NEW s \in Services, Bind(s) PROVE store' = Entries(offer')
    BY <1>3 DEF Bind, AtBind
  <1>4. CASE WriteFile \/ RemoveOld \/ Import \/ ImportsNothing \/ Tidy \/ Unstamp
    BY <1>4, ThenType, PartsOfSteps
    DEF WriteFile, RemoveOld, Import, ImportsNothing, Tidy, Unstamp
  <1>5. CASE Done \/ NotFound \/ Fails \/ PowerFails \/ RemovedByHand
    BY <1>5 DEF Done, NotFound, Fails, PowerFails, RemovedByHand, Stop
  <1> QED BY <1>1, <1>2, <1>3, <1>4, <1>5 DEF RouterNext, RouterStep

\* Whatever earlier runs were cut short, a run that reaches its end is enough.
THEOREM RouterRunCompletes == Spec => [][RunCompletes]_vars
  <1>1. Init => AtBind
    BY DEF Init, RouterInit, AtBind
  <1>2. TypeOK /\ RouterInv /\ AtBind /\ [Next]_vars => AtBind'
    <2>1. UNCHANGED routerVars /\ AtBind => AtBind'
      BY DEF routerVars, AtBind
    <2> QED BY <2>1, AtBindStep DEF Next, vars
  <1>3. AtBind => RunCompletes
    <2> SUFFICES ASSUME AtBind, Done, ~doubtful
                 PROVE  store = Entries(offer) /\ \A s \in Services : bound[s] = offer
      BY DEF RunCompletes
    <2>1. store = Entries(offer) /\ \A s \in Services : bound[s] = store["pem"]
      BY DEF AtBind, Done
    <2>2. Entries(offer)["pem"] = offer
      BY DEF Entries, PartsOf, Parts
    <2> QED BY <2>1, <2>2
  <1> QED BY <1>1, <1>2, <1>3, RouterInvariance, PTL DEF Spec

-----------------------------------------------------------------------------
(* The NixOS machine *)

\* The machine holds nothing newer than what it has fetched.
NotNewer ==
    /\ stage \in Fetched => got <= served
    /\ \A f \in Fetched : disk[f] \in Int => disk[f] <= (IF stage \in Fetched THEN got ELSE served)

\* The key is there when the chain is written.
KeyFirst ==
    /\ stage \in {"issuer", "crt"} => disk["key"] = got
    /\ stage = "crt" => disk["issuer"] = got
    /\ KeyNeverOlder

\* The state is there first of all.
StateFirst ==
    /\ stage \in {"key", "issuer", "crt"} => disk["json"] = got
    /\ disk["json"] \in Int /\ disk["crt"] \in Int => disk["crt"] <= disk["json"]
    /\ stage \in Installed \cup {"compare", "post"} => disk["json"] \in Int
    /\ stage = "json" /\ disk["json"] \in Int => Due(disk["json"])

AnnouncedFirst == Announced /\ (stage \in Installed => renewed)

Complete == \A f \in Installed : disk[f] = disk["fullchain"]

\* A chain that was installed without the rest is due, or another one is
\* to come, or the state file tells when it is due: it is never the one
\* that a fetch brings and that is not due.
Unfinished ==
    /\ disk["fullchain"] \in Int /\ (stage \in {"out_key", "chain", "full"} \/ ~Complete) =>
         Due(disk["fullchain"]) \/ disk["fullchain"] < served \/ disk["json"] = disk["fullchain"]
    /\ stage \in Fetched /\ disk["fullchain"] = got => Due(got) \/ Complete

\* What holds of a certificate that is not due if nothing was cut short
\* since it was fetched.
CleanRun ==
    clean /\ disk["json"] \in Int /\ stage \notin Fetched =>
      /\ \A f \in Fetched : disk[f] = disk["json"]
      /\ ~Due(disk["json"]) =>
           /\ stage \in {"idle", "compare"} /\ disk["fullchain"] = disk["json"] => Complete
           /\ stage \in {"out_key", "chain", "full", "post"} => disk["fullchain"] = disk["json"]
           /\ stage \in {"chain", "full", "post"} => disk["out_key"] = disk["json"]
           /\ stage \in {"full", "post"} => disk["chain"] = disk["json"]
           /\ stage = "post" => disk["full"] = disk["json"]

ClientInv == NotNewer /\ KeyFirst /\ StateFirst /\ AnnouncedFirst /\ Unfinished /\ CleanRun

LEMMA StaysDue ==
    \A e, t, u, d, w \in Int :
      t <= u /\ (e < t + d \/ t > e - w) => (e < u + d \/ u > e - w)
  OBVIOUS

LEMMA InvOfServer ==
    ASSUME TypeOK, ClientInv, ServerNext, UNCHANGED clientVars
    PROVE  ClientInv'
  <1>1. served' \in Int /\ served \in Int /\ served <= served' /\ now' \in Int /\ now \in Int
        /\ now <= now'
    BY ServerStepType, SpanTypes DEF TypeOK, ServerTypeOK
  <1>2. UNCHANGED <<disk, stage, got, renewed, loaded, clean>>
    BY DEF clientVars
  <1>3. \A e \in Int : Due(e) => Due(e)'
    <2>1. now \in Int /\ now' \in Int /\ now <= now' /\ TwoDays \in Int /\ Week \in Int
      BY <1>1, SpanTypes
    <2> QED BY <2>1, StaysDue DEF Due
  <1>4. disk \in [Files -> Int \cup {Absent, Torn}] /\ (stage \in Fetched => got \in Int)
    BY DEF TypeOK, ClientTypeOK, Content
  <1>5. NotNewer'
    BY <1>1, <1>2, <1>4 DEF ClientInv, NotNewer, Fetched, Files
  <1>6. KeyFirst' /\ AnnouncedFirst'
    BY <1>2 DEF ClientInv, KeyFirst, KeyNeverOlder, AnnouncedFirst, Announced
  <1>7. StateFirst'
    BY <1>2, <1>3 DEF ClientInv, StateFirst
  <1>8. Unfinished'
    <2>1. Complete' <=> Complete
      BY <1>2 DEF Complete
    <2> QED BY <1>1, <1>2, <1>3, <1>4, <2>1 DEF ClientInv, Unfinished
  <1>9. CleanRun'
    <2>1. Complete' <=> Complete
      BY <1>2 DEF Complete
    <2> QED BY <1>2, <1>3, <2>1 DEF ClientInv, CleanRun
  <1> QED BY <1>5, <1>6, <1>7, <1>8, <1>9 DEF ClientInv

\* What holds of the variables wherever the client is.
LEMMA ClientTypes ==
    ASSUME TypeOK
    PROVE  /\ served \in Int /\ now \in Int /\ Day \in Int /\ TwoDays \in Int /\ Week \in Int
           /\ disk \in [Files -> Int \cup {Absent, Torn}]
           /\ Absent \notin Int /\ Torn \notin Int
           /\ stage \in Fetched => got \in Int
           /\ stage \in Files \cup {"idle", "compare", "post"}
  BY SpanTypes, Contents DEF TypeOK, ServerTypeOK, ClientTypeOK, Content

LEMMA InvOfStart ==
    ASSUME TypeOK, ClientInv, StartFetch \/ StartNoFetch, UNCHANGED serverVars
    PROVE  ClientInv'
  <1>1. CASE StartFetch
    <2>1. /\ stage = "idle" /\ stage' = "json" /\ got' = served /\ UNCHANGED <<disk, renewed, loaded>>
          /\ UNCHANGED <<now, served>> /\ (disk["json"] \in Int => Due(disk["json"]))
      BY <1>1 DEF StartFetch, FetchCertificate, MustFetch, serverVars
    <2>2. \A e : Due(e)' <=> Due(e)
      BY <2>1 DEF Due
    <2>3. Complete' <=> Complete
      BY <2>1 DEF Complete
    <2>4. NotNewer'
      BY <2>1, ClientTypes DEF ClientInv, NotNewer, Fetched, Files
    <2>5. KeyFirst' /\ AnnouncedFirst'
      BY <2>1 DEF ClientInv, KeyFirst, KeyNeverOlder, AnnouncedFirst, Announced, Installed
    <2>6. StateFirst'
      BY <2>1, <2>2 DEF ClientInv, StateFirst, Installed
    <2>7. Unfinished'
      BY <2>1, <2>2, <2>3, ClientTypes DEF ClientInv, Unfinished, Fetched, Files
    <2>8. CleanRun'
      BY <2>1 DEF CleanRun, Fetched
    <2> QED BY <2>4, <2>5, <2>6, <2>7, <2>8 DEF ClientInv
  <1>2. CASE StartNoFetch
    <2>1. /\ stage = "idle" /\ stage' = "compare" /\ UNCHANGED <<disk, got, renewed, loaded, clean>>
          /\ UNCHANGED <<now, served>> /\ disk["json"] \in Int
      BY <1>2 DEF StartNoFetch, MustFetch, serverVars
    <2>2. \A e : Due(e)' <=> Due(e)
      BY <2>1 DEF Due
    <2>3. Complete' <=> Complete
      BY <2>1 DEF Complete
    <2>4. NotNewer'
      BY <2>1 DEF ClientInv, NotNewer, Fetched
    <2>5. KeyFirst' /\ AnnouncedFirst'
      BY <2>1 DEF ClientInv, KeyFirst, KeyNeverOlder, AnnouncedFirst, Announced, Installed
    <2>6. StateFirst'
      BY <2>1, <2>2 DEF ClientInv, StateFirst, Installed
    <2>7. Unfinished'
      BY <2>1, <2>2, <2>3 DEF ClientInv, Unfinished, Fetched
    <2>8. CleanRun'
      BY <2>1, <2>2, <2>3 DEF ClientInv, CleanRun, Fetched
    <2> QED BY <2>4, <2>5, <2>6, <2>7, <2>8 DEF ClientInv
  <1> QED BY <1>1, <1>2

LEMMA InvOfFetchedFile ==
    ASSUME TypeOK, ClientInv, Write, stage \in Fetched, UNCHANGED serverVars
    PROVE  ClientInv'
  <1>1. /\ disk' = [disk EXCEPT ![stage] = got] /\ stage' = After[stage]
        /\ got' = (IF After[stage] \in Fetched THEN got ELSE NoCert)
        /\ UNCHANGED <<renewed, loaded, clean, now, served>>
    <2>1. DataFor(stage) = got
      BY DEF DataFor, Fetched
    <2> QED BY <2>1 DEF Write, serverVars
  <1>2. \A e : Due(e)' <=> Due(e)
    BY <1>1 DEF Due
  <1>3. disk' \in [Files -> Int \cup {Absent, Torn}] /\ \A f \in Files : disk'[f] = IF f = stage THEN got ELSE disk[f]
    BY <1>1, ClientTypes DEF Fetched, Files
  <1>4. /\ stage \notin Installed
        /\ disk'["fullchain"] = disk["fullchain"] /\ disk'["out_key"] = disk["out_key"]
        /\ disk'["chain"] = disk["chain"] /\ disk'["full"] = disk["full"]
    BY <1>3 DEF Fetched, Files, Installed
  <1>5. Complete' <=> Complete
    BY <1>4 DEF Complete, Installed
  <1>6. /\ disk'["json"] = (IF stage = "json" THEN got ELSE disk["json"])
        /\ disk'["key"] = (IF stage = "key" THEN got ELSE disk["key"])
        /\ disk'["issuer"] = (IF stage = "issuer" THEN got ELSE disk["issuer"])
        /\ disk'["crt"] = (IF stage = "crt" THEN got ELSE disk["crt"])
    BY <1>3 DEF Fetched, Files
  <1>7. /\ stage = "json" => stage' = "key" /\ got' = got
        /\ stage = "key" => stage' = "issuer" /\ got' = got
        /\ stage = "issuer" => stage' = "crt" /\ got' = got
        /\ stage = "crt" => stage' = "compare"
        /\ stage \in {"json", "key", "issuer", "crt"}
    BY <1>1, AfterType DEF Fetched
  <1>8. got \in Int /\ got <= served /\ served \in Int
    BY ClientTypes DEF ClientInv, NotNewer
  <1>9. \A f \in Fetched : disk[f] \in Int => disk[f] <= got
    BY DEF ClientInv, NotNewer
  <1>10. NotNewer'
    <2>1. \A f \in Fetched : disk'[f] \in Int => disk'[f] <= got /\ disk'[f] <= served
      <3> SUFFICES ASSUME NEW f \in Fetched, disk'[f] \in Int PROVE disk'[f] <= got /\ disk'[f] <= served
        OBVIOUS
      <3>1. disk'[f] = got \/ disk'[f] = disk[f]
        BY <1>3 DEF Files
      <3>2. disk'[f] <= got
        BY <1>8, <1>9, <3>1
      <3> QED BY <1>8, <3>2
    <2>2. stage' \in Fetched => got' = got
      BY <1>1
    <2> QED BY <1>1, <1>8, <2>1, <2>2 DEF NotNewer
  <1>11. KeyFirst'
    <2>1. disk["crt"] \in Int => disk["crt"] <= got
      BY <1>9 DEF Fetched
    <2> QED BY <1>6, <1>7, <1>8, <2>1 DEF ClientInv, KeyFirst, KeyNeverOlder
  <1>12. AnnouncedFirst'
    BY <1>1, <1>4, <1>7 DEF ClientInv, AnnouncedFirst, Announced, Installed
  <1>13. StateFirst'
    <2>1. disk["crt"] \in Int => disk["crt"] <= got
      BY <1>9 DEF Fetched
    <2> QED BY <1>6, <1>7, <1>8, <2>1 DEF ClientInv, StateFirst, Installed
  <1>14. Unfinished'
    <2>1. stage' \notin {"out_key", "chain", "full"} /\ stage \notin {"out_key", "chain", "full"}
      BY <1>7
    <2>2. CASE stage = "json"
      BY <1>1, <1>2, <1>4, <1>5, <1>6, <1>7, <2>1, <2>2 DEF ClientInv, Unfinished, StateFirst, Fetched
    <2>3. CASE stage # "json"
      BY <1>1, <1>2, <1>4, <1>5, <1>6, <1>7, <2>1, <2>3 DEF ClientInv, Unfinished, Fetched
    <2> QED BY <2>2, <2>3
  <1>15. CleanRun'
    <2> SUFFICES ASSUME stage = "crt" PROVE CleanRun'
      BY <1>7 DEF CleanRun, Fetched
    <2>1. disk'["json"] = got /\ disk'["key"] = got /\ disk'["issuer"] = got /\ disk'["crt"] = got
      BY <1>6 DEF ClientInv, KeyFirst, StateFirst
    <2>2. disk'["fullchain"] = got => Due(got) \/ Complete
      BY <1>4 DEF ClientInv, Unfinished
    <2>3. stage' = "compare"
      BY <1>7
    <2> QED BY <1>2, <1>5, <2>1, <2>2, <2>3 DEF CleanRun, Fetched
  <1> QED BY <1>10, <1>11, <1>12, <1>13, <1>14, <1>15 DEF ClientInv

LEMMA InvOfInstalledFile ==
    ASSUME TypeOK, ClientInv, Write, stage \in Installed, UNCHANGED serverVars
    PROVE  ClientInv'
  <1>1. /\ disk' = [disk EXCEPT ![stage] = DataFor(stage)] /\ stage' = After[stage]
        /\ UNCHANGED <<renewed, loaded, clean, now, served>>
    BY DEF Write, serverVars
  <1>2. \A e : Due(e)' <=> Due(e)
    BY <1>1 DEF Due
  <1>3. \A f \in Files : disk'[f] = IF f = stage THEN DataFor(stage) ELSE disk[f]
    BY <1>1, ClientTypes
  <1>4. /\ stage \in {"fullchain", "out_key", "chain", "full"} /\ stage \notin Fetched
        /\ stage' \in {"out_key", "chain", "full", "post"} /\ stage' \notin Fetched
        /\ stage = "fullchain" <=> stage' = "out_key"
        /\ stage = "out_key" <=> stage' = "chain"
        /\ stage = "chain" <=> stage' = "full"
        /\ stage = "full" <=> stage' = "post"
    BY <1>1, AfterType DEF Installed, Fetched
  <1>5. \A f \in Fetched : disk'[f] = disk[f]
    BY <1>3, <1>4 DEF Files
  <1>6. /\ disk'["json"] = disk["json"] /\ disk'["key"] = disk["key"]
        /\ disk'["issuer"] = disk["issuer"] /\ disk'["crt"] = disk["crt"]
    BY <1>5 DEF Fetched
  <1>7. /\ stage # "fullchain" => disk'["fullchain"] = disk["fullchain"]
        /\ stage # "out_key" => disk'["out_key"] = disk["out_key"]
        /\ stage # "chain" => disk'["chain"] = disk["chain"]
    BY <1>3 DEF Files, Installed
  <1>8. /\ stage = "fullchain" => disk'["fullchain"] = disk["crt"]
        /\ stage = "out_key" => disk'["out_key"] = disk["key"]
        /\ stage = "chain" => disk'["chain"] = disk["issuer"]
        /\ stage = "full" /\ disk["out_key"] = disk["fullchain"] => disk'["full"] = disk["fullchain"]
    BY <1>3, <1>4 DEF DataFor, Files, Installed, Fetched
  <1>9. NotNewer'
    BY <1>1, <1>4, <1>5 DEF ClientInv, NotNewer
  <1>10. KeyFirst'
    BY <1>4, <1>6 DEF ClientInv, KeyFirst, KeyNeverOlder
  <1>11. StateFirst'
    BY <1>2, <1>4, <1>6 DEF ClientInv, StateFirst, Installed
  <1>12. AnnouncedFirst'
    BY <1>1 DEF ClientInv, AnnouncedFirst, Announced
  <1>13. Unfinished'
    <2>1. CASE stage = "fullchain"
      <3>1. /\ disk["json"] \in Int
            /\ disk["crt"] \in Int => disk["crt"] <= disk["json"] /\ disk["json"] <= served
        BY <2>1 DEF ClientInv, StateFirst, NotNewer, Fetched, Installed
      <3>2. disk["crt"] \in Int => disk["crt"] < served \/ disk["json"] = disk["crt"]
        BY <3>1, ClientTypes
      <3> QED BY <1>1, <1>4, <1>6, <1>8, <2>1, <3>2 DEF Unfinished
    <2>2. CASE stage # "fullchain"
      <3>1. stage \in {"out_key", "chain", "full"}
        BY <1>4, <2>2
      <3> QED BY <1>1, <1>2, <1>4, <1>6, <1>7, <2>2, <3>1 DEF ClientInv, Unfinished
    <2> QED BY <2>1, <2>2
  <1>14. CleanRun'
    <2> SUFFICES ASSUME clean, disk["json"] \in Int
                 PROVE  /\ \A f \in Fetched : disk[f] = disk["json"]
                        /\ ~Due(disk["json"]) =>
                             /\ disk'["fullchain"] = disk["json"]
                             /\ stage' \in {"chain", "full", "post"} => disk'["out_key"] = disk["json"]
                             /\ stage' \in {"full", "post"} => disk'["chain"] = disk["json"]
                             /\ stage' = "post" => disk'["full"] = disk["json"]
      BY <1>1, <1>2, <1>4, <1>5, <1>6 DEF CleanRun
    <2>1. /\ \A f \in Fetched : disk[f] = disk["json"]
          /\ disk["crt"] = disk["json"] /\ disk["key"] = disk["json"] /\ disk["issuer"] = disk["json"]
      BY <1>4 DEF ClientInv, CleanRun, Fetched
    <2>2. ~Due(disk["json"]) =>
            /\ stage \in {"out_key", "chain", "full"} => disk["fullchain"] = disk["json"]
            /\ stage \in {"chain", "full"} => disk["out_key"] = disk["json"]
            /\ stage = "full" => disk["chain"] = disk["json"]
      BY <1>4 DEF ClientInv, CleanRun
    <2> QED BY <1>4, <1>7, <1>8, <2>1, <2>2
  <1> QED BY <1>9, <1>10, <1>11, <1>12, <1>13, <1>14 DEF ClientInv

LEMMA InvOfTheRest ==
    ASSUME TypeOK, ClientInv, CompareDiffers \/ CompareSame \/ Post, UNCHANGED serverVars
    PROVE  ClientInv'
  <1>1. UNCHANGED <<disk, clean, now, served>> /\ stage \in {"compare", "post"}
        /\ stage' \in {"fullchain", "post", "idle"}
        /\ (stage' = "idle" <=> stage = "post") /\ (renewed => renewed' \/ Post)
    BY DEF CompareDiffers, CompareSame, Post, serverVars
  <1>2. \A e : Due(e)' <=> Due(e)
    BY <1>1 DEF Due
  <1>3. Complete' <=> Complete
    BY <1>1 DEF Complete
  <1>4. stage \notin Fetched /\ stage' \notin Fetched
    BY <1>1 DEF Fetched
  <1>5. NotNewer' /\ KeyFirst'
    BY <1>1, <1>4 DEF ClientInv, NotNewer, KeyFirst, KeyNeverOlder
  <1>6. StateFirst'
    BY <1>1, <1>2 DEF ClientInv, StateFirst, Installed
  <1>7. AnnouncedFirst'
    <2>1. CASE CompareDiffers
      BY <2>1 DEF CompareDiffers, AnnouncedFirst, Announced
    <2>2. CASE CompareSame
      BY <2>2 DEF CompareSame, ClientInv, AnnouncedFirst, Announced, Installed
    <2>3. CASE Post
      BY <2>3 DEF Post, ClientInv, AnnouncedFirst, Announced, Installed
    <2> QED BY <2>1, <2>2, <2>3
  <1>8. Unfinished'
    BY <1>1, <1>2, <1>3, <1>4 DEF ClientInv, Unfinished
  <1>9. CleanRun'
    <2> SUFFICES ASSUME clean, disk["json"] \in Int, ~Due(disk["json"])
                 PROVE  /\ stage' = "idle" /\ disk["fullchain"] = disk["json"] => Complete
                        /\ stage' = "post" => \A f \in Installed : disk[f] = disk["json"]
      <3>1. clean /\ disk["json"] \in Int => \A f \in Fetched : disk[f] = disk["json"]
        BY <1>4 DEF ClientInv, CleanRun
      <3> QED BY <1>1, <1>2, <1>3, <3>1 DEF CleanRun, Installed
    <2>1. CASE stage = "post"
      BY <1>1, <1>4, <2>1 DEF ClientInv, CleanRun, Complete, Installed
    <2>2. CASE stage = "compare" /\ stage' = "post"
      <3>1. CompareSame
        BY <2>2 DEF CompareDiffers, CompareSame, Post
      <3>2. disk["crt"] = disk["json"]
        BY <1>4 DEF ClientInv, CleanRun, Fetched
      <3>3. disk["fullchain"] = disk["json"]
        BY <3>1, <3>2, Contents DEF CompareSame
      <3> QED BY <1>4, <2>2, <3>3 DEF ClientInv, CleanRun, Complete
    <2> QED BY <1>1, <2>1, <2>2
  <1> QED BY <1>5, <1>6, <1>7, <1>8, <1>9 DEF ClientInv

LEMMA InvOfCutShort ==
    ASSUME TypeOK, ClientInv, CutShort, UNCHANGED serverVars
    PROVE  ClientInv'
  <1>1. /\ stage # "idle" /\ stage' = "idle" /\ ~clean' /\ UNCHANGED <<renewed, loaded, now, served>>
        /\ disk' = disk \/ (stage \in Files /\ disk' = [disk EXCEPT ![stage] = Torn])
    BY DEF CutShort, serverVars
  <1>2. \A e : Due(e)' <=> Due(e)
    BY <1>1 DEF Due
  <1>3. disk' \in [Files -> Int \cup {Absent, Torn}]
        /\ \A f \in Files : disk'[f] = disk[f] \/ (f = stage /\ disk'[f] = Torn)
    BY <1>1, ClientTypes
  <1>4. NotNewer'
    <2> SUFFICES ASSUME NEW f \in Fetched, disk'[f] \in Int PROVE disk'[f] <= served
      BY <1>1 DEF NotNewer, Fetched
    <2>1. disk'[f] = disk[f]
      BY <1>3, ClientTypes DEF Files
    <2>2. CASE stage \in Fetched
      BY <2>1, <2>2, ClientTypes DEF ClientInv, NotNewer
    <2>3. CASE stage \notin Fetched
      BY <2>1, <2>3 DEF ClientInv, NotNewer
    <2> QED BY <2>2, <2>3
  <1>5. KeyFirst'
    <2>1. disk'["crt"] \in Int => disk'["crt"] = disk["crt"]
      BY <1>3, ClientTypes DEF Files, Fetched
    <2>2. disk'["key"] \in Int => disk'["key"] = disk["key"]
      BY <1>3, ClientTypes DEF Files, Fetched
    <2> QED BY <1>1, <2>1, <2>2 DEF ClientInv, KeyFirst, KeyNeverOlder
  <1>6. StateFirst'
    <2>1. disk'["crt"] \in Int => disk'["crt"] = disk["crt"]
      BY <1>3, ClientTypes DEF Files, Fetched
    <2>2. disk'["json"] \in Int => disk'["json"] = disk["json"]
      BY <1>3, ClientTypes DEF Files, Fetched
    <2> QED BY <1>1, <2>1, <2>2 DEF ClientInv, StateFirst, Installed
  <1>7. AnnouncedFirst'
    <2>1. CASE stage \in Installed
      BY <1>1, <2>1 DEF ClientInv, AnnouncedFirst, Announced, Installed
    <2>2. CASE stage \notin Installed
      <3>1. disk'["fullchain"] = disk["fullchain"] /\ disk'["out_key"] = disk["out_key"]
        BY <1>3, <2>2 DEF Files, Installed
      <3> QED BY <1>1, <3>1 DEF ClientInv, AnnouncedFirst, Announced, Installed
    <2> QED BY <2>1, <2>2
  <1>8. Unfinished'
    <2> SUFFICES ASSUME disk'["fullchain"] \in Int, ~Complete'
                 PROVE  Due(disk'["fullchain"]) \/ disk'["fullchain"] < served
                        \/ disk'["json"] = disk'["fullchain"]
      BY <1>1, <1>2 DEF Unfinished, Fetched
    <2>1. disk'["fullchain"] = disk["fullchain"]
      BY <1>3, ClientTypes DEF Files, Installed
    <2>2. stage \in {"out_key", "chain", "full"} \/ ~Complete
      <3> SUFFICES ASSUME stage \notin {"out_key", "chain", "full"} PROVE ~Complete
        OBVIOUS
      <3>1. \A f \in Installed : disk'[f] = disk[f]
        BY <1>3, <2>1 DEF Files, Installed
      <3> QED BY <3>1 DEF Complete, Installed
    <2>3. Due(disk["fullchain"]) \/ disk["fullchain"] < served \/ disk["json"] = disk["fullchain"]
      BY <2>1, <2>2 DEF ClientInv, Unfinished
    <2>4. disk'["json"] = disk["json"] \/ stage = "json"
      BY <1>3 DEF Files, Fetched
    <2> QED BY <2>1, <2>3, <2>4 DEF ClientInv, StateFirst
  <1>9. CleanRun'
    BY <1>1 DEF CleanRun
  <1> QED BY <1>4, <1>5, <1>6, <1>7, <1>8, <1>9 DEF ClientInv

THEOREM ClientInvariance == Spec => [](TypeOK /\ ClientInv)
  <1>1. Init => ClientInv
    BY Contents
    DEF Init, ClientInit, ClientInv, NotNewer, KeyFirst, KeyNeverOlder, StateFirst, AnnouncedFirst,
        Announced, Unfinished, CleanRun, Complete, Files, Fetched, Installed
  <1>2. TypeOK /\ ClientInv /\ [Next]_vars => ClientInv'
    <2> SUFFICES ASSUME TypeOK, ClientInv, [Next]_vars PROVE ClientInv'
      OBVIOUS
    <2>1. CASE ServerNext /\ UNCHANGED clientVars
      BY <2>1, InvOfServer
    <2>2. CASE ClientNext /\ UNCHANGED serverVars
      <3>1. CASE Write
        <4>1. stage \in Fetched \/ stage \in Installed
          BY <3>1 DEF Write, Files
        <4> QED BY <2>2, <3>1, <4>1, InvOfFetchedFile, InvOfInstalledFile
      <3> QED BY <2>2, <3>1, InvOfStart, InvOfTheRest, InvOfCutShort DEF ClientNext, ClientStep
    <2>3. CASE UNCHANGED <<serverVars, clientVars>>
      <3>1. UNCHANGED <<now, served, disk, stage, got, renewed, loaded, clean>>
        BY <2>3 DEF serverVars, clientVars
      <3> QED BY <3>1
            DEF ClientInv, NotNewer, KeyFirst, KeyNeverOlder, StateFirst, AnnouncedFirst, Announced,
                Unfinished, CleanRun, Complete, Due
    <2> QED BY <2>1, <2>2, <2>3 DEF Next, vars
  <1> QED BY <1>1, <1>2, TypeInit, TypeStep, PTL DEF Spec

\* No run, wherever an earlier one was cut short, finds a chain that is newer
\* than its key.
THEOREM ClientKeyNeverOlder == Spec => []KeyNeverOlder
  <1>1. ClientInv => KeyNeverOlder
    BY DEF ClientInv, KeyFirst
  <1> QED BY <1>1, ClientInvariance, PTL

\* What the services have not loaded is announced.
THEOREM ClientAnnounces == Spec => []Announced
  <1>1. ClientInv => Announced
    BY DEF ClientInv, AnnouncedFirst
  <1> QED BY <1>1, ClientInvariance, PTL

LEMMA EndsAboutADayBefore == \A e \in Int : Ends(e) \in Int /\ Ends(e) > e - Day
  BY SpanTypes DEF Ends

\* A completed run installs all files of a certificate that lasts until after
\* the next day's run, unless it was cut short.
THEOREM ClientLasts == Spec => []LastsUntilTomorrow
  <1>1. TypeOK /\ ClientInv => LastsUntilTomorrow
    <2> SUFFICES ASSUME TypeOK, ClientInv, stage = "post", clean, disk["json"] \in Int,
                        ~Due(disk["json"])
                 PROVE  /\ \A f \in Installed : disk[f] = disk["json"]
                        /\ Ends(disk["json"]) > now + Day
      BY DEF LastsUntilTomorrow, MustFetch
    <2>1. \A f \in Installed : disk[f] = disk["json"]
      BY DEF ClientInv, CleanRun, Fetched, Installed
    <2>2. disk["json"] >= now + 2 * Day
      BY ClientTypes, SpanTypes DEF Due
    <2>3. Ends(disk["json"]) \in Int /\ Ends(disk["json"]) > disk["json"] - Day
      BY EndsAboutADayBefore
    <2> QED BY <2>1, <2>2, <2>3, ClientTypes, SpanTypes
  <1> QED BY <1>1, ClientInvariance, PTL
=============================================================================
