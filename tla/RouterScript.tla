----------------------------- MODULE RouterScript -----------------------------
(***************************************************************************)
(* A MikroTik router: the script contrib/routeros.rsc, run once a day.  A  *)
(* run fetches the certificate on offer and compares its expiry with the   *)
(* stamp file.  If they differ, or no certificate is there, it writes the  *)
(* PEM files, removes the old entries of the certificate store, imports    *)
(* the files and removes them, and rewrites the stamp; every run then      *)
(* points the services at the certificate.  A statement that fails ends in *)
(* the error handler, a power failure does not.                            *)
(***************************************************************************)
EXTENDS ServedCert

CONSTANTS
    Services,   \* the services of the router that use the certificate
    Nothing,    \* no stamp, no entry, a dangling reference
    NoCa        \* the certificates that the server hands out without a CA

ASSUME NothingAssumption == Nothing \notin Int
ASSUME NoCaAssumption == NoCa \subseteq Int

\* What is written and imported, and under these names found in the store.
Parts == {"pem", "key", "ca"}

PartsOf(e) == IF e \in NoCa THEN Parts \ {"ca"} ELSE Parts

\* The store when certificate e is all there, and nothing else.
Entries(e) == [p \in Parts |-> IF p \in PartsOf(e) THEN e ELSE Nothing]

VARIABLES
    step,       \* where the run is
    offer,      \* the expiry of the certificate it fetched, or Nothing
    stamp,      \* content of the stamp file
    temp,       \* the PEM files on the router
    store,      \* for each part the certificate that it was imported from
    bound,      \* for each service the certificate it is pointed at
    doubtful    \* history: an import failed silently, or entries were
                \* removed by hand, and no import since was complete

routerVars == <<step, offer, stamp, temp, store, bound, doubtful>>

\* What writing and importing steps are about, and the order of the steps.
Writes == [write_pem |-> "pem", write_key |-> "key", write_ca |-> "ca"]
Imports == [import_pem |-> "pem", import_key |-> "key", import_ca |-> "ca"]

\* (Faulty variant: the stamp is written before the imports.)
ThenStampFirst ==
    [write_pem |-> "write_key", write_key |-> "write_ca", write_ca |-> "unstamp",
     unstamp |-> "stamp", stamp |-> "remove", remove |-> "import_pem",
     import_pem |-> "import_key", import_key |-> "import_ca", import_ca |-> "tidy",
     tidy |-> "bind"]

\* (Faulty variant: the old entries go first.)
ThenRemoveFirst ==
    [write_pem |-> "remove", remove |-> "write_key", write_key |-> "write_ca",
     write_ca |-> "import_pem", import_pem |-> "import_key", import_key |-> "import_ca",
     import_ca |-> "tidy", tidy |-> "unstamp", unstamp |-> "stamp", stamp |-> "bind"]

\* (Faulty variant: the files are removed after the stamp is written.)
ThenTidyLast ==
    [write_pem |-> "write_key", write_key |-> "write_ca", write_ca |-> "remove",
     remove |-> "import_pem", import_pem |-> "import_key", import_key |-> "import_ca",
     import_ca |-> "unstamp", unstamp |-> "stamp", stamp |-> "tidy", tidy |-> "bind"]

Then ==
    [write_pem |-> "write_key", write_key |-> "write_ca", write_ca |-> "remove",
     remove |-> "import_pem", import_pem |-> "import_key", import_key |-> "import_ca",
     import_ca |-> "tidy", tidy |-> "unstamp", unstamp |-> "stamp", stamp |-> "bind"]

Steps == DOMAIN Then \cup {"idle", "bind"}

Expiry == Int \cup {Nothing}

RouterTypeOK ==
    /\ step \in Steps
    /\ offer \in Expiry
    /\ stamp \in Expiry
    /\ temp \subseteq Parts
    /\ store \in [Parts -> Expiry]
    /\ bound \in [Services -> Expiry]
    /\ doubtful \in BOOLEAN

NoEntry == [p \in Parts |-> Nothing]
Dangling == [s \in Services |-> Nothing]

RouterInit ==
    /\ step = "idle" /\ offer = Nothing /\ stamp = Nothing
    /\ temp = {} /\ store = NoEntry /\ bound = Dangling
    /\ doubtful = FALSE

-----------------------------------------------------------------------------
\* The certificate is up to date: same stamp, and some entry with its name
\* (the pattern matches the leaf and the "-ca" entry alike).
UpToDate(e) == stamp = e /\ store # NoEntry

\* (Faulty variant: services are only bound after an import.)
FetchOrQuit ==
    /\ step = "idle"
    /\ ~UpToDate(served)
    /\ offer' = served
    /\ step' = "write_pem"
    /\ UNCHANGED <<stamp, temp, store, bound, doubtful>>

\* The daily run fetches and compares.  (A fetch that fails, or an answer
\* without certificate, ends the run with nothing changed.)
Fetch ==
    /\ step = "idle"
    /\ offer' = served
    /\ step' = IF UpToDate(served) THEN "bind" ELSE "write_pem"
    /\ UNCHANGED <<stamp, temp, store, bound, doubtful>>

\* The file for the CA is not written when there is none.
WriteFile ==
    /\ step \in DOMAIN Writes
    /\ temp' = temp \cup ({Writes[step]} \cap PartsOf(offer))
    /\ step' = Then[step]
    /\ UNCHANGED <<offer, stamp, store, bound, doubtful>>

\* (Faulty variant: the pattern matches the leaf alone.)
RemoveOldLeaf ==
    /\ step = "remove"
    /\ store' = [store EXCEPT !["pem"] = Nothing, !["key"] = Nothing]
    /\ bound' = Dangling
    /\ step' = Then[step]
    /\ UNCHANGED <<offer, stamp, temp, doubtful>>

RemoveOld ==
    /\ step = "remove"
    /\ store' = NoEntry
    /\ bound' = Dangling
    /\ step' = Then[step]
    /\ UNCHANGED <<offer, stamp, temp, doubtful>>

\* An import has an effect: there is a CA, and the key finds the certificate
\* that it belongs to.
Imported(p) ==
    p \in PartsOf(offer) /\ (p = "key" => store["pem"] # Nothing)

\* /certificate/import.
Import ==
    /\ step \in DOMAIN Imports
    /\ store' = IF Imported(Imports[step]) THEN [store EXCEPT ![Imports[step]] = offer] ELSE store
    /\ step' = Then[step]
    /\ UNCHANGED <<offer, stamp, temp, bound, doubtful>>

\* It may import nothing and not say so: hence the look at the leaf below.
ImportsNothing ==
    /\ step \in DOMAIN Imports /\ Imported(Imports[step]) /\ Fault
    /\ doubtful' = TRUE
    /\ step' = Then[step]
    /\ UNCHANGED <<offer, stamp, temp, store, bound>>

Tidy ==
    /\ step = "tidy"
    /\ temp' = {}
    /\ step' = Then[step]
    /\ UNCHANGED <<offer, stamp, store, bound, doubtful>>

Unstamp ==
    /\ step = "unstamp"
    /\ stamp' = Nothing
    /\ step' = Then[step]
    /\ UNCHANGED <<offer, temp, store, bound, doubtful>>

Stamp ==
    /\ step = "stamp"
    /\ stamp' = offer
    /\ doubtful' = (doubtful /\ store # Entries(offer))
    /\ step' = Then[step]
    /\ UNCHANGED <<offer, temp, store, bound>>

\* The leaf is looked up, and every service that does not use it is pointed
\* at it.
Bind(s) ==
    /\ step = "bind" /\ store["pem"] # Nothing
    /\ bound[s] # store["pem"]
    /\ bound' = [bound EXCEPT ![s] = store["pem"]]
    /\ UNCHANGED <<step, offer, stamp, temp, store, doubtful>>

\* The run is over, and has left these files.
Stop(files) ==
    /\ step' = "idle" /\ offer' = Nothing
    /\ temp' = files
    /\ UNCHANGED <<stamp, store, bound, doubtful>>

Done ==
    /\ step = "bind" /\ store["pem"] # Nothing
    /\ \A s \in Services : bound[s] = store["pem"]
    /\ Stop(temp)

\* "certificate not found after import"
NotFound == step = "bind" /\ store["pem"] = Nothing /\ Stop({})

\* A statement fails: the error handler removes the files.
Fails == step # "idle" /\ Fault /\ Stop({})

PowerFails == step # "idle" /\ Fault /\ Stop(temp)

\* Somebody empties the certificate store.
RemovedByHand ==
    /\ step = "idle" /\ Fault
    /\ store' = NoEntry
    /\ bound' = Dangling
    /\ doubtful' = TRUE
    /\ UNCHANGED <<step, offer, stamp, temp>>

RouterStep ==
    \/ Fetch \/ WriteFile \/ RemoveOld \/ Import \/ Tidy \/ Unstamp \/ Stamp
    \/ (\E s \in Services : Bind(s)) \/ Done \/ NotFound

RouterNext ==
    \/ RouterStep /\ UNCHANGED faults
    \/ ImportsNothing \/ Fails \/ PowerFails \/ RemovedByHand

-----------------------------------------------------------------------------
(* Safety *)

\* When the next run would find nothing to do, the certificate on offer is
\* there with its key and its CA, if it has one, and nothing of another: the
\* stamp is written last, so a run cut short anywhere is done again.  (Not so
\* after a silent failure of an import, nor when entries were removed by hand
\* and the run that restores them is cut short: the stamp is not removed
\* before the import.)
SkipsOnlyComplete ==
    UpToDate(served) /\ ~doubtful => store = Entries(served)

\* A private key that a power failure leaves among the files of the router
\* is removed by the next run that is not cut short, since that run is not
\* one that finds nothing to do - with one exception: the store was empty
\* under a current stamp, since entries were removed by hand or no import had
\* worked, and the power failed when the run that restores them had imported
\* the first.  Later runs skip then, and the key file stays until the next
\* renewal.
KeyLeftOnlyInDoubt ==
    step = "idle" /\ temp # {} /\ UpToDate(served) => doubtful

\* Chain, key and CA in the store and the bindings of all services belong to
\* one certificate, also in the middle of a run, after runs cut short, and
\* after imports that failed silently: no import meets an older entry, and
\* no service is left behind at one.
InUse == ({store[p] : p \in Parts} \cup {bound[s] : s \in Services}) \ {Nothing}
OneCertificate == \A e, f \in InUse : e = f

\* The script gives a certificate up only when another is at hand: all its
\* files are on the router, and they are not those of the stamped one,
\* unless entries were removed by hand.
GivenUpOnlyForNew == [][
    step # "idle" /\ store["pem"] # Nothing /\ store'["pem"] = Nothing
      => PartsOf(offer) \subseteq temp /\ (offer # stamp \/ doubtful)]_routerVars
=============================================================================
