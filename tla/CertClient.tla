------------------------------ MODULE CertClient ------------------------------
(***************************************************************************)
(* A NixOS machine: the renewal script of module-client.nix and the client *)
(* program it runs.  A run                                                 *)
(*                                                                         *)
(*   checks the state file and, if it is due or unreadable, fetches: saves *)
(*   the state, then the key, the issuer and the chain in certificates/;   *)
(*   compares the chain with the installed one and, if they differ,        *)
(*   announces a renewal and copies chain, key and issuer to out/, and     *)
(*   key and chain once more, together.                                    *)
(*                                                                         *)
(* A run can be cut short at any point, by an error (full disk), a kill or *)
(* a power failure.  The files stay as they are then, and one that was     *)
(* being written, truncated before it is filled, is torn.                  *)
(***************************************************************************)
EXTENDS ServedCert

Fetched == {"json", "key", "issuer", "crt"}               \* in certificates/
Installed == {"fullchain", "out_key", "chain", "full"}    \* in out/
Files == Fetched \cup Installed

CONSTANTS Absent, Torn, NoCert      \* no such file, a file cut off somewhere, no response

ASSUME ContentAssumption == Absent \notin Int /\ Torn \notin Int /\ NoCert \notin Int /\ Absent # Torn

VARIABLES
    disk,       \* the certificate whose data each file holds, or Absent or Torn
    stage,      \* the file the run is about to write, or "compare", "post", "idle"
    got,        \* the response to the fetch under way, or NoCert
    renewed,    \* out/renewed exists: services are to be reloaded
    loaded,     \* chain and key the services work with
    clean       \* history: nothing was cut short since the last fetch began

clientVars == <<disk, stage, got, renewed, loaded, clean>>

Content == Int \cup {Absent, Torn}

ClientTypeOK ==
    /\ disk \in [Files -> Content]
    /\ stage \in Files \cup {"idle", "compare", "post"}
    /\ got \in (IF stage \in Fetched THEN Int ELSE {NoCert})
    /\ renewed \in BOOLEAN
    /\ loaded \in Content \X Content
    /\ clean \in BOOLEAN

ClientInit ==
    /\ disk = [f \in Files |-> Absent]
    /\ stage = "idle"
    /\ got = NoCert
    /\ renewed = FALSE
    /\ loaded = <<Absent, Absent>>
    /\ clean = TRUE

-----------------------------------------------------------------------------
\* (Faulty variant: the chain is written before its key.)
AfterChainFirst ==
    [json |-> "crt", crt |-> "key", key |-> "issuer", issuer |-> "compare",
     fullchain |-> "out_key", out_key |-> "chain", chain |-> "full", full |-> "post"]

\* The order in which files are written.
After == [json |-> "key", key |-> "issuer", issuer |-> "crt", crt |-> "compare",
          fullchain |-> "out_key", out_key |-> "chain", chain |-> "full", full |-> "post"]

\* What goes into file f: the response, a copy of a file as it is now, or
\* (full.pem) two of them, which may not belong together.
DataFor(f) ==
    CASE f \in Fetched     -> got
      [] f = "fullchain"   -> disk["crt"]
      [] f = "out_key"     -> disk["key"]
      [] f = "chain"       -> disk["issuer"]
      [] f = "full"        -> IF disk["out_key"] = disk["fullchain"] THEN disk["fullchain"] ELSE Torn

\* (Faulty variant: no margin before the end.)
MustFetchLate == disk["json"] \in Int => disk["json"] < now + Day

\* The `check` before the fetch; a state file that cannot be parsed counts
\* as none.
MustFetch == disk["json"] \in Int => Due(disk["json"])

\* The response of the server.  (When it refuses, or is not there, the run
\* ends with nothing changed.)
FetchCertificate == got' = served

\* The timer starts the script.
StartFetch ==
    /\ stage = "idle" /\ MustFetch
    /\ FetchCertificate
    /\ clean' = TRUE
    /\ stage' = "json"
    /\ UNCHANGED <<disk, renewed, loaded>>

StartNoFetch ==
    /\ stage = "idle" /\ ~MustFetch
    /\ stage' = "compare"
    /\ UNCHANGED <<disk, got, renewed, loaded, clean>>

\* (Faulty variant: the response is gone before the chain is written.)
WriteForgetful ==
    /\ stage \in Files
    /\ disk' = [disk EXCEPT ![stage] = DataFor(stage)]
    /\ stage' = After[stage]
    /\ got' = IF After[stage] \in Fetched \ {"crt"} THEN got ELSE NoCert
    /\ UNCHANGED <<renewed, loaded, clean>>

Write ==
    /\ stage \in Files
    /\ disk' = [disk EXCEPT ![stage] = DataFor(stage)]
    /\ stage' = After[stage]
    /\ got' = IF After[stage] \in Fetched THEN got ELSE NoCert
    /\ UNCHANGED <<renewed, loaded, clean>>

\* (Faulty variant: the renewal is announced by the copying itself.)
CompareDiffersSilently ==
    /\ stage = "compare"
    /\ disk["crt"] # Absent /\ (disk["crt"] # disk["fullchain"] \/ disk["crt"] = Torn)
    /\ stage' = "fullchain"
    /\ UNCHANGED <<disk, got, renewed, loaded, clean>>

\* cmp: a torn file may or may not equal another.
CompareDiffers ==
    /\ stage = "compare"
    /\ disk["crt"] # Absent /\ (disk["crt"] # disk["fullchain"] \/ disk["crt"] = Torn)
    /\ renewed' = TRUE
    /\ stage' = "fullchain"
    /\ UNCHANGED <<disk, got, loaded, clean>>

CompareSame ==
    /\ stage = "compare"
    /\ disk["crt"] \in {Absent, disk["fullchain"]}
    /\ stage' = "post"
    /\ UNCHANGED <<disk, got, renewed, loaded, clean>>

\* After a run that succeeded, NixOS reloads the services if it is told to.
Post ==
    /\ stage = "post"
    /\ renewed' = FALSE
    /\ loaded' = IF renewed THEN <<disk["fullchain"], disk["out_key"]>> ELSE loaded
    /\ stage' = "idle"
    /\ UNCHANGED <<disk, got, clean>>

\* (Faulty variant: the announcement is lost with the run.)
CutShortSilently ==
    /\ stage # "idle" /\ Fault
    /\ disk' = disk
    /\ stage' = "idle"
    /\ got' = NoCert
    /\ clean' = FALSE
    /\ renewed' = FALSE
    /\ UNCHANGED loaded

CutShort ==
    /\ stage # "idle" /\ Fault
    /\ \/ disk' = disk
       \/ stage \in Files /\ disk' = [disk EXCEPT ![stage] = Torn]
    /\ stage' = "idle"
    /\ got' = NoCert
    /\ clean' = FALSE
    /\ UNCHANGED <<renewed, loaded>>

ClientStep ==
    \/ StartFetch \/ StartNoFetch
    \/ Write
    \/ CompareDiffers \/ CompareSame \/ Post

ClientNext == (ClientStep /\ UNCHANGED faults) \/ CutShort

-----------------------------------------------------------------------------
(* Safety *)

\* In certificates/ the key is never older than the chain: a run cut short
\* between the two leaves a chain that is installed already, and never one
\* that the next run installs with a key of the certificate before.
KeyNeverOlder ==
    disk["crt"] \in Int /\ disk["key"] \in Int => disk["crt"] <= disk["key"]

\* Whatever was copied to out/ and not yet loaded is announced, however many
\* runs were cut short in between: touch comes before the first copy, and
\* only a completed run withdraws it.
Announced == loaded # <<disk["fullchain"], disk["out_key"]>> => renewed

\* A run that completes with a certificate which is not due, and whose fetch
\* and installation nothing has cut short, leaves all files of that one
\* certificate installed, and it lasts until after the next day's run, even
\* though it may end up to a day before the state file says.
LastsUntilTomorrow ==
    stage = "post" /\ clean /\ ~MustFetch =>
      /\ \A f \in Installed : disk[f] = disk["json"]
      /\ Ends(disk["json"]) > now + Day

\* What the script promises ("Copy all certs to the real certs directory"):
\* when it ends well, one complete certificate is installed.  (Not kept: the
\* state is saved before the files, and only the chain is compared.)
InstalledComplete == stage = "post" =>
    disk["fullchain"] \in Int /\ \A f \in Installed : disk[f] = disk["fullchain"]
=============================================================================
