------------------------------- MODULE Machines -------------------------------
(***************************************************************************)
(* Machines that get their certificates from the server.  They have        *)
(* nothing in common but the server, so one of them is looked at, of       *)
(* either kind; the server goes its way beside it.                         *)
(***************************************************************************)
EXTENDS CertClient, RouterScript

VARIABLE kind   \* "nixos" or "router"

vars == <<kind, faults, serverVars, clientVars, routerVars>>

TypeOK ==
    /\ kind \in {"nixos", "router"}
    /\ ServerTypeOK /\ ClientTypeOK /\ RouterTypeOK

Init == kind \in {"nixos", "router"} /\ ServerInit /\ ClientInit /\ RouterInit

Next ==
    \/ ServerNext /\ UNCHANGED <<kind, clientVars, routerVars>>
    \/ kind = "nixos" /\ ClientNext /\ UNCHANGED <<kind, serverVars, routerVars>>
    \/ kind = "router" /\ RouterNext /\ UNCHANGED <<kind, serverVars, clientVars>>

Spec == Init /\ [][Next]_vars

(* Timers start the scripts every day, and a run that nothing cuts short    *)
(* comes to its end.                                                        *)
Fairness ==
    /\ WF_vars(kind = "nixos" /\ ClientStep /\ UNCHANGED <<kind, faults, serverVars, routerVars>>)
    /\ WF_vars(kind = "router" /\ RouterStep /\ UNCHANGED <<kind, faults, serverVars, clientVars>>)

FairSpec == Spec /\ Fairness

-----------------------------------------------------------------------------
(* Liveness *)

\* Once nothing fails any more, a machine whose certificate is due gets, and
\* its services load, the complete new one, as long as the server has one.
ClientRecovers ==
    kind = "nixos" /\ faults = 0 /\ stage = "idle" /\ MustFetch /\ ~Due(served) ~>
      \/ /\ \A f \in Installed : disk[f] = disk["fullchain"]
         /\ disk["fullchain"] \in Int
         /\ loaded = <<disk["fullchain"], disk["fullchain"]>>
      \/ Due(served)

\* Once nothing fails any more, a later daily run brings certificate, key
\* and CA on offer, and nothing else, into the store and every service to it, whatever state
\* earlier runs were cut short in.
RouterRecovers ==
    kind = "router" /\ faults = 0 /\ ~doubtful ~>
      /\ store = Entries(served)
      /\ \A s \in Services : bound[s] = served
      /\ temp = {}
=============================================================================
