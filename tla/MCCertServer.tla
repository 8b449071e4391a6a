----------------------------- MODULE MCCertServer -----------------------------
(* Instances of CertServer for TLC: configurations and symmetry. *)
EXTENDS CertServer, TLC

CONSTANTS named, ondemand, p1, p2, n1, n2

Entry(p, ns) == [provider |-> p, names |-> ns]

\* One certificate with names and one issued on demand, and a later
\* configuration with another provider and other names for the first.
Before == [providers |-> {p1, p2},
           certs |-> (named :> Entry(p1, n1) @@ ondemand :> Entry(p1, NoNames))]
After == [providers |-> {p2}, certs |-> (named :> Entry(p2, n2))]

Reconfigured == <<Before, After>>

\* Only the certificate with names, never reconfigured.
OneCert == <<[providers |-> {p1}, certs |-> (named :> Entry(p1, n1))]>>

\* The provider of the certificate is replaced by another.
ProviderReplaced ==
    <<[providers |-> {p1}, certs |-> (named :> Entry(p1, n1))],
      [providers |-> {p2}, certs |-> (named :> Entry(p2, n1))]>>

\* The certificate is given to another provider, and the first is kept: in place
\* of NamesChanged another way to violate SettledAsAsked.
ProviderSwitched ==
    <<[providers |-> {p1, p2}, certs |-> (named :> Entry(p1, n1))],
      [providers |-> {p1, p2}, certs |-> (named :> Entry(p2, n1))]>>

\* A name is added to the certificate.
NamesChanged ==
    <<[providers |-> {p1}, certs |-> (named :> Entry(p1, n1))],
      [providers |-> {p1}, certs |-> (named :> Entry(p1, n2))]>>

\* Only certificates issued on demand.
OnDemandOnly == <<[providers |-> {p1}, certs |-> (ondemand :> Entry(p1, NoNames))]>>

HandlerSymmetry == Permutations(Handlers)
=============================================================================
