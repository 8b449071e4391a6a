------------------------------ MODULE CertRules ------------------------------
(***************************************************************************)
(* The data of the certificate server and the pure decisions taken on it:  *)
(* rows of the `certificates` table, the configuration, and the rules that *)
(* say when a certificate is expired, due for renewal, due for issuance or *)
(* due for deletion (crates/server/src/db/models.rs and cert.rs).          *)
(*                                                                         *)
(* Times are integers in an arbitrary unit.  Every provider returns        *)
(* prefer_renew_before = expires_at - 7 days and no prefer_renew_after, so *)
(* a row keeps expires_at only and the renewal point is derived from it.   *)
(***************************************************************************)
EXTENDS Integers

CONSTANTS
    Sources,    \* ids of certificate configurations (keys of `certificates`)
    Hosts,      \* domains a client may ask for
    NameLists,  \* values of a configuration's `names` list
    Providers,  \* ids of providers
    NoHost,     \* marks the id of a certificate with explicit names
    NoNames,    \* marks a configuration without `names` (it has `domains`)
    NoRow,      \* no row in the table: Option::None of a Certificate
    Unset,      \* Option::None of a timestamp
    Week, TwoDays, SixtyDays

ASSUME NullAssumption == NoHost \notin Hosts /\ NoNames \notin NameLists /\ Unset \notin Int
ASSUME TimeAssumption == Week \in Nat /\ TwoDays \in Nat \ {0} /\ SixtyDays \in Nat

\* A certificate with explicit names has its configuration's id; one issued
\* on demand for a host has the id "<source>#<host>".
CertIds == Sources \X (Hosts \cup {NoHost})

\* The names of an on-demand certificate are the single host it is for.
Names == NameLists \cup Hosts

Rows == [source : Sources, provider : Providers, names : Names,
         expires : Int, requested : Int]

ASSUME NoRowAssumption == NoRow \notin Rows

\* A configuration: the providers it defines and, per certificate id, the
\* provider and the names (or none).  The provider of a certificate need not
\* be defined: nothing in Config::load checks it.
IsConfig(k) ==
    /\ k.providers \subseteq Providers
    /\ DOMAIN k.certs \subseteq Sources
    /\ \A s \in DOMAIN k.certs :
         k.certs[s] \in [provider : Providers, names : NameLists \cup {NoNames}]

NamedId(s) == <<s, NoHost>>

NamedSources(k) == {s \in DOMAIN k.certs : k.certs[s].names # NoNames}

\* (Faulty variant: the host left out of the id.)
CertIdOfSource(k, s, host) == NamedId(s)

\* The certificate a request for `host` matching configuration s is about.
CertIdOf(k, s, host) ==
    IF k.certs[s].names # NoNames THEN NamedId(s) ELSE <<s, host>>

\* The names it is issued for.
NamesOf(k, s, host) ==
    IF k.certs[s].names # NoNames THEN k.certs[s].names ELSE host

-----------------------------------------------------------------------------
IsExpired(row, now) == row.expires <= now

NeedsRenewal(row, now) ==
    \/ row.expires - Week < now
    \/ row.expires < now + TwoDays

\* A row that exists and needs no renewal: what a second caller settles for.
IsFresh(row, now) == row # NoRow /\ ~NeedsRenewal(row, now)

\* The reasons of cert::check_needs_issuance; the first that applies counts.
IssuanceReason(row, want, now) ==
    IF row = NoRow THEN "Missing"
    ELSE IF IsExpired(row, now) THEN "Expired"
    ELSE IF row.provider # want.provider THEN "ProviderChanged"
    ELSE IF row.names # want.names THEN "NamesChanged"
    ELSE IF NeedsRenewal(row, now) THEN "InRenewalWindow"
    ELSE "None"

\* (Faulty variant: a provider removed from the configuration is no reason.)
NeedsDeletionAnyProvider(c, row, k, now) ==
    \/ row.requested < now - SixtyDays /\ ~(c[2] = NoHost /\ c[1] \in DOMAIN k.certs)
    \/ row.source \notin DOMAIN k.certs

\* The three reasons of cert::check_needs_deletion.
NeedsDeletion(c, row, k, now) ==
    \/ row.requested < now - SixtyDays /\ ~(c[2] = NoHost /\ c[1] \in DOMAIN k.certs)
    \/ row.provider \notin k.providers
    \/ row.source \notin DOMAIN k.certs

\* What one row and another have in common when they hold the same issued
\* certificate: everything but the time of the last request.
SameCert(r, q) == [r EXCEPT !.requested = 0] = [q EXCEPT !.requested = 0]
=============================================================================
