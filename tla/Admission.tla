------------------------------ MODULE Admission ------------------------------
(***************************************************************************)
(* What happens to a request before it touches shared state: whether its   *)
(* token admits it, and which certificate it is about.  All of it is       *)
(* computed from the configuration, which does not change while the server *)
(* runs.                                                                   *)
(*                                                                         *)
(* A configuration has, in order, the entries of `tokens`, and for every   *)
(* source its `names` and its `domains`, each a set of patterns or NotSet. *)
(* A network is given by the set of its addresses.                         *)
(***************************************************************************)
EXTENDS Integers, Sequences

CONSTANTS
    Patterns,   \* what `names`, `domains` and `restrictNames` list
    Hosts,      \* hosts that are asked for: patterns without a star
    Globs,      \* <<pattern, host>>: the pattern matches the host as a glob
    Length,     \* characters of a pattern
    Literals,   \* characters of a pattern that are not a star
    Sources,    \* ids of certificate configurations
    Rank,       \* their alphabetical order
    Exact,      \* score of a host that is listed as it is: 1_000_000
    Bonus,      \* for a match among the names: 10_000
    NotSet      \* an option that is not set

ASSUME PatternAssumption ==
    /\ Hosts \subseteq Patterns /\ NotSet \notin Hosts
    /\ Globs \subseteq Patterns \X Hosts
    /\ Length \in [Patterns -> Nat]
    /\ Exact \in Nat /\ Bonus \in Nat \ {0}
    /\ Literals \in [Patterns -> Nat]
    /\ \A p \in Patterns : Literals[p] + Bonus < Exact    \* no pattern is that long

ASSUME RankAssumption ==
    /\ Rank \in [Sources -> Nat]
    /\ \A i, j \in Sources : Rank[i] = Rank[j] => i = j

-----------------------------------------------------------------------------
(* Tokens *)

Matches(p, host) == p = host \/ <<p, host>> \in Globs

\* The tokens are kept by their hash: of two with the same hash the later
\* one counts, and one with neither hash nor plain text cannot be used.
TokenFor(k, credential, token) ==
    \E n \in DOMAIN k.tokens :
      /\ token = k.tokens[n]
      /\ token.hash = credential
      /\ \A m \in DOMAIN k.tokens : k.tokens[m].hash = credential => m <= n

\* The address a request is taken to come from.
ClientIp(request) == IF request.forwarded # NotSet THEN request.forwarded ELSE request.peer

\* The guard and can_access_domain.
Admitted(k, request) ==
    /\ request.credential # NotSet
    /\ \E token \in {k.tokens[n] : n \in DOMAIN k.tokens} :
         /\ TokenFor(k, request.credential, token)
         /\ token.allowFrom # NotSet => ClientIp(request) \in token.allowFrom
         /\ token.restrictNames # NotSet =>
              \E p \in token.restrictNames : Matches(p, request.host)

-----------------------------------------------------------------------------
(* The matching certificate *)

Listed(list, host) == IF list = NotSet THEN {} ELSE {p \in list : Matches(p, host)}

\* The candidates: every source with every pattern of its names that matches
\* or, only if none does, every pattern of its domains that matches.
ByName(k, host) ==
    {c \in Sources \X Patterns : c[2] \in Listed(k.certs[c[1]].names, host)}

ByDomain(k, host) ==
    {c \in Sources \X Patterns :
       /\ Listed(k.certs[c[1]].names, host) = {}
       /\ c[2] \in Listed(k.certs[c[1]].domains, host)}

Candidates(k, host) == ByName(k, host) \cup ByDomain(k, host)

Specificity(p, host) == IF p = host THEN Exact + Length[p] ELSE Literals[p]

\* Names have a bonus over domains.
Score(k, c, host) ==
    Specificity(c[2], host) + (IF c \in ByName(k, host) THEN Bonus ELSE 0)

\* (Faulty variant: a tie is left to the order of the map.)
BeatsByScore(k, c, d, host) == Score(k, c, host) >= Score(k, d, host)

\* The highest score wins, and of equal ones the last id: the order in which
\* a HashMap lists the sources does not matter.
Beats(k, c, d, host) ==
    \/ Score(k, c, host) > Score(k, d, host)
    \/ Score(k, c, host) = Score(k, d, host) /\ Rank[c[1]] >= Rank[d[1]]

\* The sources that find_matching_certificate may return.
Winners(k, host) ==
    {c[1] : c \in {d \in Candidates(k, host) :
                     \A e \in Candidates(k, host) : Beats(k, d, e, host)}}

\* Ids of certificates: "<source>", or "<source>#<host>" when it is issued on
\* demand.
CertIds == Sources \X (Hosts \cup {NotSet})

IsNamed(k, i) == k.certs[i].names # NotSet

CertIdFor(k, i, host) == IF IsNamed(k, i) THEN <<i, NotSet>> ELSE <<i, host>>
=============================================================================
