----------------------------- MODULE MCConnPool -----------------------------
(* A small instance of ConnPool for TLC: three connections, two threads, two *)
(* handlers beside the startup check and the maintenance job.                *)
EXTENDS ConnPool, TLC

CONSTANTS glob, a, certA, certB, key, inside, outside

MCPatterns == {glob, a}
MCHosts == {a}
MCGlobs == {<<glob, a>>}
MCLength == [p \in MCPatterns |-> 3]
MCLiterals == [p \in MCPatterns |-> IF p = glob THEN 2 ELSE 3]
MCSources == {certA, certB}
MCRank == certA :> 1 @@ certB :> 2

Tokens == <<[hash |-> key, allowFrom |-> {}, restrictNames |-> NotSet],
            [hash |-> NotSet, allowFrom |-> NotSet, restrictNames |-> NotSet],
            [hash |-> key, allowFrom |-> {inside}, restrictNames |-> {glob}]>>

Entry(names, domains) == [names |-> names, domains |-> domains]

\* Two lists of names that tie, so that the startup check visits the certificate
\* of the requests and another; a glob among names that shadows a domain of its
\* own source and loses to the same one of the other, so that the startup check
\* and the requests are about different certificates.
MCConfigs ==
    {[tokens |-> Tokens, certs |-> certA :> Entry({glob}, NotSet) @@ certB :> Entry({glob}, NotSet)],
     [tokens |-> Tokens, certs |-> certA :> Entry({glob}, {a}) @@ certB :> Entry(NotSet, {a})]}

MCRequests ==
    [credential : {key}, forwarded : {NotSet, outside}, peer : {inside}, host : MCHosts]
=============================================================================
