--------------------------- MODULE AdmissionProofs ---------------------------
(***************************************************************************)
(* Proofs about the choice of the certificate, for every configuration,    *)
(* every way that patterns match and any number of sources.                *)
(***************************************************************************)
EXTENDS Admission, FiniteSetTheorems, WellFoundedInduction, TLAPS

LEMMA CandidateTypes ==
    ASSUME NEW k, NEW host, NEW c \in Candidates(k, host)
    PROVE  /\ c \in Sources \X Patterns /\ c[1] \in Sources /\ c[2] \in Patterns
           /\ Specificity(c[2], host) \in Nat /\ Score(k, c, host) \in Nat
  <1>1. c \in Sources \X Patterns
    BY DEF Candidates, ByName, ByDomain
  <1>2. c[1] \in Sources /\ c[2] \in Patterns
    BY <1>1
  <1>3. Specificity(c[2], host) \in Nat
    BY <1>2, PatternAssumption DEF Specificity
  <1> QED BY <1>1, <1>2, <1>3, PatternAssumption DEF Score

\* Whatever the order in which the certificates are looked at, at most one
\* of them can be the answer.
THEOREM WinnerUnique ==
    ASSUME NEW k, NEW host, NEW i \in Winners(k, host), NEW j \in Winners(k, host)
    PROVE  i \in Sources /\ i = j
  <1>1. PICK c \in Candidates(k, host) :
          i = c[1] /\ \A e \in Candidates(k, host) : Beats(k, c, e, host)
    BY DEF Winners
  <1>2. PICK d \in Candidates(k, host) :
          j = d[1] /\ \A e \in Candidates(k, host) : Beats(k, d, e, host)
    BY DEF Winners
  <1>3. /\ Score(k, c, host) \in Nat /\ Score(k, d, host) \in Nat
        /\ c[1] \in Sources /\ d[1] \in Sources
    BY CandidateTypes
  <1>4. Rank[c[1]] \in Nat /\ Rank[d[1]] \in Nat
    BY <1>3, RankAssumption
  <1>5. Beats(k, c, d, host) /\ Beats(k, d, c, host)
    BY <1>1, <1>2
  <1>6. Rank[c[1]] = Rank[d[1]]
    BY <1>3, <1>4, <1>5 DEF Beats
  <1> QED BY <1>1, <1>2, <1>3, <1>6, RankAssumption

\* The pattern that won, and what it beats.
LEMMA WinningPattern ==
    ASSUME NEW k, NEW host, NEW i \in Winners(k, host), NEW d \in Candidates(k, host)
    PROVE  \E c \in Candidates(k, host) : i = c[1] /\ Score(k, c, host) >= Score(k, d, host)
  <1>1. PICK c \in Candidates(k, host) :
          i = c[1] /\ \A e \in Candidates(k, host) : Beats(k, c, e, host)
    BY DEF Winners
  <1>2. Score(k, c, host) \in Nat /\ Score(k, d, host) \in Nat
    BY CandidateTypes
  <1> QED BY <1>1, <1>2 DEF Beats

\* A host that some source lists by name, literally, gets a certificate that
\* has this host among its names: no glob and no list of domains, however
\* long, takes it away.
THEOREM NamedHostsAreCovered ==
    ASSUME NEW k, NEW host \in Hosts, NEW i \in Winners(k, host), NEW j \in Sources,
           k.certs[j].names # NotSet, host \in k.certs[j].names
    PROVE  k.certs[i].names # NotSet /\ host \in k.certs[i].names
  <1>1. host \in Patterns
    BY PatternAssumption
  <1> DEFINE d == <<j, host>>
  <1>2. d \in ByName(k, host)
    BY <1>1 DEF ByName, Listed, Matches
  <1>3. Score(k, d, host) = Exact + Length[host] + Bonus
    BY <1>2 DEF Score, Specificity
  <1>4. PICK c \in Candidates(k, host) : i = c[1] /\ Score(k, c, host) >= Score(k, d, host)
    BY <1>2, WinningPattern DEF Candidates
  <1>5. c[2] \in Patterns /\ Length[host] \in Nat
    BY <1>1, CandidateTypes, PatternAssumption
  <1>6. Exact \in Nat /\ Bonus \in Nat \ {0}
    BY PatternAssumption
  <1>7. CASE c[2] # host
    <2>1. Score(k, c, host) = Literals[c[2]] \/ Score(k, c, host) = Literals[c[2]] + Bonus
      <3>1. Literals[c[2]] \in Nat
        BY <1>5, PatternAssumption
      <3> QED BY <1>7, <3>1 DEF Score, Specificity
    <2>2. Literals[c[2]] \in Nat /\ Literals[c[2]] + Bonus < Exact /\ Exact \in Nat /\ Bonus \in Nat
      BY <1>5, PatternAssumption
    <2> QED BY <1>3, <1>4, <1>5, <2>1, <2>2
  <1>8. CASE c[2] = host /\ c \notin ByName(k, host)
    <2>1. Score(k, c, host) = Exact + Length[host]
      BY <1>6, <1>5, <1>8 DEF Score, Specificity
    <2> QED BY <1>6, <1>3, <1>4, <1>5, <2>1
  <1>9. CASE c[2] = host /\ c \in ByName(k, host)
    BY <1>4, <1>9 DEF ByName, Listed
  <1> QED BY <1>7, <1>8, <1>9

-----------------------------------------------------------------------------
(* There is an answer, and what it depends on *)

LEMMA LeastNatural ==
    ASSUME NEW S \in SUBSET Nat, S # {}
    PROVE  \E m \in S : \A n \in S : m <= n
  <1>1. PICK m \in S : \A n \in S : ~(<<n, m>> \in OpToRel(<, Nat))
    BY NatLessThanWellFounded, WFMin, Zenon
  <1>2. \A n \in S : n \in Nat /\ m \in Nat /\ ~(n < m)
    BY <1>1 DEF OpToRel
  <1> QED BY <1>2

\* No pattern scores more than the host itself, listed by name.
LEMMA ScoreBounded ==
    ASSUME NEW k, NEW host \in Hosts, NEW c \in Candidates(k, host)
    PROVE  Score(k, c, host) <= Exact + Length[host] + Bonus
  <1>1. /\ c[2] \in Patterns /\ host \in Patterns /\ Length[host] \in Nat
        /\ Length[c[2]] \in Nat /\ Literals[c[2]] \in Nat
    BY CandidateTypes, PatternAssumption
  <1>2. Exact \in Nat /\ Bonus \in Nat /\ Literals[c[2]] + Bonus < Exact
    BY <1>1, PatternAssumption
  <1>3. CASE c[2] = host
    BY <1>1, <1>2, <1>3 DEF Score, Specificity
  <1>4. CASE c[2] # host
    BY <1>1, <1>2, <1>4 DEF Score, Specificity
  <1> QED BY <1>3, <1>4

\* A host that matches anything is given a certificate: the scores and ranks
\* of the sources, however many, have a greatest pair.
THEOREM WinnerExists ==
    ASSUME IsFiniteSet(Sources), NEW k, NEW host \in Hosts, Candidates(k, host) # {}
    PROVE  Winners(k, host) # {}
  <1> DEFINE C == Candidates(k, host)
             B == Exact + Length[host] + Bonus
             Higher(c) == {i \in Sources : Rank[i] > Rank[c[1]]}
  <1>1. B \in Nat
    BY PatternAssumption
  <1>2. PICK best \in C : \A c \in C : Score(k, c, host) <= Score(k, best, host)
    <2> DEFINE S == {B - Score(k, c, host) : c \in C}
    <2> HIDE DEF B
    <2>1. S \in SUBSET Nat /\ S # {}
      <3>1. ASSUME NEW c \in C PROVE B - Score(k, c, host) \in Nat
        BY <1>1, CandidateTypes, ScoreBounded DEF B
      <3> QED BY <3>1
    <2>2. PICK m \in S : \A n \in S : m <= n
      BY <2>1, LeastNatural
    <2>3. PICK best \in C : m = B - Score(k, best, host)
      BY <2>2
    <2>4. ASSUME NEW c \in C PROVE Score(k, c, host) <= Score(k, best, host)
      <3>1. B - Score(k, best, host) <= B - Score(k, c, host)
        BY <2>2, <2>3
      <3> QED BY <1>1, <3>1, CandidateTypes
    <2> QED BY <2>4
  <1>3. PICK d \in C :
          /\ Score(k, d, host) = Score(k, best, host)
          /\ \A c \in C : Score(k, c, host) = Score(k, best, host) =>
               Cardinality(Higher(d)) <= Cardinality(Higher(c))
    <2> DEFINE T == {c \in C : Score(k, c, host) = Score(k, best, host)}
               S == {Cardinality(Higher(c)) : c \in T}
    <2>1. \A c \in T : Cardinality(Higher(c)) \in Nat
      BY FS_Subset, FS_CardinalityType
    <2> HIDE DEF Higher
    <2>2. S \in SUBSET Nat /\ S # {}
      BY <2>1
    <2>3. PICK m \in S : \A n \in S : m <= n
      BY <2>2, LeastNatural
    <2> QED BY <2>3
  <1>4. ASSUME NEW c \in C PROVE Beats(k, d, c, host)
    <2>1. /\ Score(k, c, host) \in Nat /\ Score(k, d, host) \in Nat
          /\ c[1] \in Sources /\ d[1] \in Sources
      BY CandidateTypes
    <2>2. Rank[c[1]] \in Nat /\ Rank[d[1]] \in Nat
      BY <2>1, RankAssumption
    <2>3. CASE Score(k, c, host) # Score(k, best, host)
      <3>1. Score(k, c, host) <= Score(k, d, host)
        BY <1>2, <1>3
      <3>2. Score(k, c, host) # Score(k, d, host)
        BY <1>3, <2>3
      <3> QED BY <2>1, <3>1, <3>2 DEF Beats
    <2>4. CASE Score(k, c, host) = Score(k, best, host)
      <3>1. SUFFICES ASSUME Rank[c[1]] > Rank[d[1]] PROVE FALSE
        BY <1>3, <2>2, <2>4 DEF Beats
      <3>2. Higher(c) \subseteq Higher(d) /\ c[1] \in Higher(d) /\ c[1] \notin Higher(c)
        BY <2>1, <2>2, <3>1, RankAssumption
      <3>3. Cardinality(Higher(d)) <= Cardinality(Higher(c))
        BY <1>3, <2>4
      <3>4. IsFiniteSet(Higher(d))
        BY FS_Subset
      <3> HIDE DEF Higher
      <3>5. Cardinality(Higher(c)) <= Cardinality(Higher(d)) /\ IsFiniteSet(Higher(c))
        BY <3>2, <3>4, FS_Subset
      <3>6. Cardinality(Higher(c)) = Cardinality(Higher(d))
        BY <3>3, <3>4, <3>5, FS_CardinalityType
      <3>7. Higher(c) = Higher(d)
        BY <3>2, <3>4, <3>6, FS_Subset
      <3> QED BY <3>2, <3>7
    <2> QED BY <2>3, <2>4
  <1> QED BY <1>3, <1>4 DEF Winners

\* A configuration that is not the answer can be taken away, or changed so
\* that it does not match the host, without changing the answer.
THEOREM LosersDoNotMatter ==
    ASSUME NEW k, NEW q, NEW host, NEW i \in Winners(k, host),
           \A j \in Sources :
             \/ q.certs[j] = k.certs[j]
             \/ /\ j # i
                /\ Listed(q.certs[j].names, host) = {}
                /\ Listed(q.certs[j].domains, host) = {}
    PROVE  Winners(q, host) = {i}
  <1>1. PICK c \in Candidates(k, host) :
          i = c[1] /\ \A e \in Candidates(k, host) : Beats(k, c, e, host)
    BY DEF Winners
  <1>2. \A d \in Candidates(q, host) : d \in Candidates(k, host) /\ q.certs[d[1]] = k.certs[d[1]]
    BY DEF Candidates, ByName, ByDomain
  <1>3. c \in Candidates(q, host) /\ q.certs[c[1]] = k.certs[c[1]]
    BY <1>1 DEF Candidates, ByName, ByDomain
  <1>4. ASSUME NEW d \in Candidates(q, host)
        PROVE  Score(q, d, host) = Score(k, d, host)
    BY <1>2 DEF Score, ByName
  <1>5. \A d \in Candidates(q, host) : Beats(q, c, d, host)
    BY <1>1, <1>2, <1>3, <1>4 DEF Beats
  <1>6. i \in Winners(q, host)
    BY <1>1, <1>3, <1>5 DEF Winners
  <1> QED BY <1>6, WinnerUnique

\* Names beat domains whatever their patterns: a host that matches a pattern
\* of some certificate's names, a lone star included, is found by name, or
\* because it is listed as it is -- as long as no pattern has 10_000
\* characters.
THEOREM NamesBeatDomains ==
    ASSUME NEW k, NEW host \in Hosts, NEW i \in Winners(k, host), NEW j \in Sources,
           NEW p \in Listed(k.certs[j].names, host), p \in Patterns,
           \A x \in Patterns : Literals[x] < Bonus
    PROVE  \/ Listed(k.certs[i].names, host) # {}
           \/ host \in Listed(k.certs[i].domains, host)
  <1>1. <<j, p>> \in ByName(k, host)
    BY DEF ByName
  <1> DEFINE d == <<j, p>>
  <1>2. PICK c \in Candidates(k, host) : i = c[1] /\ Score(k, c, host) >= Score(k, d, host)
    BY <1>1, WinningPattern DEF Candidates
  <1>3. Score(k, d, host) >= Bonus
    <2>1. Specificity(d[2], host) \in Nat /\ Bonus \in Nat
      BY <1>1, CandidateTypes, PatternAssumption DEF Candidates
    <2> QED BY <1>1, <2>1 DEF Score
  <1>4. CASE c \in ByName(k, host)
    BY <1>2, <1>4 DEF ByName
  <1>5. CASE c \in ByDomain(k, host) /\ c[2] = host
    BY <1>2, <1>5 DEF ByDomain
  <1>6. CASE c \notin ByName(k, host) /\ c[2] # host
    <2>1. Score(k, c, host) = Literals[c[2]] + 0
      BY <1>6 DEF Score, Specificity
    <2>2. Literals[c[2]] \in Nat /\ Literals[c[2]] < Bonus /\ Bonus \in Nat
      BY CandidateTypes, PatternAssumption
    <2>3. Score(k, d, host) \in Nat
      BY <1>1, CandidateTypes DEF Candidates
    <2> QED BY <1>2, <1>3, <2>1, <2>2, <2>3
  <1> QED BY <1>4, <1>5, <1>6 DEF Candidates

\* The certificate of a configuration with names is given only to hosts that
\* its names cover, unless the configuration also has domains.
THEOREM NamesCoverTheHost ==
    ASSUME NEW k, NEW host, NEW i \in Winners(k, host), IsNamed(k, i),
           k.certs[i].domains = NotSet
    PROVE  \E p \in k.certs[i].names : Matches(p, host)
  <1>1. PICK c \in Candidates(k, host) : i = c[1]
    BY DEF Winners
  <1>2. c \in ByName(k, host)
    BY <1>1 DEF Candidates, ByDomain, Listed
  <1> QED BY <1>1, <1>2 DEF ByName, Listed, IsNamed
=============================================================================
