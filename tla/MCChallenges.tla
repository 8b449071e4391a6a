----------------------------- MODULE MCChallenges -----------------------------
(* Instances of Challenges for TLC. *)
EXTENDS Challenges

CONSTANTS t1, t2

\* Orders that share an authorization, need two, or need none (DNS).
SharedAuths == {<<>>, <<t1>>, <<t1, t2>>}

\* Orders that share both of their authorizations, or need none.
PairAuths == {<<>>, <<t1, t2>>}
=============================================================================
