------------------------------ MODULE MCScoring ------------------------------
(* Instances of Scoring for TLC. *)
EXTENDS Scoring, TLC

CONSTANTS p1, p2, o1, o2, d1, w1, j1, q1, q2

\* a job over a paper with a DOI and one without
OneOrg   == (p1 :> o1) @@ (p2 :> o1)
OneDoi   == (p1 :> d1) @@ (p2 :> NONE)
OneBatch == (j1 :> <<p1, p2>>)
Weighted == (j1 :> w1)

\* the same DOI in two organizations; no job
TwoOrgs  == (p1 :> o1) @@ (p2 :> o2)
SameDoi  == (p1 :> d1) @@ (p2 :> d1)
NoBatch  == <<>>

RequestSymmetry == Permutations(Requests)
==============================================================================
