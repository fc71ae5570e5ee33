----------------------------- MODULE MCGroupSync -----------------------------
(* Instances of GroupSync for TLC. *)
EXTENDS GroupSync, TLC

CONSTANTS g1, g2, q1, q2, j1, j2, j3, p1, p2, p3

AllPublished    == [g \in Groups |-> Papers]
SharedPublished == (g1 :> {p1, p2}) @@ (g2 :> {p2, p3})

\* Every group lists every paper, so papers, requests and jobs have no identity.
SyncSymmetry ==
    Permutations(Papers) \cup Permutations(Requests) \cup Permutations(Jobs)
==============================================================================
