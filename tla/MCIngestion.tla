---------------------------- MODULE MCIngestion ----------------------------
(* Instances of Ingestion for TLC. *)
EXTENDS Ingestion, TLC

CONSTANTS
    a1, a2, s1, s2,             \* runs
    web, lab,                   \* scopes
    r1, r2, r3, r4, r5, r6,     \* records
    p1, p2, p3, p4,             \* papers
    w1, w2, w3                  \* works

\* Two scopes publish one record (r1), two papers in opposite orders, so that their runs
\* wait for each other's papers, and a work under two identifiers (r5, r6).
CrossScopeOf == (a1 :> web) @@ (s1 :> lab)
CrossFeed    == (web :> <<r1, r2, r5>>) @@ (lab :> <<r3, r4, r6, r1>>)
CrossPaperOf == (r1 :> p1) @@ (r2 :> p2) @@ (r3 :> p2) @@ (r4 :> p1) @@ (r5 :> p3) @@ (r6 :> p4)
CrossWorkOf  == (p1 :> w1) @@ (p2 :> w2) @@ (p3 :> w3) @@ (p4 :> w3)

\* One scope fed in batches of two: a record published twice, one the
\* normalizer rejects, one the resolver rejects, and a sync job that is
\* delivered again after its run was committed.
BatchScopeOf == [r \in Runs |-> web]
BatchFeed    == (web :> <<r1, r1, r2, r3, r4>>)
BatchPaperOf == (r1 :> p1) @@ (r2 :> p2) @@ (r3 :> p2) @@ (r4 :> p3)
BatchWorkOf  == (p1 :> w1) @@ (p2 :> w2) @@ (p3 :> w3)
SyncSymmetry == Permutations({s1, s2})
=============================================================================
