---------------------------- MODULE MCPaperUpsert ----------------------------
(* Instances of PaperUpsert for TLC. *)
EXTENDS PaperUpsert, TLC

CONSTANTS d1, x1, t1, t2, u1, openalex, manual, k1, k2, z1, zk1

\* x1 is d1 spelled with its prefix, u1 is t1 with odd white space
Spelling == (d1 :> d1) @@ (x1 :> d1)
Tidy     == (t1 :> t1) @@ (t2 :> t2) @@ (u1 :> t1)

Record(doi, key, title, year) ==
    [doi |-> doi, source |-> openalex, key |-> key, sid |-> key, title |-> title, year |-> year]
Item(doi, title) ==
    [doi |-> doi, source |-> manual, key |-> z1, sid |-> zk1, title |-> title, year |-> NONE]

\* a record, the same record with another title, another of the same DOI,
\* the same without it, an item
Mixed  == {Record(x1, k1, t1, 1), Record(NONE, k1, t2, NONE), Record(d1, k2, t2, NONE),
           Record(NONE, k2, t1, 1), Item(NONE, t1)}
\* a submission without and one with a DOI, an import by DOI
Submission(doi, key, title) ==
    [doi |-> doi, source |-> manual, sid |-> key, title |-> title, year |-> NONE]
Others == {Submission(NONE, k2, t1), Submission(x1, k1, u1),
           [doi |-> d1, source |-> openalex, sid |-> k2, title |-> t2, year |-> 1]}

IdSymmetry == Permutations(Ids)
==============================================================================
