------------------------------- MODULE ScoreBoard -------------------------------
(***************************************************************************)
(* What the row of a scoring job promises to a client that polls it        *)
(* (GET /scoring/jobs/{id}, modules/scoring/models.py), without sessions,  *)
(* a queue, score_paper or crashes.  The job runs at most MaxTries times;  *)
(* in an attempt the papers that are done count up, each shown only when   *)
(* it has its score, and the last step tells how many failed.  A paper may *)
(* count as completed and as failed, but none is left out.  Scoring        *)
(* (Board) implements it.                                                  *)
(***************************************************************************)
EXTENDS Integers, Sequences

CONSTANTS Papers, Jobs, PapersOf, MaxTries

VARIABLES
    job,        \* status and counters
    tries,      \* attempts at a job
    papers,     \* papers that exist
    scored      \* papers with a score

vars == <<job, tries, papers, scored>>

Init ==
    /\ job = [j \in Jobs |-> [status |-> "pending", completed |-> 0, failed |-> 0,
                              ended |-> FALSE]]
    /\ tries = [j \in Jobs |-> 0]
    /\ papers = Papers /\ scored = {}

Size(j) == Len(PapersOf[j])

\* the i-th paper of a job has a score, unless it was deleted
Done(j, i) == PapersOf[j][i] \in papers => PapersOf[j][i] \in scored

\* An attempt leaves the counters of the one before it on the page.
Attempt(j) ==
    /\ tries[j] < MaxTries
    /\ tries' = [tries EXCEPT ![j] = @ + 1]
    /\ job' = [job EXCEPT ![j].status = "running"]
    /\ UNCHANGED <<papers, scored>>

\* An attempt counts from zero, while the page still shows the one before it.
From(j) == {[c |-> 0, f |-> 0], [c |-> job[j].completed, f |-> job[j].failed]}

\* One more paper, the i-th, is completed.  What was completed before and is not on the page
\* yet could not be written, and so counts as failed too.
Advance(j) ==
    /\ job[j].status = "running"
    /\ \E b \in From(j), c, i \in 1..Size(j), f \in 0..Size(j) :
         /\ b.c < c /\ c - 1 - b.c <= f - b.f
         /\ c <= i /\ f < i /\ i <= c + f /\ Done(j, i)
         /\ job' = [job EXCEPT ![j].completed = c, ![j].failed = f]
    /\ UNCHANGED <<tries, papers, scored>>

\* Every paper is counted, as completed, as failed or as both.
Finish(j) ==
    /\ job[j].status = "running"
    /\ \E b \in From(j), c, f \in 0..Size(j) :
         /\ b.c <= c /\ c - b.c <= f - b.f
         /\ Size(j) <= c + f
         /\ f = 0 => \A i \in 1..Size(j) : Done(j, i)
         /\ job' = [job EXCEPT ![j] =
               [status |-> IF f = 0 THEN "completed" ELSE "completed_with_errors",
                completed |-> c, failed |-> f, ended |-> job[j].ended \/ f = 0]]
    /\ UNCHANGED <<tries, papers, scored>>

Score(p) ==
    /\ p \in papers
    /\ scored' = scored \cup {p}
    /\ UNCHANGED <<job, tries, papers>>

Delete(p) ==
    /\ p \in papers
    /\ papers' = papers \ {p} /\ scored' = scored \ {p}
    /\ UNCHANGED <<job, tries>>

Next ==
    \/ \E j \in Jobs : Attempt(j) \/ Advance(j) \/ Finish(j)
    \/ \E p \in Papers : Score(p) \/ Delete(p)

Spec == Init /\ [][Next]_vars
=================================================================================
