------------------------------- MODULE Scoring -------------------------------
(***************************************************************************)
(* Scoring: score_paper of modules/scoring/service.py, called by the API   *)
(* (a request has a session of its own) and by the arq task that scores    *)
(* the papers of a job one after the other in ONE session                  *)
(* (jobs/scoring.py), the job rows, and the score cache that all           *)
(* organizations share by DOI.                                             *)
(*                                                                         *)
(* score_paper commits several times and waits for the embedding service   *)
(* and the LLM in between; every step below is one such transaction.  An   *)
(* INSERT or UPDATE refused by the database leaves the session unusable    *)
(* until somebody rolls it back ("broken"): a request does when it ends,   *)
(* the job's loop never does.  A set of weights stands for the overall     *)
(* score computed with it, so a score keeps the weights it names and the   *)
(* weights its overall value was computed with.                            *)
(***************************************************************************)
EXTENDS Integers, Sequences, FiniteSets

CONSTANTS
    Papers, Orgs, OrgOf,    \* the papers and the organization of each
    Dois, DoiOf,            \* the DOI of a paper, or NONE
    Weights, Default,       \* sets of dimension weights; the equal weights
    Jobs,                   \* batch scoring jobs
    PapersOf, WeightsOf,    \* what a job scores, and its weights
    Requests,               \* POST /papers/{id}/score
    MaxTries,               \* arq: attempts at a job
    NONE                    \* no paper, no DOI, no score, no entry

Actors   == Jobs \cup Requests
Status   == {"pending", "running", "completed", "completed_with_errors"}
Terminal == {"completed", "completed_with_errors"}
Entry    == [used : Weights, know : SUBSET Orgs, live : BOOLEAN]
Score    == [src : {"llm", "cache"}, weights : Weights, used : Weights,
             know : SUBSET Orgs, recent : BOOLEAN]

ASSUME PapersAssumption ==
    /\ OrgOf \in [Papers -> Orgs] /\ DoiOf \in [Papers -> Dois \cup {NONE}]
    /\ NONE \notin Papers \cup Dois \cup Entry \cup Score
ASSUME WeightsAssumption == Default \in Weights
ASSUME JobsAssumption ==
    /\ Jobs \cap Requests = {}
    /\ WeightsOf \in [Jobs -> Weights] /\ PapersOf \in [Jobs -> Seq(Papers)]
    /\ MaxTries \in Nat \ {0}

VARIABLES
    papers,         \* papers that exist
    embedded,       \* papers.has_embedding
    latest,         \* the newest paper_scores row of a paper
    cache,          \* global_score_cache by DOI
    knowledge,      \* organizations with knowledge sources
    job,            \* scoring_jobs
    arq,            \* where the queue has the job
    tries,          \* attempts arq has made
    work,           \* the score_paper call of an actor
    batch           \* the local variables of the task of a job

tables == <<papers, embedded, latest, cache, knowledge>>
queue  == <<arq, tries>>
vars   == <<tables, job, queue, work, batch>>

Idle    == [pc |-> "idle", paper |-> NONE, partial |-> FALSE, weights |-> Default,
            used |-> Default, know |-> {}]
Fresh   == [at |-> 1, ok |-> 0, bad |-> 0, broken |-> FALSE]
NoJob   == [status |-> "pending", completed |-> 0, failed |-> 0, ended |-> FALSE]

TypeOK ==
    /\ papers \subseteq Papers /\ embedded \subseteq papers /\ knowledge \subseteq Orgs
    /\ latest \in [Papers -> Score \cup {NONE}]
    /\ cache \in [Dois -> Entry \cup {NONE}]
    /\ job \in [Jobs -> [status : Status, completed : Nat, failed : Nat, ended : BOOLEAN]]
    /\ arq \in [Jobs -> {"none", "created", "queued", "running", "done", "lost"}]
    /\ tries \in [Jobs -> 0..MaxTries]
    /\ work \in [Actors -> [pc : {"idle", "next", "embed", "context", "llm", "cached",
                                  "saved", "ack", "done"},
                            paper : Papers \cup {NONE}, partial : BOOLEAN,
                            weights : Weights, used : Weights, know : SUBSET Orgs]]
    /\ batch \in [Jobs -> [at : Nat \ {0}, ok : Nat, bad : Nat, broken : BOOLEAN]]

Init ==
    /\ papers = Papers /\ embedded \in SUBSET Papers /\ knowledge \in SUBSET Orgs
    /\ latest = [p \in Papers |-> NONE]
    /\ cache = [d \in Dois |-> NONE]
    /\ job = [j \in Jobs |-> NoJob]
    /\ arq = [j \in Jobs |-> "none"] /\ tries = [j \in Jobs |-> 0]
    /\ work = [a \in Actors |-> Idle]
    /\ batch = [j \in Jobs |-> Fresh]

-----------------------------------------------------------------------------
(* The API creates a job: the row is committed, then the task enqueued. *)

CreateJob(j) ==
    /\ arq[j] = "none"
    /\ arq' = [arq EXCEPT ![j] = "created"]
    /\ job' = [job EXCEPT ![j] = NoJob]
    /\ UNCHANGED <<tables, tries, work, batch>>

EnqueueJob(j) ==
    /\ arq[j] = "created"
    /\ arq' = [arq EXCEPT ![j] = "queued"]
    /\ UNCHANGED <<tables, job, tries, work, batch>>

\* enqueue_job raises: the row is committed and stays
EnqueueFails(j) ==
    /\ arq[j] = "created"
    /\ arq' = [arq EXCEPT ![j] = "lost"]
    /\ UNCHANGED <<tables, job, tries, work, batch>>

-----------------------------------------------------------------------------
(* update_job_status: completed_at is set only for "completed" (and "failed"). *)

SetStatus(j, status) ==
    job' = [job EXCEPT ![j].status = status,
                       ![j].ended = @ \/ status = "completed"]

SetCounts(j, status) ==
    job' = [job EXCEPT ![j] = [status |-> status, completed |-> batch[j].ok,
                               failed |-> batch[j].bad,
                               ended |-> @.ended \/ status = "completed"]]

\* score_paper of a is at an end, with an exception that may have broken the session
Raise(a, breaks) ==
    IF a \in Jobs
    THEN /\ work' = [work EXCEPT ![a] = [Idle EXCEPT !.pc = "next"]]
         /\ batch' = [batch EXCEPT ![a].bad = @ + 1, ![a].at = @ + 1,
                                   ![a].broken = @ \/ breaks]
    ELSE /\ work' = [work EXCEPT ![a] = [Idle EXCEPT !.pc = "done"]]
         /\ UNCHANGED batch

-----------------------------------------------------------------------------
(* The task: one attempt of arq at a job. *)

\* Mutant: a later attempt goes on counting where the first one stopped.
StartTaskKeepsCounts(j) ==
    /\ arq[j] = "queued"
    /\ arq' = [arq EXCEPT ![j] = "running"]
    /\ tries' = [tries EXCEPT ![j] = @ + 1]
    /\ SetStatus(j, "running")
    /\ work' = [work EXCEPT ![j] = [Idle EXCEPT !.pc = "next"]]
    /\ batch' = [batch EXCEPT ![j].at = 1, ![j].broken = FALSE]
    /\ UNCHANGED tables

StartTask(j) ==
    /\ arq[j] = "queued"
    /\ arq' = [arq EXCEPT ![j] = "running"]
    /\ tries' = [tries EXCEPT ![j] = @ + 1]
    /\ SetStatus(j, "running")
    /\ work' = [work EXCEPT ![j] = [Idle EXCEPT !.pc = "next"]]
    /\ batch' = [batch EXCEPT ![j] = Fresh]
    /\ UNCHANGED tables

Remaining(j) == work[j].pc = "next" /\ batch[j].at <= Len(PapersOf[j])

NextPc(p) == IF p \in embedded THEN "context" ELSE "embed"

\* jobs always pass force_rescore: neither a recent score nor the cache is used
StartPaper(j) ==
    LET p == PapersOf[j][batch[j].at]
    IN  /\ Remaining(j) /\ p \in papers /\ ~batch[j].broken
        /\ work' = [work EXCEPT ![j] = [Idle EXCEPT !.pc = NextPc(p), !.paper = p,
                                                    !.weights = WeightsOf[j]]]
        /\ UNCHANGED <<tables, job, queue, batch>>

\* NotFoundError, or the session refuses every statement
PaperFails(j) ==
    /\ Remaining(j) /\ (PapersOf[j][batch[j].at] \notin papers \/ batch[j].broken)
    /\ Raise(j, FALSE)
    /\ UNCHANGED <<tables, job, queue>>

Progress(j) ==
    /\ work[j].pc = "saved"
    /\ batch' = [batch EXCEPT ![j].ok = @ + 1, ![j].at = @ + 1]
    /\ job' = [job EXCEPT ![j].status = "running", ![j].completed = batch[j].ok + 1,
                          ![j].failed = batch[j].bad]
    /\ work' = [work EXCEPT ![j] = [Idle EXCEPT !.pc = "next"]]
    /\ UNCHANGED <<tables, queue>>

\* the paper is counted before its progress is committed; when that raises, in the database
\* or for want of a connection, the except clause counts it again, as failed
ProgressRaises(j) ==
    /\ work[j].pc = "saved"
    /\ \E breaks \in BOOLEAN :
          batch' = [batch EXCEPT ![j].ok = @ + 1, ![j].bad = @ + 1, ![j].at = @ + 1,
                                 ![j].broken = @ \/ breaks]
    /\ work' = [work EXCEPT ![j] = [Idle EXCEPT !.pc = "next"]]
    /\ UNCHANGED <<tables, job, queue>>

\* Mutant: failed papers do not show in the final status.
FinishAlwaysCompleted(j) ==
    /\ work[j].pc = "next" /\ batch[j].at > Len(PapersOf[j]) /\ ~batch[j].broken
    /\ SetCounts(j, "completed")
    /\ work' = [work EXCEPT ![j] = [Idle EXCEPT !.pc = "ack"]]
    /\ UNCHANGED <<tables, queue, batch>>

\* Mutant: only a job without failures gets a final status.
FinishOnlyClean(j) ==
    /\ work[j].pc = "next" /\ batch[j].at > Len(PapersOf[j]) /\ ~batch[j].broken
    /\ SetCounts(j, IF batch[j].bad = 0 THEN "completed" ELSE "running")
    /\ work' = [work EXCEPT ![j] = [Idle EXCEPT !.pc = "ack"]]
    /\ UNCHANGED <<tables, queue, batch>>

Finish(j) ==
    /\ work[j].pc = "next" /\ batch[j].at > Len(PapersOf[j]) /\ ~batch[j].broken
    /\ SetCounts(j, IF batch[j].bad = 0 THEN "completed" ELSE "completed_with_errors")
    /\ work' = [work EXCEPT ![j] = [Idle EXCEPT !.pc = "ack"]]
    /\ UNCHANGED <<tables, queue, batch>>

\* the last update_job_status raises, get_db_session rolls back, arq records a failure
FinishFails(j) ==
    /\ work[j].pc = "next" /\ batch[j].at > Len(PapersOf[j]) /\ batch[j].broken
    /\ work' = [work EXCEPT ![j] = [Idle EXCEPT !.pc = "ack"]]
    /\ UNCHANGED <<tables, job, queue, batch>>

Ack(j) ==
    /\ work[j].pc = "ack"
    /\ arq' = [arq EXCEPT ![j] = "done"]
    /\ work' = [work EXCEPT ![j] = Idle]
    /\ UNCHANGED <<tables, job, tries, batch>>

\* arq cancels a job after job_timeout and does not try it again, nor one whose last
\* update_job_status raises
TimeOut(j) ==
    /\ arq[j] = "running" /\ work[j].pc # "ack"
    /\ arq' = [arq EXCEPT ![j] = "lost"]
    /\ work' = [work EXCEPT ![j] = Idle]
    /\ UNCHANGED <<tables, job, tries, batch>>

\* Mutant: every crash puts the job back.
CrashRequeues(j) ==
    /\ arq[j] = "running"
    /\ arq' = [arq EXCEPT ![j] = "queued"]
    /\ work' = [work EXCEPT ![j] = Idle]
    /\ UNCHANGED <<tables, job, tries, batch>>

Crash(j) ==
    /\ arq[j] = "running"
    /\ arq' = [arq EXCEPT ![j] = IF tries[j] < MaxTries THEN "queued" ELSE "lost"]
    /\ work' = [work EXCEPT ![j] = Idle]
    /\ UNCHANGED <<tables, job, tries, batch>>

-----------------------------------------------------------------------------
(* score_paper *)

Cached(p) == IF DoiOf[p] = NONE THEN NONE ELSE cache[DoiOf[p]]
Hit(p)    == Cached(p) # NONE /\ Cached(p).live
Recent(p) == latest[p] # NONE /\ latest[p].recent

\* the answer is a score of the last 24 hours, whatever weights it was asked with
ReturnRecent(r) ==
    /\ work[r].pc = "idle"
    /\ \E p \in papers : Recent(p)
    /\ work' = [work EXCEPT ![r] = [Idle EXCEPT !.pc = "done"]]
    /\ UNCHANGED <<tables, job, queue, batch>>

StartFromCache(r) ==
    /\ work[r].pc = "idle"
    /\ \E p \in papers, w \in Weights :
          /\ ~Recent(p) /\ Hit(p)
          /\ work' = [work EXCEPT ![r] =
                [Idle EXCEPT !.pc = "cached", !.paper = p, !.weights = w, !.know = Cached(p).know,
                             !.used = IF w # Default THEN w ELSE Cached(p).used]]
    /\ UNCHANGED <<tables, job, queue, batch>>

StartRequest(r) ==
    /\ work[r].pc = "idle"
    /\ \E p \in papers, w \in Weights, partial, force \in BOOLEAN :
          /\ force \/ (~Recent(p) /\ (partial \/ ~Hit(p)))
          /\ work' = [work EXCEPT ![r] = [Idle EXCEPT !.pc = NextPc(p), !.paper = p,
                                                      !.weights = w, !.partial = partial]]
    /\ UNCHANGED <<tables, job, queue, batch>>

\* the UPDATE of a paper deleted meanwhile matches no row
Embed(a) ==
    LET p == work[a].paper
    IN  /\ work[a].pc = "embed"
        /\ IF p \in papers
           THEN /\ embedded' = embedded \cup {p}
                /\ work' = [work EXCEPT ![a].pc = "context"]
                /\ UNCHANGED batch
           ELSE Raise(a, TRUE) /\ UNCHANGED embedded
        /\ UNCHANGED <<papers, latest, cache, knowledge, job, queue>>

\* the embedding service fails, no LLM client can be built, or the paper cannot be read
\* again; a dimension the LLM fails on gets a neutral score (orchestrator.py, 219-230)
ServiceFails(a) ==
    /\ work[a].pc \in {"embed", "context", "llm"}
    /\ Raise(a, FALSE)
    /\ UNCHANGED <<tables, job, queue>>

BuildContext(a) ==
    LET o == OrgOf[work[a].paper]
    IN  /\ work[a].pc = "context"
        /\ work' = [work EXCEPT ![a].pc = "llm", ![a].know = knowledge \cap {o},
                                ![a].used = work[a].weights]
        /\ UNCHANGED <<tables, job, queue, batch>>

\* Mutant: knowledge of the organization does not keep a score out of the cache.
WriteCacheAlways(a) ==
    LET p == work[a].paper
    IN  cache' = IF DoiOf[p] = NONE \/ work[a].partial THEN cache
                 ELSE [cache EXCEPT ![DoiOf[p]] =
                          [used |-> work[a].used, know |-> work[a].know, live |-> TRUE]]

\* _write_global_cache: only flushed, it is committed with the score
WriteCache(a) ==
    LET p == work[a].paper
    IN  cache' = IF DoiOf[p] = NONE \/ work[a].partial \/ work[a].know # {} THEN cache
                 ELSE [cache EXCEPT ![DoiOf[p]] =
                          [used |-> work[a].used, know |-> work[a].know, live |-> TRUE]]

\* the commit of a new score; a paper deleted meanwhile refuses it
Save(a, src) ==
    LET p == work[a].paper
    IN  IF p \in papers
        THEN /\ latest' = [latest EXCEPT ![p] =
                    [src |-> src, weights |-> work[a].weights, used |-> work[a].used,
                     know |-> work[a].know, recent |-> TRUE]]
             /\ work' = [work EXCEPT ![a].pc = "saved"]
             /\ UNCHANGED batch
        ELSE Raise(a, TRUE) /\ UNCHANGED latest

\* Mutant: the cache entry is committed on its own, before the score.
SaveScoreAfterCache(a) ==
    /\ work[a].pc = "llm"
    /\ Save(a, "llm")
    /\ WriteCache(a)
    /\ UNCHANGED <<papers, embedded, knowledge, job, queue>>

SaveScore(a) ==
    /\ work[a].pc = "llm"
    /\ Save(a, "llm")
    /\ IF work[a].paper \in papers THEN WriteCache(a) ELSE UNCHANGED cache
    /\ UNCHANGED <<papers, embedded, knowledge, job, queue>>

SaveFromCache(r) ==
    /\ work[r].pc = "cached"
    /\ Save(r, "cache")
    /\ UNCHANGED <<papers, embedded, cache, knowledge, job, queue>>

\* the new row is gone before it is refreshed
ScoreVanishes(a) ==
    /\ work[a].pc = "saved" /\ work[a].paper \notin papers
    /\ Raise(a, FALSE)
    /\ UNCHANGED <<tables, job, queue>>

\* the score is committed; reading it back or logging the usage fails
AfterSaveFails(a) ==
    /\ work[a].pc = "saved"
    /\ \E breaks \in BOOLEAN : Raise(a, breaks)
    /\ UNCHANGED <<tables, job, queue>>

Answer(r) ==
    /\ work[r].pc = "saved"
    /\ work' = [work EXCEPT ![r] = [Idle EXCEPT !.pc = "done"]]
    /\ UNCHANGED <<tables, job, queue, batch>>

-----------------------------------------------------------------------------
(* What happens around the calls. *)

DeletePaper(p) ==
    /\ p \in papers
    /\ papers' = papers \ {p} /\ embedded' = embedded \ {p}
    /\ latest' = [latest EXCEPT ![p] = NONE]
    /\ UNCHANGED <<cache, knowledge, job, queue, work, batch>>

ChangeKnowledge(o) ==
    /\ knowledge' = IF o \in knowledge THEN knowledge \ {o} ELSE knowledge \cup {o}
    /\ UNCHANGED <<papers, embedded, latest, cache, job, queue, work, batch>>

DayPasses(p) ==
    /\ Recent(p)
    /\ latest' = [latest EXCEPT ![p].recent = FALSE]
    /\ UNCHANGED <<papers, embedded, cache, knowledge, job, queue, work, batch>>

EntryExpires(d) ==
    /\ cache[d] # NONE /\ cache[d].live
    /\ cache' = [cache EXCEPT ![d].live = FALSE]
    /\ UNCHANGED <<papers, embedded, latest, knowledge, job, queue, work, batch>>

Expired(d) == cache[d] # NONE /\ ~cache[d].live

CleanUp ==
    /\ \E d \in Dois : Expired(d)
    /\ cache' = [d \in Dois |-> IF Expired(d) THEN NONE ELSE cache[d]]
    /\ UNCHANGED <<papers, embedded, latest, knowledge, job, queue, work, batch>>

-----------------------------------------------------------------------------
ScoreStep(a) == Embed(a) \/ BuildContext(a) \/ SaveScore(a) \/ ScoreVanishes(a)

TaskStep(j) ==
    \/ StartTask(j) \/ StartPaper(j) \/ PaperFails(j) \/ Progress(j)
    \/ Finish(j) \/ FinishFails(j) \/ Ack(j) \/ ScoreStep(j)

RequestStep(r) ==
    \/ ReturnRecent(r) \/ StartFromCache(r) \/ StartRequest(r) \/ SaveFromCache(r)
    \/ Answer(r) \/ ScoreStep(r)

Environment ==
    \/ \E j \in Jobs : CreateJob(j) \/ EnqueueFails(j) \/ TimeOut(j) \/ Crash(j)
                    \/ ProgressRaises(j)
    \/ \E a \in Actors : ServiceFails(a) \/ AfterSaveFails(a)
    \/ \E p \in Papers : DeletePaper(p) \/ DayPasses(p)
    \/ \E o \in Orgs : ChangeKnowledge(o)
    \/ \E d \in Dois : EntryExpires(d)
    \/ CleanUp

Next ==
    \/ \E j \in Jobs : EnqueueJob(j) \/ TaskStep(j)
    \/ \E r \in Requests : RequestStep(r)
    \/ Environment

Spec == Init /\ [][Next]_vars

\* arq's worker keeps running the jobs it has accepted
FairSpec == Spec /\ \A j \in Jobs : WF_vars(TaskStep(j))

-----------------------------------------------------------------------------
(* A job that ended as "completed" left a score on every paper it was      *)
(* given and that still exists, whoever deleted papers, whatever services  *)
(* failed and however often arq ran the job (jobs/scoring.py, 90-116).     *)
CompletedIsScored ==
    \A j \in Jobs : job[j].status = "completed" =>
        \A i \in 1..Len(PapersOf[j]) : PapersOf[j][i] \in papers => latest[PapersOf[j][i]] # NONE

(* The counters of a job that ended account for every paper, and completed *)
(* means none failed.  They may exceed the papers: one whose progress      *)
(* could not be committed counts as completed and as failed                *)
(* (jobs/scoring.py, 98-107), but none counts twice as either.             *)
CountsAddUp ==
    \A j \in Jobs : job[j].status \in Terminal =>
        /\ job[j].completed <= Len(PapersOf[j]) /\ job[j].failed <= Len(PapersOf[j])
        /\ Len(PapersOf[j]) <= job[j].completed + job[j].failed
        /\ job[j].status = "completed" <=> job[j].failed = 0

(* "those scores are org-specific and must not pollute the cross-tenant    *)
(* cache" (modules/scoring/service.py, 167-168): the knowledge of an       *)
(* organization enters the scores of its own papers only, whoever scored   *)
(* the same DOI first and however knowledge changes during a call.         *)
KnowledgeStaysHome ==
    \A p \in Papers : latest[p] # NONE => latest[p].know \subseteq {OrgOf[p]}

(* "before _save_score so commit is atomic" (modules/scoring/service.py,   *)
(* 166): a cache entry is committed in a step that commits the score of a  *)
(* paper with that DOI and that overall value, never for a refused score.  *)
CacheCommitsWithScore ==
    [][\A d \in Dois : cache'[d] # cache[d] /\ cache'[d] # NONE /\ cache'[d].live =>
          \E p \in papers' : /\ DoiOf[p] = d /\ latest'[p] # NONE
                             /\ latest'[p].src = "llm" /\ latest'[p].used = cache'[d].used]_vars

(* Scoring implements ScoreBoard: the page of a job (modules/scoring/      *)
(* router.py, jobs/scoring.py) changes only by another attempt, by one     *)
(* more paper that has its score, or by a final status whose counters      *)
(* account for every paper, whoever else scores or deletes its papers,     *)
(* whatever fails and however often arq runs it.                           *)
Board == INSTANCE ScoreBoard WITH scored <- {p \in Papers : latest[p] # NONE}

BoardIsTrue == Board!Spec

(* A job the queue accepted ends with one of the two final statuses,       *)
(* unless its session broke in its last attempt or arq gave it up          *)
(* (jobs/scoring.py, 109-116): failing papers alone never leave it open.   *)
JobEnds ==
    \A j \in Jobs : (arq[j] = "queued") ~>
        (job[j].status \in Terminal \/ batch[j].broken \/ arq[j] = "lost")
==============================================================================
