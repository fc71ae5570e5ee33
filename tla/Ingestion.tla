------------------------------ MODULE Ingestion ------------------------------
(***************************************************************************)
(* Source ingestion of paperscraper: the API handler that queues a run     *)
(* (modules/ingestion/router.py), the arq jobs that execute it             *)
(* (jobs/ingestion.py, jobs/repository_sync.py) and the pipeline they      *)
(* share (modules/ingestion/pipeline.py, modules/ingestion/service.py).    *)
(*                                                                         *)
(* One job is one database transaction: every service call only flushes,   *)
(* and get_db_session (core/database.py) commits when the task returns and *)
(* rolls back when it raises.  The variables run, srcrec, papers and       *)
(* checkpoint are the committed tables.  The variables indexed by Runs     *)
(* from pc on are the state of the session that executes the run.          *)
(* PostgreSQL runs at READ COMMITTED: a statement sees what is committed   *)
(* when it starts, and an insert whose unique key another open transaction *)
(* has inserted waits for that transaction to end.                         *)
(***************************************************************************)
EXTENDS Integers, Sequences, FiniteSets

CONSTANTS
    ApiRuns,        \* runs created by POST /ingestion/sources/.../runs
    SyncRuns,       \* runs created inside a repository sync job
    Scopes,         \* (source, organization and filter digest) pairs
    ScopeOf,        \* the scope a run ingests
    Records,        \* (source, source_record_id, content_hash) keys
    Feed,           \* what the source of a scope publishes, in order
    Papers,         \* rows of papers, by their unique keys: a DOI, or a source and its id
    PaperOf,        \* the row the upsert inserts for a record
    Works,          \* titles with their years, which the upsert looks up and nothing makes unique
    WorkOf,         \* the work a row is about
    Malformed,      \* records DefaultPaperNormalizer raises on
    Unresolvable,   \* records on which the resolver raises without SQL
    Poison,         \* records whose paper row PostgreSQL refuses
    Limit,          \* max_results: records fetched by one run
    MaxCrashes,     \* bound: worker crashes in a behaviour
    NONE            \* no checkpoint row, no source record row, no paper

Runs == ApiRuns \cup SyncRuns
Resolution == {"created", "matched", "failed"}
SourceRecord == [by : Runs, outcome : Resolution, paper : Papers \cup {NONE}]

ASSUME RunsAssumption == ApiRuns \cap SyncRuns = {}
ASSUME ScopeAssumption == ScopeOf \in [Runs -> Scopes]
ASSUME FeedAssumption == Feed \in [Scopes -> Seq(Records)]
ASSUME PaperAssumption == PaperOf \in [Records -> Papers]
ASSUME WorkAssumption == WorkOf \in [Papers -> Works]
ASSUME LimitAssumption == Limit \in Nat \ {0}
ASSUME CrashAssumption == MaxCrashes \in Nat
ASSUME NoneAssumption == NONE \notin Nat \cup Papers \cup SourceRecord

VARIABLES
    run,            \* ingest_runs.status; "absent": no row
    srcrec,         \* source_records: NONE or who wrote it, its resolution, paper_id
    papers,         \* papers of the organization
    gone,           \* history: papers that were deleted
    checkpoint,     \* ingest_checkpoints.cursor_json; NONE: no row
    job,            \* the run's job in the arq queue
    api,            \* the API handler that creates the run
    crashes,        \* worker crashes so far
    pc,             \* where the session executing the run stands
    base,           \* cursor_before, as an offset into the feed
    hadCheckpoint,  \* the checkpoint row was loaded when the job began
    upto,           \* cursor_after of the fetched batch
    pos,            \* next feed position to persist, then to resolve
    ins,            \* source records this transaction has inserted
    bulk,           \* resolve_many, or the single-record fallback
    seen,           \* papers the last prefetch found
    lost,           \* those the session still knows and that are deleted
    made,           \* papers this transaction has inserted
    res,            \* resolution of the records of this transaction
    link            \* their papers

tables  == <<run, srcrec, papers, gone, checkpoint>>
cursor  == <<base, hadCheckpoint, upto>>
found   == <<seen, lost>>
told    == <<res, link>>
session == <<pc, cursor, pos, ins, bulk, found, made, told>>
vars    == <<tables, job, api, crashes, session>>

Succeeded  == {"completed", "completed_with_errors"}
Finished   == Succeeded \cup {"failed"}
InTx       == {"fetching", "persisting", "lookup", "resolving", "inserting", "updating",
               "completing", "failing"}
Steps      == {"idle", "opened", "checked", "committed"} \cup InTx

TypeOK ==
    /\ run \in [Runs -> {"absent", "queued"} \cup Finished]
    /\ srcrec \in [Records -> {NONE} \cup SourceRecord]
    /\ papers \subseteq Papers /\ gone \subseteq Papers
    /\ checkpoint \in [Scopes -> Nat \cup {NONE}]
    /\ job \in [Runs -> {"none", "queued", "running", "done"}]
    /\ api \in [Runs -> {"idle", "enqueueing", "done"}]
    /\ crashes \in 0..MaxCrashes
    /\ pc \in [Runs -> Steps]
    /\ base \in [Runs -> Nat]
    /\ hadCheckpoint \in [Runs -> BOOLEAN]
    /\ upto \in [Runs -> Nat]
    /\ pos \in [Runs -> Nat]
    /\ ins \in [Runs -> SUBSET Records]
    /\ bulk \in [Runs -> BOOLEAN]
    /\ seen \in [Runs -> SUBSET Papers] /\ lost \in [Runs -> SUBSET Papers]
    /\ made \in [Runs -> SUBSET Papers]
    /\ res \in [Runs -> [Records -> Resolution \cup {"none"}]]
    /\ link \in [Runs -> [Records -> Papers \cup {NONE}]]

Init ==
    /\ run = [r \in Runs |-> "absent"]
    /\ srcrec = [x \in Records |-> NONE]
    /\ papers = {} /\ gone = {}
    /\ checkpoint = [s \in Scopes |-> NONE]
    /\ job = [r \in Runs |-> "none"]
    /\ api = [r \in Runs |-> "idle"]
    /\ crashes = 0
    /\ pc = [r \in Runs |-> "idle"]
    /\ base = [r \in Runs |-> 0]
    /\ hadCheckpoint = [r \in Runs |-> FALSE]
    /\ upto = [r \in Runs |-> 0]
    /\ pos = [r \in Runs |-> 0]
    /\ ins = [r \in Runs |-> {}]
    /\ bulk = [r \in Runs |-> TRUE]
    /\ seen = [r \in Runs |-> {}] /\ lost = [r \in Runs |-> {}]
    /\ made = [r \in Runs |-> {}]
    /\ res = [r \in Runs |-> [x \in Records |-> "none"]]
    /\ link = [r \in Runs |-> [x \in Records |-> NONE]]

-----------------------------------------------------------------------------
(* The session of a run: where it reads, and how it ends.                  *)

FeedOf(r) == Feed[ScopeOf[r]]
Current(r) == FeedOf(r)[pos[r]]

\* The session is closed: its uncommitted work is gone.
CloseSession(r) ==
    /\ pc' = [pc EXCEPT ![r] = "idle"]
    /\ base' = [base EXCEPT ![r] = 0]
    /\ hadCheckpoint' = [hadCheckpoint EXCEPT ![r] = FALSE]
    /\ upto' = [upto EXCEPT ![r] = 0]
    /\ pos' = [pos EXCEPT ![r] = 0]
    /\ ins' = [ins EXCEPT ![r] = {}]
    /\ bulk' = [bulk EXCEPT ![r] = TRUE]
    /\ seen' = [seen EXCEPT ![r] = {}]
    /\ lost' = [lost EXCEPT ![r] = {}]
    /\ made' = [made EXCEPT ![r] = {}]
    /\ res' = [res EXCEPT ![r] = [x \in Records |-> "none"]]
    /\ link' = [link EXCEPT ![r] = [x \in Records |-> NONE]]

\* The task raises: get_db_session rolls back, arq does not retry the job.
Abandon(r) ==
    /\ CloseSession(r)
    /\ job' = [job EXCEPT ![r] = "done"]
    /\ UNCHANGED <<tables, api, crashes>>

-----------------------------------------------------------------------------
(* POST /ingestion/sources/.../runs: _enqueue_ingestion_job.               *)

\* create_run(QUEUED), committed before the job is enqueued.
CreateQueuedRun(r) ==
    /\ r \in ApiRuns
    /\ api[r] = "idle"
    /\ run' = [run EXCEPT ![r] = "queued"]
    /\ api' = [api EXCEPT ![r] = "enqueueing"]
    /\ UNCHANGED <<srcrec, papers, gone, checkpoint, job, crashes, session>>

\* Redis accepts the job.
EnqueueJob(r) ==
    /\ api[r] = "enqueueing"
    /\ job[r] = "none"
    /\ job' = [job EXCEPT ![r] = "queued"]
    /\ UNCHANGED <<tables, api, crashes, session>>

\* enqueue_job returns and the handler answers 202.
EnqueueReturns(r) ==
    /\ api[r] = "enqueueing"
    /\ job[r] # "none"
    /\ api' = [api EXCEPT ![r] = "done"]
    /\ UNCHANGED <<tables, job, crashes, session>>

\* enqueue_job raises, before Redis took the job or after it did (the answer
\* is lost): complete_run(FAILED), which waits for the row lock of a worker.
EnqueueRaises(r) ==
    /\ api[r] = "enqueueing"
    /\ pc[r] \notin InTx
    /\ run' = [run EXCEPT ![r] = "failed"]
    /\ api' = [api EXCEPT ![r] = "done"]
    /\ UNCHANGED <<srcrec, papers, gone, checkpoint, job, crashes, session>>

\* run_scheduled_syncs_task enqueues sync_repository_source_task.
EnqueueSync(r) ==
    /\ r \in SyncRuns
    /\ job[r] = "none"
    /\ job' = [job EXCEPT ![r] = "queued"]
    /\ UNCHANGED <<tables, api, crashes, session>>

-----------------------------------------------------------------------------
(* The job: IngestionPipeline.run.                                         *)

\* The worker takes the job; get_checkpoint reads the cursor of the scope.
\* A sync job has no run yet and creates it, RUNNING, in its transaction.
StartJob(r) ==
    /\ job[r] = "queued"
    /\ LET c == checkpoint[ScopeOf[r]] IN
        /\ base' = [base EXCEPT ![r] = IF c = NONE THEN 0 ELSE c]
        /\ hadCheckpoint' = [hadCheckpoint EXCEPT ![r] = c # NONE]
    /\ job' = [job EXCEPT ![r] = "running"]
    /\ pc' = [pc EXCEPT ![r] = IF r \in ApiRuns THEN "opened" ELSE "fetching"]
    /\ UNCHANGED <<tables, api, crashes, upto, pos, ins, bulk, found, made, told>>

\* sync_repository_source_task returns early: the source is gone or inactive.
SkipSync(r) ==
    /\ r \in SyncRuns
    /\ job[r] = "queued"
    /\ job' = [job EXCEPT ![r] = "done"]
    /\ UNCHANGED <<tables, api, crashes, session>>

\* get_run finds the run queued.
CheckRun(r) ==
    /\ pc[r] = "opened"
    /\ run[r] = "queued"
    /\ pc' = [pc EXCEPT ![r] = "checked"]
    /\ UNCHANGED <<tables, job, api, crashes, cursor, pos, ins, bulk, found, made, told>>

\* "Run must be queued before execution": ValueError, caught by the handler
\* that marks the run FAILED.
RejectRun(r) ==
    /\ pc[r] = "opened"
    /\ run[r] # "queued"
    /\ pc' = [pc EXCEPT ![r] = "failing"]
    /\ UNCHANGED <<tables, job, api, crashes, cursor, pos, ins, bulk, found, made, told>>

\* status = RUNNING is flushed, not committed.
ClaimRun(r) ==
    /\ pc[r] = "checked"
    /\ pc' = [pc EXCEPT ![r] = "fetching"]
    /\ UNCHANGED <<tables, job, api, crashes, cursor, pos, ins, bulk, found, made, told>>

\* connector.fetch answers with at most Limit records after the cursor: those
\* the source has published by now.
Fetch(r) ==
    /\ pc[r] = "fetching"
    /\ \E last \in base[r]..Len(FeedOf(r)) :
        /\ last <= base[r] + Limit
        /\ upto' = [upto EXCEPT ![r] = last]
    /\ pos' = [pos EXCEPT ![r] = base[r] + 1]
    /\ pc' = [pc EXCEPT ![r] = "persisting"]
    /\ UNCHANGED <<tables, job, api, crashes, base, hadCheckpoint, ins, bulk, found, made, told>>

\* Unsupported connector, HTTP error, missing query: no SQL has failed.
FetchRaises(r) ==
    /\ pc[r] = "fetching"
    /\ pc' = [pc EXCEPT ![r] = "failing"]
    /\ UNCHANGED <<tables, job, api, crashes, cursor, pos, ins, bulk, found, made, told>>

\* Mutant: the failure is committed, whatever the run is by now.
LoseFailureCommitting(r) ==
    /\ pc[r] = "failing"
    /\ r \in ApiRuns
    /\ CloseSession(r)
    /\ job' = [job EXCEPT ![r] = "done"]
    /\ run' = [run EXCEPT ![r] = "failed"]
    /\ UNCHANGED <<srcrec, papers, gone, checkpoint, api, crashes>>

\* Mutant: the task asks arq to try again.
LoseFailureRetrying(r) ==
    /\ pc[r] = "failing"
    /\ r \in ApiRuns
    /\ CloseSession(r)
    /\ job' = [job EXCEPT ![r] = "queued"]
    /\ UNCHANGED <<run, srcrec, papers, gone, checkpoint, api, crashes>>

\* The except clause of the pipeline flushes complete_run(FAILED) and raises
\* again.  ingest_source_task lets the exception go: the session rolls back.
LoseFailure(r) ==
    /\ pc[r] = "failing"
    /\ r \in ApiRuns
    /\ Abandon(r)

\* sync_repository_source_task catches it and the session commits.
CommitFailure(r) ==
    /\ pc[r] = "failing"
    /\ r \in SyncRuns
    /\ run' = [run EXCEPT ![r] = "failed"]
    /\ pc' = [pc EXCEPT ![r] = "committed"]
    /\ UNCHANGED <<srcrec, papers, gone, checkpoint, job, api, crashes, cursor, pos, ins,
                   bulk, found, made, told>>

-----------------------------------------------------------------------------
(* _persist_source_records: INSERT ... ON CONFLICT DO NOTHING, row by row. *)

PersistWaitsFor(r) ==
    {q \in Runs \ {r} : pc[r] = "persisting" /\ pos[r] <= upto[r]
                        /\ Current(r) \in ins[q]}

\* Mutant: a row another open transaction inserted counts as present.
PersistRowDirty(r) ==
    /\ pc[r] = "persisting"
    /\ pos[r] <= upto[r]
    /\ ins' = IF srcrec[Current(r)] = NONE /\ PersistWaitsFor(r) = {}
                THEN [ins EXCEPT ![r] = @ \cup {Current(r)}] ELSE ins
    /\ pos' = [pos EXCEPT ![r] = @ + 1]
    /\ UNCHANGED <<tables, job, api, crashes, pc, cursor, bulk, found, made, told>>

\* A new row, or a row that is already there (committed, or earlier in the
\* same batch) and is skipped.
PersistRow(r) ==
    /\ pc[r] = "persisting"
    /\ pos[r] <= upto[r]
    /\ PersistWaitsFor(r) = {}
    /\ ins' = IF srcrec[Current(r)] = NONE
                THEN [ins EXCEPT ![r] = @ \cup {Current(r)}] ELSE ins
    /\ pos' = [pos EXCEPT ![r] = @ + 1]
    /\ UNCHANGED <<tables, job, api, crashes, pc, cursor, bulk, found, made, told>>

\* Mutant: rows of records that cannot be normalized are dropped.
NormalizeBatchDropping(r) ==
    /\ pc[r] = "persisting"
    /\ pos[r] > upto[r]
    /\ ins' = [ins EXCEPT ![r] = @ \ Malformed]
    /\ bulk' = [bulk EXCEPT ![r] = (ins[r] \ Malformed) \cap Unresolvable = {}]
    /\ pos' = [pos EXCEPT ![r] = base[r] + 1]
    /\ pc' = [pc EXCEPT ![r] = "lookup"]
    /\ UNCHANGED <<tables, job, api, crashes, cursor, found, made, told>>

\* Every inserted record is normalized; those that cannot be are "failed".
\* One record that the resolver cannot handle sends the whole batch to the
\* single-record fallback.
NormalizeBatch(r) ==
    /\ pc[r] = "persisting"
    /\ pos[r] > upto[r]
    /\ res' = [res EXCEPT ![r] =
                 [x \in Records |-> IF x \in ins[r] \cap Malformed THEN "failed" ELSE "none"]]
    /\ bulk' = [bulk EXCEPT ![r] = (ins[r] \ Malformed) \cap Unresolvable = {}]
    /\ pos' = [pos EXCEPT ![r] = base[r] + 1]
    /\ pc' = [pc EXCEPT ![r] = "lookup"]
    /\ UNCHANGED <<tables, job, api, crashes, cursor, ins, found, made, link>>

-----------------------------------------------------------------------------
(* PaperEntityResolver: resolve_many, or resolve record by record.         *)

\* upsert_many prefetches the papers its keys match; a deleted paper that a record was already
\* resolved to stays in the session.
Prefetch(r) ==
    /\ pc[r] = "lookup"
    /\ seen' = [seen EXCEPT ![r] = papers]
    /\ lost' = [lost EXCEPT ![r] = @ \cap {link[r][x] : x \in Records}]
    /\ pc' = [pc EXCEPT ![r] = "resolving"]
    /\ UNCHANGED <<tables, job, api, crashes, cursor, pos, ins, bulk, made, told>>

ToResolve(r) == pc[r] = "resolving" /\ pos[r] <= upto[r]

NextRecord(r) ==
    /\ pos' = [pos EXCEPT ![r] = @ + 1]
    /\ pc' = [pc EXCEPT ![r] = IF bulk[r] THEN "resolving" ELSE "lookup"]

\* Only records whose row this run inserted are resolved.
SkipRecord(r) ==
    /\ ToResolve(r)
    /\ Current(r) \notin ins[r] \ Malformed
    /\ NextRecord(r)
    /\ UNCHANGED <<tables, job, api, crashes, cursor, ins, bulk, found, made, told>>

\* The single-record fallback records the exception of this record.
FailRecord(r) ==
    /\ ToResolve(r)
    /\ Current(r) \in (ins[r] \ Malformed) \cap Unresolvable
    /\ res' = [res EXCEPT ![r][Current(r)] = "failed"]
    /\ NextRecord(r)
    /\ UNCHANGED <<tables, job, api, crashes, cursor, ins, bulk, found, made, link>>

Resolvable(r) == ToResolve(r) /\ Current(r) \in ins[r] \ (Malformed \cup Unresolvable)

\* The row of the record's own keys, or else any row with its title and year.
Matches(r) ==
    LET p == PaperOf[Current(r)] IN
    IF p \in seen[r] \cup made[r] THEN {p}
    ELSE {q \in seen[r] \cup made[r] : WorkOf[q] = WorkOf[p]}

Known(r) == Matches(r) # {}

MatchPaper(r) ==
    /\ Resolvable(r)
    /\ \E p \in Matches(r) : link' = [link EXCEPT ![r][Current(r)] = p]
    /\ res' = [res EXCEPT ![r][Current(r)] = "matched"]
    /\ NextRecord(r)
    /\ UNCHANGED <<tables, job, api, crashes, cursor, ins, bulk, found, made>>

\* The unique indexes of papers make the insert wait for an open transaction
\* that has inserted the same keys; there is none over title and year.
ResolveWaitsFor(r) ==
    {q \in Runs \ {r} : /\ Resolvable(r)
                        /\ ~Known(r)
                        /\ Current(r) \notin Poison
                        /\ PaperOf[Current(r)] \in made[q]}

\* Mutant: papers have no unique index.
CreatePaperUnchecked(r) ==
    /\ Resolvable(r)
    /\ ~Known(r)
    /\ Current(r) \notin Poison
    /\ made' = [made EXCEPT ![r] = @ \cup {PaperOf[Current(r)]}]
    /\ res' = [res EXCEPT ![r][Current(r)] = "created"]
    /\ link' = [link EXCEPT ![r][Current(r)] = PaperOf[Current(r)]]
    /\ NextRecord(r)
    /\ UNCHANGED <<tables, job, api, crashes, cursor, ins, bulk, found>>

CreatePaper(r) ==
    /\ Resolvable(r)
    /\ ~Known(r)
    /\ ResolveWaitsFor(r) = {}
    /\ PaperOf[Current(r)] \notin papers
    /\ Current(r) \notin Poison
    /\ made' = [made EXCEPT ![r] = @ \cup {PaperOf[Current(r)]}]
    /\ res' = [res EXCEPT ![r][Current(r)] = "created"]
    /\ link' = [link EXCEPT ![r][Current(r)] = PaperOf[Current(r)]]
    /\ NextRecord(r)
    /\ UNCHANGED <<tables, job, api, crashes, cursor, ins, bulk, found>>

\* The flush fails: the paper was committed after the prefetch, or the row
\* breaks a column constraint.  The session is unusable from here on, so the
\* fallback fails on every record, complete_run(FAILED) raises as well, and
\* nothing of the job survives.
CreateRaises(r) ==
    /\ Resolvable(r)
    /\ ~Known(r)
    /\ \/ Current(r) \in Poison
       \/ PaperOf[Current(r)] \in papers /\ ResolveWaitsFor(r) = {}
    /\ Abandon(r)

-----------------------------------------------------------------------------
(* Resolution updates, checkpoint, run, commit.                            *)

Resolved(r) == pc[r] \in {"resolving", "lookup"} /\ pos[r] > upto[r]

\* A record's paper was deleted after the session read it.
Dangling(r) == \E x \in Records : link[r][x] \in lost[r]

ToCheckpoint(r) ==
    /\ pc' = [pc EXCEPT ![r] =
                IF hadCheckpoint[r] \/ checkpoint[ScopeOf[r]] # NONE
                  THEN "updating" ELSE "inserting"]
    /\ UNCHANGED <<tables, job, api, crashes, cursor, pos, ins, bulk, found, made, told>>

\* Mutant: the run completes before every record is resolved.
ChooseCheckpointEarly(r) ==
    /\ pc[r] \in {"resolving", "lookup"}
    /\ ~Dangling(r)
    /\ ToCheckpoint(r)

\* Mutant: source_records.paper_id has no foreign key.
ChooseCheckpointUnchecked(r) == Resolved(r) /\ ToCheckpoint(r)

\* _apply_resolution_updates, whose foreign key to papers locks them against deletion;
\* upsert_checkpoint updates the row loaded at the start of the job, or looks for it
\* again and inserts it.
ChooseCheckpoint(r) ==
    /\ Resolved(r)
    /\ ~Dangling(r)
    /\ ToCheckpoint(r)

\* The foreign key fails, complete_run(FAILED) too, and nothing of the job survives.
ResolutionRaises(r) ==
    /\ Resolved(r)
    /\ Dangling(r)
    /\ Abandon(r)

CheckpointWaitsFor(r) ==
    {q \in Runs \ {r} : pc[r] \in {"inserting", "updating"} /\ pc[q] = "completing"
                        /\ ScopeOf[q] = ScopeOf[r]}

WriteCheckpoint(r) ==
    /\ \/ pc[r] = "updating"
       \/ pc[r] = "inserting" /\ checkpoint[ScopeOf[r]] = NONE
    /\ CheckpointWaitsFor(r) = {}
    /\ pc' = [pc EXCEPT ![r] = "completing"]
    /\ UNCHANGED <<tables, job, api, crashes, cursor, pos, ins, bulk, found, made, told>>

\* Primary key violation: another run created the checkpoint meanwhile.
CheckpointRaises(r) ==
    /\ pc[r] = "inserting"
    /\ CheckpointWaitsFor(r) = {}
    /\ checkpoint[ScopeOf[r]] # NONE
    /\ Abandon(r)

Outcome(r) == IF \E x \in Records : res[r][x] = "failed"
                THEN "completed_with_errors" ELSE "completed"

\* complete_run, then the commit of get_db_session.
Commit(r) ==
    /\ pc[r] = "completing"
    /\ run' = [run EXCEPT ![r] = Outcome(r)]
    /\ srcrec' = [x \in Records |->
                    IF x \in ins[r]
                      THEN [by |-> r, outcome |-> res[r][x], paper |-> link[r][x]]
                      ELSE srcrec[x]]
    /\ papers' = papers \cup made[r]
    /\ checkpoint' = [checkpoint EXCEPT ![ScopeOf[r]] = upto[r]]
    /\ pc' = [pc EXCEPT ![r] = "committed"]
    /\ ins' = [ins EXCEPT ![r] = {}]
    /\ made' = [made EXCEPT ![r] = {}]
    /\ UNCHANGED <<gone, job, api, crashes, cursor, pos, bulk, found, told>>

\* arq records the result of the task.
AcknowledgeJob(r) ==
    /\ pc[r] = "committed"
    /\ CloseSession(r)
    /\ job' = [job EXCEPT ![r] = "done"]
    /\ UNCHANGED <<tables, api, crashes>>

-----------------------------------------------------------------------------
(* What the environment does to a job.                                     *)

WaitsFor(r) == PersistWaitsFor(r) \cup ResolveWaitsFor(r) \cup CheckpointWaitsFor(r)

\* PostgreSQL aborts one transaction of a waiting cycle.
DeadlockVictim(r) ==
    /\ \E S \in SUBSET Runs :
        /\ r \in S
        /\ \A q \in S : WaitsFor(q) \cap S # {}
        /\ \A q \in S : \E t \in S : q \in WaitsFor(t)
    /\ Abandon(r)

\* Connection lost, or the arq job_timeout cancels the task.
JobAborts(r) ==
    /\ pc[r] \in InTx \cup {"opened", "checked"}
    /\ Abandon(r)

\* The worker dies; its transaction is rolled back and arq runs the job
\* again.  A sync job whose run is committed starts another run.
Crash(r) ==
    /\ job[r] = "running"
    /\ crashes < MaxCrashes
    /\ crashes' = crashes + 1
    /\ CloseSession(r)
    /\ \/ /\ ~(r \in SyncRuns /\ pc[r] = "committed")
          /\ job' = [job EXCEPT ![r] = "queued"]
       \/ /\ r \in SyncRuns /\ pc[r] = "committed"
          /\ \E q \in SyncRuns :
               /\ job[q] = "none" /\ ScopeOf[q] = ScopeOf[r]
               /\ job' = [job EXCEPT ![r] = "done", ![q] = "queued"]
    /\ UNCHANGED <<tables, api>>

-----------------------------------------------------------------------------
(* PaperService.delete_paper, in a transaction of its own.                 *)

\* A resolution update that is not committed locks the papers it names.  The foreign
\* key of source_records is ON DELETE SET NULL.
DeletePaper(p) ==
    /\ p \in papers
    /\ \A r \in Runs : pc[r] \in {"inserting", "updating", "completing"} =>
          \A x \in Records : link[r][x] # p
    /\ papers' = papers \ {p}
    /\ gone' = gone \cup {p}
    /\ srcrec' = [x \in Records |->
                    IF srcrec[x] # NONE /\ srcrec[x].paper = p
                      THEN [srcrec[x] EXCEPT !.paper = NONE] ELSE srcrec[x]]
    /\ lost' = [r \in Runs |-> lost[r] \cup (seen[r] \cap {p})]
    /\ UNCHANGED <<run, checkpoint, job, api, crashes, pc, cursor, pos, ins, bulk, seen, made,
                   told>>

-----------------------------------------------------------------------------

Handler(r) == CreateQueuedRun(r) \/ EnqueueJob(r) \/ EnqueueReturns(r) \/ EnqueueRaises(r)

Worker(r) ==
    \/ StartJob(r) \/ CheckRun(r) \/ RejectRun(r) \/ ClaimRun(r)
    \/ Fetch(r) \/ FetchRaises(r) \/ LoseFailure(r) \/ CommitFailure(r)
    \/ PersistRow(r) \/ NormalizeBatch(r) \/ Prefetch(r)
    \/ SkipRecord(r) \/ FailRecord(r) \/ MatchPaper(r) \/ CreatePaper(r) \/ CreateRaises(r)
    \/ ChooseCheckpoint(r) \/ ResolutionRaises(r) \/ WriteCheckpoint(r) \/ CheckpointRaises(r)
    \/ Commit(r) \/ AcknowledgeJob(r)

Environment(r) == EnqueueSync(r) \/ SkipSync(r) \/ DeadlockVictim(r) \/ JobAborts(r) \/ Crash(r)

Next ==
    \/ \E r \in Runs : Handler(r) \/ Worker(r) \/ Environment(r)
    \/ \E p \in Papers : DeletePaper(p)

Spec == Init /\ [][Next]_vars

\* A worker that holds a job keeps executing it, PostgreSQL's deadlock
\* detector runs, and arq hands out queued jobs.  Nothing obliges clients to
\* create runs, the cron to enqueue syncs, or anything to fail.
Fairness == \A r \in Runs : WF_vars(Worker(r)) /\ WF_vars(DeadlockVictim(r))

FairSpec == Spec /\ Fairness

-----------------------------------------------------------------------------
(* Safety.                                                                 *)

\* The committed cursor never passes a record that has no row: what a run
\* did not persist is fetched again by the next run of the scope, whatever
\* crashed, rolled back, or ran at the same time.
CursorCovered ==
    \A s \in Scopes : checkpoint[s] # NONE =>
        /\ checkpoint[s] <= Len(Feed[s])
        /\ \A i \in 1..checkpoint[s] : srcrec[Feed[s][i]] # NONE

\* A committed source record is never half done: the run that wrote it has finished, the
\* paper it names exists and is of the record's work, and a record that was resolved and
\* names no paper lost it to a deletion.
RecordsResolved ==
    \A x \in Records : srcrec[x] # NONE =>
        LET row  == srcrec[x]
            work == WorkOf[PaperOf[x]]
        IN  /\ run[row.by] \in Finished
            /\ row.outcome = "failed" => row.paper = NONE
            /\ row.paper # NONE => row.paper \in papers /\ WorkOf[row.paper] = work
            /\ row.outcome # "failed" /\ row.paper = NONE => \E p \in gone : WorkOf[p] = work

CreatedRecords == {x \in Records : srcrec[x] # NONE /\ srcrec[x].outcome = "created"}

\* No paper is inserted twice, by one batch or by two transactions that run at the same time:
\* of the records that say "created" one at most names a paper, and in one run one at most
\* is about a work.  Two runs that overlap may both create a work whose rows share no unique key.
OneCreator ==
    \A x, y \in CreatedRecords :
        \/ /\ srcrec[x].paper # NONE
           /\ srcrec[x].paper = srcrec[y].paper
        \/ /\ srcrec[x].by = srcrec[y].by
           /\ WorkOf[PaperOf[x]] = WorkOf[PaperOf[y]]
        => x = y

\* A run that completed is not executed again nor marked failed when arq
\* delivers its job twice; only the API handler that is still waiting for
\* the answer of Redis can overwrite it.
RedeliveryHarmless ==
    [][\A r \in Runs : run[r] \in Succeeded /\ run'[r] # run[r]
                         => api[r] = "enqueueing"]_vars

\* Every step of jobs, sessions and crashes is invisible in the committed
\* tables or is one atomic import of a window (IngestLedger).
Ledger == INSTANCE IngestLedger WITH
    recorded <- {x \in Records : srcrec[x] # NONE},
    library  <- papers,
    cursor   <- [s \in Scopes |-> IF checkpoint[s] = NONE THEN 0 ELSE checkpoint[s]]

AtomicImport == Ledger!Spec

(* Liveness. *)

\* Every job arq accepted ends, although transactions wait for each other's
\* rows: the waiting cycles are broken and crashed jobs run again.
EveryJobEnds == \A r \in Runs : job[r] \in {"queued", "running"} ~> job[r] = "done"

=============================================================================
