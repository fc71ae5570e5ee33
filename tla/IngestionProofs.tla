--------------------------- MODULE IngestionProofs ---------------------------
(***************************************************************************)
(* Proofs about Ingestion, for every set of runs, scopes and records and   *)
(* every feed: its types, CursorCovered, RecordsResolved, that it          *)
(* implements IngestLedger, OneCreator, RedeliveryHarmless, and that a job *)
(* comes to its end.                                                       *)
(***************************************************************************)
EXTENDS Ingestion, TLAPS

\* Phases of a session between the answer of the source and the commit.
Resolving == {"lookup", "resolving"}
Writing   == {"inserting", "updating", "completing"}
Fetched   == {"persisting"} \cup Resolving \cup Writing

Recorded(x)   == srcrec[x] # NONE
HasRow(r, i)  == Recorded(FeedOf(r)[i]) \/ FeedOf(r)[i] \in ins[r]
Inserted(r, last) ==
    \A x \in ins[r] : \E i \in (base[r] + 1)..last : FeedOf(r)[i] = x

\* What lies before the cursor a session started from is recorded.
BaseCovered(r) ==
    /\ base[r] <= Len(FeedOf(r))
    /\ \A i \in 1..base[r] : Recorded(FeedOf(r)[i])

\* The rows of the batch are there, up to where the session stands.
BatchCovered(r) ==
    /\ pc[r] \in Fetched => base[r] <= upto[r] /\ upto[r] <= Len(FeedOf(r))
    /\ pc[r] = "persisting" =>
        /\ base[r] + 1 <= pos[r] /\ pos[r] <= upto[r] + 1
        /\ \A i \in (base[r] + 1)..(pos[r] - 1) : HasRow(r, i)
        /\ Inserted(r, pos[r] - 1)
    /\ pc[r] \in Resolving \cup Writing =>
        /\ \A i \in (base[r] + 1)..upto[r] : HasRow(r, i)
        /\ Inserted(r, upto[r])
    /\ pc[r] \notin Fetched => ins[r] = {}

\* The inserted records have an outcome, up to where the session stands.
OutcomeKnown(r) ==
    /\ pc[r] \in Resolving =>
        /\ base[r] + 1 <= pos[r] /\ pos[r] <= upto[r] + 1
        /\ \A i \in (base[r] + 1)..(pos[r] - 1) :
              FeedOf(r)[i] \in ins[r] => res[r][FeedOf(r)[i]] # "none"
        /\ \A x \in ins[r] \cap Malformed : res[r][x] # "none"
    /\ pc[r] \in Writing => \A x \in ins[r] : res[r][x] # "none"

\* A record that has a paper has one of its work, its own row if the session created it.
RightPaper(r, x) ==
    /\ res[r][x] \in {"none", "failed"} => link[r][x] = NONE
    /\ res[r][x] \in {"created", "matched"} =>
          link[r][x] \in Papers /\ WorkOf[link[r][x]] = WorkOf[PaperOf[x]]
    /\ res[r][x] = "created" => link[r][x] = PaperOf[x]

\* What the session found is committed or it has missed the deletion.  The paper of a record
\* is one that it found or inserted; once it is written, it cannot be deleted.
PaperKnown(r) ==
    /\ seen[r] \subseteq papers \cup lost[r]
    /\ \A x \in Records :
          /\ RightPaper(r, x)
          /\ x \in Unresolvable => link[r][x] = NONE
          /\ pc[r] \notin Resolving \cup Writing \cup {"committed"} => link[r][x] = NONE
          /\ pc[r] \in Resolving => link[r][x] \in {NONE} \cup seen[r] \cup made[r] \cup lost[r]
          /\ pc[r] \in Writing => link[r][x] \in {NONE} \cup papers \cup made[r]

\* A run is created before its job, and its job before its session.
Ordered(r) ==
    /\ r \in ApiRuns /\ api[r] = "idle" => job[r] = "none"
    /\ job[r] \in {"none", "queued"} => pc[r] = "idle"
    /\ \A x \in Records : srcrec[x] # NONE /\ srcrec[x].by = r => job[r] # "none"

SessionInv(r) ==
    BaseCovered(r) /\ BatchCovered(r) /\ OutcomeKnown(r) /\ PaperKnown(r) /\ Ordered(r)

IInv ==
    /\ TypeOK
    /\ CursorCovered
    /\ RecordsResolved
    /\ \A r \in Runs : SessionInv(r)

-----------------------------------------------------------------------------
(* Facts the steps share.                                                  *)

USE DEF Runs, Fetched, Resolving, Writing, tables, cursor, found, told, session

\* The step leaves the session of q alone.
Untouched(q) ==
    /\ pc'[q] = pc[q] /\ pos'[q] = pos[q]
    /\ base'[q] = base[q] /\ upto'[q] = upto[q]
    /\ ins'[q] = ins[q] /\ seen'[q] = seen[q] /\ lost'[q] = lost[q]
    /\ made'[q] = made[q] /\ res'[q] = res[q] /\ link'[q] = link[q]

\* Committed records and papers stay.
Grows ==
    /\ \A x \in Records : Recorded(x) => Recorded(x)'
    /\ papers \subseteq papers'

\* What the session of a run knows about the batch and the tables.
Batched(r) == BaseCovered(r) /\ BatchCovered(r) /\ OutcomeKnown(r) /\ PaperKnown(r)

\* A feed is a sequence of records (pipeline.run walks it by position).
LEMMA FeedType ==
    ASSUME NEW r \in Runs
    PROVE  /\ Len(FeedOf(r)) \in Nat
           /\ \A i \in 1..Len(FeedOf(r)) : FeedOf(r)[i] \in Records
  BY FeedAssumption, ScopeAssumption DEF FeedOf

\* The rows of a batch stay covered while its session does not move.
LEMMA RowsStay ==
    ASSUME TypeOK, NEW q \in Runs, BaseCovered(q), BatchCovered(q), OutcomeKnown(q),
           pc'[q] = pc[q], pos'[q] = pos[q], base'[q] = base[q], upto'[q] = upto[q],
           ins'[q] = ins[q], res'[q] = res[q],
           \A x \in Records : Recorded(x) => Recorded(x)'
    PROVE  BaseCovered(q)' /\ BatchCovered(q)' /\ OutcomeKnown(q)'
  <1>1. BaseCovered(q)'
    BY FeedType DEF TypeOK, BaseCovered, FeedOf
  <1>2. BatchCovered(q)'
    BY SMTT(20), FeedType DEF TypeOK, BaseCovered, BatchCovered, HasRow, Inserted, FeedOf
  <1>3. OutcomeKnown(q)'
    BY DEF OutcomeKnown, FeedOf
  <1> QED
    BY <1>1, <1>2, <1>3

\* A session the step does not touch keeps its invariant.
LEMMA UntouchedKeeps ==
    ASSUME TypeOK, NEW q \in Runs, Batched(q), Untouched(q), Grows
    PROVE  Batched(q)'
  <1>1. BaseCovered(q)' /\ BatchCovered(q)' /\ OutcomeKnown(q)'
    BY RowsStay DEF Batched, Untouched, Grows
  <1>2. PaperKnown(q)'
    BY DEF Batched, PaperKnown, RightPaper, Untouched, Grows
  <1> QED
    BY <1>1, <1>2 DEF Batched

\* The committed records stay right while the runs that wrote them stay finished.
LEMMA RecordsKept ==
    ASSUME IInv, UNCHANGED <<srcrec, papers, gone>>,
           \A x \in Records : srcrec[x] # NONE => run'[srcrec[x].by] \in Finished
    PROVE  RecordsResolved'
  BY DEF IInv, RecordsResolved

\* RecordsResolved, of one record.
RecordRight(x) ==
    /\ run[srcrec[x].by] \in Finished
    /\ srcrec[x].outcome = "failed" => srcrec[x].paper = NONE
    /\ srcrec[x].paper # NONE =>
          srcrec[x].paper \in papers /\ WorkOf[srcrec[x].paper] = WorkOf[PaperOf[x]]
    /\ srcrec[x].outcome # "failed" /\ srcrec[x].paper = NONE =>
          \E p \in gone : WorkOf[p] = WorkOf[PaperOf[x]]

LEMMA RecordsOneByOne == RecordsResolved <=> \A x \in Records : srcrec[x] # NONE => RecordRight(x)
  BY DEF RecordsResolved, RecordRight

\* A step that changes at most one session keeps the invariant if it does so
\* for that session.
LEMMA OneSession ==
    ASSUME IInv, NEW r \in Runs, Grows, Batched(r)',
           \A q \in Runs \ {r} : Untouched(q)
    PROVE  \A q \in Runs : Batched(q)'
  <1> TAKE q \in Runs
  <1>1. CASE q = r
    BY <1>1
  <1>2. CASE q # r
    BY <1>2, UntouchedKeeps DEF IInv, SessionInv, Batched
  <1> QED
    BY <1>1, <1>2

\* A closed session satisfies its invariant.
LEMMA Closed ==
    ASSUME TypeOK, NEW r \in Runs, CloseSession(r)
    PROVE  /\ Batched(r)'
           /\ \A q \in Runs \ {r} : Untouched(q)
           /\ pc' = [pc EXCEPT ![r] = "idle"]
  <1>1. BaseCovered(r)' /\ BatchCovered(r)'
    BY FeedType DEF TypeOK, CloseSession, BaseCovered, BatchCovered, FeedOf
  <1>2. OutcomeKnown(r)'
    BY DEF TypeOK, CloseSession, OutcomeKnown
  <1>3. PaperKnown(r)'
    BY DEF TypeOK, CloseSession, PaperKnown, RightPaper
  <1>4. \A q \in Runs \ {r} : Untouched(q)
    BY DEF TypeOK, CloseSession, Untouched
  <1> QED
    BY <1>1, <1>2, <1>3, <1>4 DEF Batched, CloseSession

\* A session that closes keeps its variables in their types.
LEMMA ClosedType ==
    ASSUME TypeOK, NEW r \in Runs, CloseSession(r)
    PROVE  /\ pc' \in [Runs -> Steps]
           /\ base' \in [Runs -> Nat]
           /\ hadCheckpoint' \in [Runs -> BOOLEAN]
           /\ upto' \in [Runs -> Nat]
           /\ pos' \in [Runs -> Nat]
           /\ ins' \in [Runs -> SUBSET Records]
           /\ bulk' \in [Runs -> BOOLEAN]
           /\ seen' \in [Runs -> SUBSET Papers]
           /\ lost' \in [Runs -> SUBSET Papers]
           /\ made' \in [Runs -> SUBSET Papers]
           /\ res' \in [Runs -> [Records -> Resolution \cup {"none"}]]
           /\ link' \in [Runs -> [Records -> Papers \cup {NONE}]]
  BY DEF TypeOK, CloseSession, Steps

\* A task that raises leaves the committed tables and every other session.
LEMMA AbandonStep ==
    ASSUME IInv, NEW r \in Runs, pc[r] # "idle", Abandon(r)
    PROVE  IInv'
  <1>1. TypeOK'
    BY ClosedType DEF IInv, TypeOK, Abandon
  <1>2. CursorCovered' /\ RecordsResolved'
    BY DEF IInv, CursorCovered, RecordsResolved, Abandon
  <1>3. \A q \in Runs : Batched(q)'
    BY Closed, OneSession DEF IInv, Abandon, Grows, Recorded
  <1>4. ASSUME NEW q \in Runs PROVE Ordered(q)'
    BY <1>4, Closed DEF IInv, SessionInv, Ordered, TypeOK, Abandon
  <1> QED
    BY <1>1, <1>2, <1>3, <1>4 DEF IInv, SessionInv, Batched

-----------------------------------------------------------------------------
(* The API handler and the cron: no session changes.                       *)

\* Whatever happens outside of the sessions keeps what they know.
LEMMA NoSession ==
    ASSUME IInv, UNCHANGED session, UNCHANGED <<srcrec, papers>>
    PROVE  \A q \in Runs : Batched(q)'
  BY UntouchedKeeps DEF IInv, SessionInv, Batched, Untouched, Grows, Recorded

\* The API handler (router._enqueue_ingestion_job) opens no session of the
\* pipeline: it keeps the invariant.
LEMMA HandlerStep ==
    ASSUME IInv, NEW r \in Runs,
           Handler(r) \/ EnqueueSync(r) \/ SkipSync(r)
    PROVE  IInv'
  <1> USE DEF CreateQueuedRun, EnqueueJob, EnqueueReturns, EnqueueRaises, EnqueueSync,
              SkipSync, Handler
  <1>0. /\ run' \in [Runs -> {"absent", "queued"} \cup Finished]
        /\ job' \in [Runs -> {"none", "queued", "running", "done"}]
        /\ api' \in [Runs -> {"idle", "enqueueing", "done"}]
    <2>1. \/ run' = run
          \/ \E v \in {"queued", "failed"} : run' = [run EXCEPT ![r] = v]
      OBVIOUS
    <2>2. \/ job' = job
          \/ \E v \in {"queued", "done"} : job' = [job EXCEPT ![r] = v]
      OBVIOUS
    <2>3. \/ api' = api
          \/ \E v \in {"enqueueing", "done"} : api' = [api EXCEPT ![r] = v]
      OBVIOUS
    <2>4. run' \in [Runs -> {"absent", "queued"} \cup Finished]
      BY <2>1 DEF IInv, TypeOK, Finished
    <2>5. job' \in [Runs -> {"none", "queued", "running", "done"}]
      BY <2>2 DEF IInv, TypeOK
    <2>6. api' \in [Runs -> {"idle", "enqueueing", "done"}]
      BY <2>3 DEF IInv, TypeOK
    <2> QED
      BY <2>4, <2>5, <2>6
  <1>1. TypeOK'
    BY <1>0 DEF IInv, TypeOK
  <1>2. CursorCovered'
    BY DEF IInv, CursorCovered
  <1>3. RecordsResolved'
    <2>1. \/ run' = run
          \/ run' = [run EXCEPT ![r] = "failed"]
          \/ r \in ApiRuns /\ api[r] = "idle" /\ run' = [run EXCEPT ![r] = "queued"]
      OBVIOUS
    <2>2. ASSUME NEW x \in Records, srcrec[x] # NONE
          PROVE  run[srcrec[x].by] \in Finished /\ srcrec[x].by \in Runs
      BY <2>2 DEF IInv, TypeOK, RecordsResolved, SourceRecord
    <2>3. ASSUME NEW x \in Records, srcrec[x] # NONE
          PROVE  srcrec[x].by = r => ~(r \in ApiRuns /\ api[r] = "idle")
      BY <2>3 DEF IInv, SessionInv, Ordered
    <2>4. ASSUME NEW x \in Records, srcrec[x] # NONE
          PROVE  run'[srcrec[x].by] \in Finished
      BY <2>1, <2>2, <2>3, <2>4 DEF IInv, TypeOK, Finished
    <2> QED
      BY <2>4, RecordsKept
  <1>4. \A q \in Runs : Batched(q)'
    BY NoSession
  <1>5. ASSUME NEW q \in Runs PROVE Ordered(q)'
    BY <1>5, RunsAssumption DEF IInv, TypeOK, SessionInv, Ordered
  <1> QED
    BY <1>1, <1>2, <1>3, <1>4, <1>5 DEF IInv, SessionInv, Batched

-----------------------------------------------------------------------------
(* The session of a run, up to the answer of the source.                   *)

\* A job that starts opens an empty session.
LEMMA StartJobStep ==
    ASSUME IInv, NEW r \in Runs, StartJob(r)
    PROVE  IInv'
  <1>1. TypeOK'
    BY ScopeAssumption DEF IInv, TypeOK, StartJob, Steps, InTx
  <1>2. CursorCovered' /\ RecordsResolved'
    BY DEF IInv, CursorCovered, RecordsResolved, StartJob
  <1>3. Grows /\ \A q \in Runs \ {r} : Untouched(q)
    BY DEF IInv, TypeOK, StartJob, Grows, Recorded, Untouched
  <1>4. BaseCovered(r)'
    BY FeedType, ScopeAssumption
    DEF IInv, TypeOK, CursorCovered, StartJob, BaseCovered, Recorded, FeedOf
  <1>5. BatchCovered(r)' /\ OutcomeKnown(r)' /\ PaperKnown(r)'
    <2>1. /\ UNCHANGED <<papers, upto, pos, ins, found, made, told>>
          /\ pc[r] = "idle" /\ pc'[r] \in {"opened", "fetching"}
      BY DEF IInv, TypeOK, SessionInv, Ordered, StartJob
    <2>2. BatchCovered(r)' /\ OutcomeKnown(r)'
      BY <2>1 DEF IInv, SessionInv, BatchCovered, OutcomeKnown
    <2>3. PaperKnown(r)'
      BY <2>1 DEF IInv, SessionInv, PaperKnown, RightPaper
    <2> QED
      BY <2>2, <2>3
  <1>6. \A q \in Runs : Batched(q)'
    BY <1>3, <1>4, <1>5, OneSession DEF Batched
  <1>7. ASSUME NEW q \in Runs PROVE Ordered(q)'
    BY <1>7 DEF IInv, TypeOK, SessionInv, Ordered, StartJob
  <1> QED
    BY <1>1, <1>2, <1>6, <1>7 DEF IInv, SessionInv, Batched

\* Steps before the source answers, and the failures it reports.
LEMMA BeforeAnswerStep ==
    ASSUME IInv, NEW r \in Runs,
           CheckRun(r) \/ RejectRun(r) \/ ClaimRun(r) \/ FetchRaises(r) \/ CommitFailure(r)
    PROVE  IInv'
  <1> USE DEF CheckRun, RejectRun, ClaimRun, FetchRaises, CommitFailure
  <1>0. /\ run' \in [Runs -> {"absent", "queued"} \cup Finished]
        /\ pc' \in [Runs -> Steps]
    <2>1. run' = run \/ run' = [run EXCEPT ![r] = "failed"]
      OBVIOUS
    <2>2. \E step \in Steps : pc' = [pc EXCEPT ![r] = step]
      BY DEF Steps, InTx
    <2> QED
      BY <2>1, <2>2 DEF IInv, TypeOK, Finished
  <1>1. TypeOK'
    BY <1>0 DEF IInv, TypeOK
  <1>2. CursorCovered'
    BY DEF IInv, CursorCovered
  <1>3. RecordsResolved'
    <2>1. ASSUME NEW x \in Records, srcrec[x] # NONE
          PROVE  run[srcrec[x].by] \in Finished /\ srcrec[x].by \in Runs
      BY <2>1 DEF IInv, TypeOK, RecordsResolved, SourceRecord
    <2>2. run' = run \/ run' = [run EXCEPT ![r] = "failed"]
      OBVIOUS
    <2>3. ASSUME NEW x \in Records, srcrec[x] # NONE
          PROVE  run'[srcrec[x].by] \in Finished
      BY <2>1, <2>2, <2>3 DEF IInv, TypeOK, Finished
    <2> QED
      BY <2>3, RecordsKept
  <1>4. Grows /\ \A q \in Runs \ {r} : Untouched(q)
    BY DEF IInv, TypeOK, Grows, Recorded, Untouched
  <1>5. Batched(r)'
    <2>1. /\ UNCHANGED <<srcrec, papers, cursor, pos, ins, found, made, told>>
          /\ pc[r] \in {"opened", "checked", "fetching", "failing"}
          /\ pc'[r] \in {"checked", "fetching", "failing", "committed"}
      BY DEF IInv, TypeOK
    <2>2. BaseCovered(r)' /\ BatchCovered(r)' /\ OutcomeKnown(r)'
      BY <2>1 DEF IInv, SessionInv, BaseCovered, BatchCovered, OutcomeKnown, Recorded, FeedOf
    <2>3. PaperKnown(r)'
      BY <2>1 DEF IInv, SessionInv, PaperKnown, RightPaper
    <2> QED
      BY <2>2, <2>3 DEF Batched
  <1>6. \A q \in Runs : Batched(q)'
    BY <1>4, <1>5, OneSession
  <1>7. ASSUME NEW q \in Runs PROVE Ordered(q)'
    BY <1>7 DEF IInv, TypeOK, SessionInv, Ordered
  <1> QED
    BY <1>1, <1>2, <1>3, <1>6, <1>7 DEF IInv, SessionInv, Batched

\* The batch begins behind the cursor: nothing of it is claimed to be there.
LEMMA FetchStep ==
    ASSUME IInv, NEW r \in Runs, Fetch(r)
    PROVE  IInv'
  <1>1. TypeOK'
    BY SMTT(20), FeedType DEF IInv, TypeOK, Fetch, Steps, InTx
  <1>2. CursorCovered' /\ RecordsResolved'
    BY DEF IInv, CursorCovered, RecordsResolved, Fetch
  <1>3. Grows /\ \A q \in Runs \ {r} : Untouched(q)
    BY DEF IInv, TypeOK, Fetch, Grows, Recorded, Untouched
  <1>4. BaseCovered(r)' /\ OutcomeKnown(r)' /\ PaperKnown(r)'
    BY DEF IInv, TypeOK, SessionInv, Fetch, BaseCovered, OutcomeKnown, PaperKnown, RightPaper,
           Recorded, FeedOf
  <1>5. BatchCovered(r)'
    <2>1. /\ base[r] \in Nat /\ base'[r] = base[r]
          /\ upto'[r] \in base[r]..Len(FeedOf(r))
          /\ pos'[r] = base[r] + 1 /\ pc'[r] = "persisting"
          /\ ins[r] = {} /\ ins'[r] = {}
      BY DEF IInv, TypeOK, SessionInv, BatchCovered, Fetch
    <2> QED
      BY <2>1, FeedType DEF BatchCovered, Inserted, FeedOf
  <1>6. \A q \in Runs : Batched(q)'
    BY <1>3, <1>4, <1>5, OneSession DEF Batched
  <1>7. ASSUME NEW q \in Runs PROVE Ordered(q)'
    BY <1>7 DEF IInv, TypeOK, SessionInv, Ordered, Fetch
  <1> QED
    BY <1>1, <1>2, <1>6, <1>7 DEF IInv, SessionInv, Batched

-----------------------------------------------------------------------------
(* Persisting the batch.                                                   *)

\* _persist_source_records: a row of the batch is inserted here or was committed
\* by another run, and either way the record may be passed by the cursor.
LEMMA PersistRowStep ==
    ASSUME IInv, NEW r \in Runs, PersistRow(r)
    PROVE  IInv'
  <1> DEFINE x == Current(r)
  <1>0. /\ pos[r] \in 1..Len(FeedOf(r)) /\ x \in Records
        /\ base[r] \in Nat /\ upto[r] \in Nat
    BY FeedType DEF IInv, TypeOK, SessionInv, BatchCovered, PersistRow, Current
  <1>1. TypeOK'
    BY <1>0 DEF IInv, TypeOK, PersistRow
  <1>2. CursorCovered' /\ RecordsResolved'
    BY DEF IInv, CursorCovered, RecordsResolved, PersistRow
  <1>3. Grows /\ \A q \in Runs \ {r} : Untouched(q)
    BY DEF IInv, TypeOK, PersistRow, Grows, Recorded, Untouched
  <1>4. BaseCovered(r)' /\ OutcomeKnown(r)' /\ PaperKnown(r)'
    BY DEF IInv, TypeOK, SessionInv, PersistRow, BaseCovered, OutcomeKnown, PaperKnown, RightPaper,
           Recorded, FeedOf
  <1>5. BatchCovered(r)'
    <2>1. /\ pc'[r] = "persisting" /\ pos'[r] = pos[r] + 1
          /\ base' = base /\ upto' = upto /\ srcrec' = srcrec
          /\ ins[r] \subseteq ins'[r] /\ ins'[r] \subseteq ins[r] \cup {x}
          /\ Recorded(x) \/ x \in ins'[r]
      BY DEF IInv, TypeOK, PersistRow, Recorded
    <2>2. ASSUME NEW i \in (base[r] + 1)..pos[r] PROVE HasRow(r, i)'
      <3>1. CASE i = pos[r]
        BY <2>1, <3>1 DEF HasRow, Recorded, FeedOf, Current
      <3>2. CASE i # pos[r]
        BY <1>0, <2>1, <2>2, <3>2 DEF IInv, SessionInv, BatchCovered, PersistRow, HasRow, Recorded,
             FeedOf
      <3> QED
        BY <3>1, <3>2
    <2>3. ASSUME NEW y \in ins'[r] PROVE \E i \in (base[r] + 1)..pos[r] : FeedOf(r)[i] = y
      <3>1. CASE y = x
        BY <1>0, <3>1 DEF IInv, SessionInv, BatchCovered, PersistRow, Current
      <3>2. CASE y \in ins[r]
        BY <1>0, <3>2 DEF IInv, SessionInv, BatchCovered, PersistRow, Inserted
      <3> QED
        BY <2>1, <3>1, <3>2
    <2>0. pos'[r] - 1 = pos[r]
      BY <1>0, <2>1
    <2>4. Inserted(r, pos[r] - 1)'
      BY <2>0, <2>1, <2>3 DEF Inserted, FeedOf
    <2>5. base[r] <= upto[r] /\ upto[r] <= Len(FeedOf(r))
      BY DEF IInv, SessionInv, BatchCovered, PersistRow
    <2>6. base[r] + 1 <= pos[r] + 1 /\ pos[r] + 1 <= upto[r] + 1
      BY <1>0 DEF IInv, SessionInv, BatchCovered, PersistRow
    <2> QED
      BY <2>0, <2>1, <2>2, <2>4, <2>5, <2>6 DEF BatchCovered, FeedOf
  <1>6. \A q \in Runs : Batched(q)'
    BY <1>3, <1>4, <1>5, OneSession DEF Batched
  <1>7. ASSUME NEW q \in Runs PROVE Ordered(q)'
    BY <1>7 DEF IInv, TypeOK, SessionInv, Ordered, PersistRow
  <1> QED
    BY <1>1, <1>2, <1>6, <1>7 DEF IInv, SessionInv, Batched

\* Malformed records get their outcome, the others wait for the upsert.
LEMMA NormalizeBatchStep ==
    ASSUME IInv, NEW r \in Runs, NormalizeBatch(r)
    PROVE  IInv'
  <1>0. base[r] \in Nat /\ upto[r] \in Nat /\ pos[r] = upto[r] + 1 /\ pos'[r] = base[r] + 1
    BY DEF IInv, TypeOK, SessionInv, BatchCovered, NormalizeBatch
  <1>1. TypeOK'
    BY DEF IInv, TypeOK, NormalizeBatch, Steps, InTx, Resolution
  <1>2. CursorCovered' /\ RecordsResolved'
    BY DEF IInv, CursorCovered, RecordsResolved, NormalizeBatch
  <1>3. Grows /\ \A q \in Runs \ {r} : Untouched(q)
    BY DEF IInv, TypeOK, NormalizeBatch, Grows, Recorded, Untouched
  <1>4. BaseCovered(r)' /\ PaperKnown(r)'
    BY DEF IInv, TypeOK, SessionInv, NormalizeBatch, BaseCovered, PaperKnown, RightPaper, Recorded,
         FeedOf
  <1>5. BatchCovered(r)'
    <2>1. /\ pc'[r] = "lookup" /\ base' = base /\ upto' = upto /\ ins' = ins
          /\ srcrec' = srcrec
      BY DEF IInv, TypeOK, NormalizeBatch
    <2>2. /\ base[r] <= upto[r] /\ upto[r] <= Len(FeedOf(r))
          /\ \A i \in (base[r] + 1)..upto[r] : HasRow(r, i)
          /\ Inserted(r, upto[r])
      <3>1. pos[r] - 1 = upto[r]
        BY <1>0
      <3> QED
        BY <3>1 DEF IInv, SessionInv, NormalizeBatch, BatchCovered
    <2> QED
      BY <2>1, <2>2 DEF BatchCovered, HasRow, Inserted, Recorded, FeedOf
  <1>6. OutcomeKnown(r)'
    BY <1>0 DEF IInv, TypeOK, SessionInv, NormalizeBatch, BatchCovered, OutcomeKnown, FeedOf
  <1>7. \A q \in Runs : Batched(q)'
    BY <1>3, <1>4, <1>5, <1>6, OneSession DEF Batched
  <1>8. ASSUME NEW q \in Runs PROVE Ordered(q)'
    BY <1>8 DEF IInv, TypeOK, SessionInv, Ordered, NormalizeBatch
  <1> QED
    BY <1>1, <1>2, <1>7, <1>8 DEF IInv, SessionInv, Batched

-----------------------------------------------------------------------------
(* Resolving the inserted records.                                         *)

\* upsert_many reads committed papers only.
LEMMA PrefetchStep ==
    ASSUME IInv, NEW r \in Runs, Prefetch(r)
    PROVE  IInv'
  <1>0. pc' = [pc EXCEPT ![r] = "resolving"] /\ pc[r] = "lookup"
    BY DEF Prefetch
  <1>1. TypeOK'
    BY DEF IInv, TypeOK, Prefetch, Steps, InTx
  <1>2. CursorCovered' /\ RecordsResolved'
    BY DEF IInv, CursorCovered, RecordsResolved, Prefetch
  <1>3. Grows /\ \A q \in Runs \ {r} : Untouched(q)
    BY DEF IInv, TypeOK, Prefetch, Grows, Recorded, Untouched
  <1>4. BaseCovered(r)' /\ PaperKnown(r)'
    BY DEF IInv, TypeOK, SessionInv, Prefetch, BaseCovered, PaperKnown, RightPaper, Recorded, FeedOf
  <1>5. BatchCovered(r)'
    BY <1>0 DEF IInv, TypeOK, SessionInv, Prefetch, BatchCovered, HasRow, Inserted, Recorded, FeedOf
  <1>6. OutcomeKnown(r)'
    BY <1>0 DEF IInv, TypeOK, SessionInv, Prefetch, OutcomeKnown, FeedOf
  <1>7. \A q \in Runs : Batched(q)'
    BY <1>3, <1>4, <1>5, <1>6, OneSession DEF Batched
  <1>8. ASSUME NEW q \in Runs PROVE Ordered(q)'
    BY <1>8 DEF IInv, TypeOK, SessionInv, Ordered, Prefetch
  <1> QED
    BY <1>1, <1>2, <1>7, <1>8 DEF IInv, SessionInv, Batched

\* The session moves to the next record; an inserted record it leaves behind
\* has an outcome, and the paper of the outcome is known.
LEMMA NextRecordKeeps ==
    ASSUME IInv, NEW r \in Runs, ToResolve(r), NextRecord(r),
           UNCHANGED <<srcrec, papers, cursor, ins, found>>,
           \A y \in Records : res[r][y] # "none" => res'[r][y] # "none",
           Current(r) \in ins[r] => res'[r][Current(r)] # "none",
           PaperKnown(r)',
           \A q \in Runs \ {r} : made'[q] = made[q] /\ res'[q] = res[q] /\ link'[q] = link[q]
    PROVE  \A q \in Runs : Batched(q)'
  <1>1. /\ pc[r] = "resolving" /\ pc'[r] \in {"lookup", "resolving"}
        /\ pos'[r] = pos[r] + 1
        /\ base[r] \in Nat /\ upto[r] \in Nat /\ pos[r] \in Nat
        /\ base[r] + 1 <= pos[r] /\ pos[r] <= upto[r] /\ upto[r] <= Len(FeedOf(r))
    BY DEF IInv, TypeOK, SessionInv, OutcomeKnown, BatchCovered, ToResolve, NextRecord
  <1>2. Grows /\ \A q \in Runs \ {r} : Untouched(q)
    BY DEF IInv, TypeOK, NextRecord, Grows, Recorded, Untouched
  <1>3. BaseCovered(r)'
    BY DEF IInv, SessionInv, BaseCovered, Recorded, FeedOf
  <1>4. BatchCovered(r)'
    BY <1>1 DEF IInv, SessionInv, BatchCovered, HasRow, Inserted, Recorded, FeedOf
  <1>5. OutcomeKnown(r)'
    <2>1. ASSUME NEW i \in (base[r] + 1)..pos[r], FeedOf(r)[i] \in ins[r]
          PROVE  res'[r][FeedOf(r)[i]] # "none"
      <3>1. CASE i = pos[r]
        BY <2>1, <3>1 DEF Current
      <3>2. CASE i # pos[r]
        <4>1. i \in (base[r] + 1)..(pos[r] - 1)
          BY <1>1, <3>2
        <4>2. FeedOf(r)[i] \in Records
          BY <1>1, FeedType
        <4> QED
          BY <1>1, <2>1, <4>1, <4>2 DEF IInv, SessionInv, OutcomeKnown
      <3> QED
        BY <3>1, <3>2
    <2>2. ASSUME NEW y \in ins[r] \cap Malformed PROVE res'[r][y] # "none"
      BY <1>1, <2>2 DEF IInv, TypeOK, SessionInv, OutcomeKnown
    <2>3. pos'[r] - 1 = pos[r] /\ base' = base /\ upto' = upto /\ ins' = ins
      BY <1>1
    <2> QED
      BY <1>1, <2>1, <2>2, <2>3 DEF OutcomeKnown, FeedOf
  <1> QED
    BY <1>2, <1>3, <1>4, <1>5, OneSession DEF Batched

\* A paper the upsert matches is one the session knows, and of the record's work.
LEMMA MatchesFound ==
    ASSUME IInv, NEW r \in Runs, NEW p \in Matches(r)
    PROVE  /\ p \in seen[r] \cup made[r] /\ p \in Papers
           /\ WorkOf[p] = WorkOf[PaperOf[Current(r)]]
  BY DEF IInv, TypeOK, Matches

\* A record that is skipped, failed, matched or created has the right paper, which is known.
LEMMA ResolvedRight ==
    ASSUME IInv, NEW r \in Runs, Current(r) \in Records,
           SkipRecord(r) \/ FailRecord(r) \/ MatchPaper(r) \/ CreatePaper(r)
    PROVE  PaperKnown(r)'
  <1> DEFINE x == Current(r)
  <1>1. /\ UNCHANGED <<papers, found>> /\ made[r] \subseteq made'[r]
        /\ pc[r] = "resolving" /\ pc'[r] \in {"lookup", "resolving"}
    BY DEF IInv, TypeOK, SkipRecord, FailRecord, MatchPaper, CreatePaper, NextRecord, Resolvable,
           ToResolve
  <1>2. PaperKnown(r) /\ res \in [Runs -> [Records -> Resolution \cup {"none"}]]
        /\ link \in [Runs -> [Records -> Papers \cup {NONE}]]
    BY DEF IInv, TypeOK, SessionInv
  <1>3. ASSUME NEW y \in Records, res'[r][y] = res[r][y], link'[r][y] = link[r][y]
        PROVE  /\ RightPaper(r, y)'
               /\ y \in Unresolvable => link'[r][y] = NONE
               /\ link'[r][y] \in {NONE} \cup seen[r] \cup made'[r] \cup lost[r]
    BY <1>1, <1>2, <1>3 DEF PaperKnown, RightPaper
  <1>4. ASSUME NEW y \in Records
        PROVE  /\ RightPaper(r, y)'
               /\ y \in Unresolvable => link'[r][y] = NONE
               /\ link'[r][y] \in {NONE} \cup seen[r] \cup made'[r] \cup lost[r]
    <2>1. CASE SkipRecord(r)
      BY <1>3, <2>1 DEF SkipRecord
    <2>2. CASE FailRecord(r)
      <3>1. /\ link' = link /\ x \in Unresolvable /\ res'[r][x] = "failed"
            /\ y # x => res'[r][y] = res[r][y]
        BY <1>2, <2>2 DEF FailRecord
      <3>2. link[r][x] = NONE
        BY <1>2, <3>1 DEF PaperKnown
      <3> QED
        BY <1>3, <3>1, <3>2 DEF RightPaper
    <2>3. CASE MatchPaper(r)
      <3>1. PICK p \in Matches(r) : link' = [link EXCEPT ![r][x] = p]
        BY <2>3 DEF MatchPaper
      <3>2. /\ p \in seen[r] \cup made[r] /\ p \in Papers /\ WorkOf[p] = WorkOf[PaperOf[x]]
        BY MatchesFound
      <3>3. /\ x \notin Unresolvable /\ res'[r][x] = "matched" /\ link'[r][x] = p
            /\ y # x => res'[r][y] = res[r][y] /\ link'[r][y] = link[r][y]
        BY <1>2, <2>3, <3>1 DEF MatchPaper, Resolvable
      <3> HIDE DEF x
      <3>4. CASE y = x
        BY <1>1, <3>2, <3>3, <3>4 DEF RightPaper
      <3> QED
        BY <1>3, <3>3, <3>4
    <2>4. CASE CreatePaper(r)
      <3>1. /\ x \notin Unresolvable /\ res'[r][x] = "created" /\ link'[r][x] = PaperOf[x]
            /\ y # x => res'[r][y] = res[r][y] /\ link'[r][y] = link[r][y]
            /\ PaperOf[x] \in made'[r] /\ PaperOf[x] \in Papers
        BY <1>2, <2>4, PaperAssumption DEF CreatePaper, Resolvable, IInv, TypeOK
      <3> HIDE DEF x
      <3>2. CASE y = x
        BY <3>1, <3>2 DEF RightPaper
      <3> QED
        BY <1>3, <3>1, <3>2
    <2> QED
      BY <2>1, <2>2, <2>3, <2>4
  <1>5. seen'[r] \subseteq papers' \cup lost'[r]
    BY <1>1, <1>2 DEF PaperKnown
  <1> QED
    BY <1>1, <1>4, <1>5 DEF PaperKnown

\* Every way of handling one record of the batch keeps the invariant.
LEMMA ResolveStep ==
    ASSUME IInv, NEW r \in Runs,
           SkipRecord(r) \/ FailRecord(r) \/ MatchPaper(r) \/ CreatePaper(r)
    PROVE  IInv'
  <1> DEFINE x == Current(r)
  <1>0. x \in Records /\ ToResolve(r) /\ NextRecord(r)
    <2>1. ToResolve(r) /\ NextRecord(r)
      BY DEF SkipRecord, FailRecord, MatchPaper, CreatePaper, Resolvable
    <2> QED
      BY <2>1, FeedType DEF IInv, TypeOK, SessionInv, BatchCovered, OutcomeKnown, ToResolve, Current
  <1>1. TypeOK'
    <2>1. pos' \in [Runs -> Nat] /\ pc' \in [Runs -> Steps]
      BY <1>0 DEF IInv, TypeOK, NextRecord, Steps, InTx
    <2>2. made' \in [Runs -> SUBSET Papers]
      <3>1. made' = made \/ made' = [made EXCEPT ![r] = @ \cup {PaperOf[x]}]
        BY DEF SkipRecord, FailRecord, MatchPaper, CreatePaper
      <3> QED
        BY <1>0, <3>1, PaperAssumption DEF IInv, TypeOK
    <2>3. res' \in [Runs -> [Records -> Resolution \cup {"none"}]]
      <3>1. res' = res \/ \E o \in Resolution : res' = [res EXCEPT ![r][x] = o]
        BY DEF SkipRecord, FailRecord, MatchPaper, CreatePaper, Resolution
      <3>2. \A o \in Resolution :
              [res[r] EXCEPT ![x] = o] \in [Records -> Resolution \cup {"none"}]
        BY DEF IInv, TypeOK
      <3>3. \/ res' = res
            \/ \E o \in Resolution : res' = [res EXCEPT ![r] = [res[r] EXCEPT ![x] = o]]
        BY <3>1 DEF IInv, TypeOK
      <3>4. res \in [Runs -> [Records -> Resolution \cup {"none"}]]
        BY DEF IInv, TypeOK
      <3> HIDE DEF x
      <3> QED
        BY <3>2, <3>3, <3>4
    <2>4. link' \in [Runs -> [Records -> Papers \cup {NONE}]]
      <3>1. link' = link \/ \E p \in Papers : link' = [link EXCEPT ![r][x] = p]
        <4>1. CASE SkipRecord(r) \/ FailRecord(r)
          BY <4>1 DEF SkipRecord, FailRecord
        <4>2. CASE MatchPaper(r)
          BY <4>2, MatchesFound DEF MatchPaper
        <4>3. CASE CreatePaper(r)
          BY <1>0, <4>3, PaperAssumption DEF CreatePaper
        <4> QED
          BY <4>1, <4>2, <4>3
      <3>2. \A p \in Papers : [link[r] EXCEPT ![x] = p] \in [Records -> Papers \cup {NONE}]
        BY DEF IInv, TypeOK
      <3>3. \/ link' = link
            \/ \E p \in Papers : link' = [link EXCEPT ![r] = [link[r] EXCEPT ![x] = p]]
        BY <3>1 DEF IInv, TypeOK
      <3>4. link \in [Runs -> [Records -> Papers \cup {NONE}]]
        BY DEF IInv, TypeOK
      <3> HIDE DEF x
      <3> QED
        BY <3>2, <3>3, <3>4
    <2>5. UNCHANGED <<tables, job, api, crashes, cursor, ins, bulk, found>>
      BY DEF SkipRecord, FailRecord, MatchPaper, CreatePaper
    <2> QED
      BY <2>1, <2>2, <2>3, <2>4, <2>5 DEF IInv, TypeOK
  <1>2. UNCHANGED <<srcrec, papers, gone, checkpoint, run, job, api, cursor, ins, found>>
    BY DEF SkipRecord, FailRecord, MatchPaper, CreatePaper
  <1>3. CursorCovered' /\ RecordsResolved'
    BY <1>2 DEF IInv, CursorCovered, RecordsResolved
  <1>4. \A q \in Runs \ {r} : made'[q] = made[q] /\ res'[q] = res[q] /\ link'[q] = link[q]
    BY DEF IInv, TypeOK, SkipRecord, FailRecord, MatchPaper, CreatePaper
  <1>5. /\ \A y \in Records : res[r][y] # "none" => res'[r][y] # "none"
        /\ x \in ins[r] => res'[r][x] # "none"
    <2>1. CASE SkipRecord(r)
      BY <1>0, <2>1 DEF SkipRecord, IInv, SessionInv, OutcomeKnown, ToResolve
    <2>2. CASE FailRecord(r) \/ MatchPaper(r) \/ CreatePaper(r)
      BY <1>0, <2>2 DEF IInv, TypeOK, FailRecord, MatchPaper, CreatePaper
    <2> QED
      BY <2>1, <2>2
  <1>6. PaperKnown(r)'
    BY <1>0, ResolvedRight
  <1>7. \A q \in Runs : Batched(q)'
    BY <1>0, <1>2, <1>4, <1>5, <1>6, NextRecordKeeps
  <1>8. ASSUME NEW q \in Runs PROVE Ordered(q)'
    BY <1>0, <1>2, <1>8 DEF IInv, TypeOK, SessionInv, Ordered, NextRecord, ToResolve
  <1> QED
    BY <1>1, <1>3, <1>7, <1>8 DEF IInv, SessionInv, Batched

-----------------------------------------------------------------------------
(* Checkpoint, commit and acknowledgement.                                 *)

\* upsert_checkpoint runs after the last record of the batch has a row.
LEMMA CheckpointStep ==
    ASSUME IInv, NEW r \in Runs, ChooseCheckpoint(r) \/ WriteCheckpoint(r)
    PROVE  IInv'
  <1>0. /\ UNCHANGED <<tables, job, api, crashes, cursor, pos, ins, bulk, found, made, told>>
        /\ \E step \in Writing : pc' = [pc EXCEPT ![r] = step]
        /\ pc[r] \in Resolving \cup Writing
        /\ pc[r] \in Resolving => pos[r] > upto[r] /\ ~Dangling(r)
    BY DEF ChooseCheckpoint, Resolved, ToCheckpoint, WriteCheckpoint
  <1>1. TypeOK'
    BY <1>0 DEF IInv, TypeOK, Steps, InTx
  <1>2. CursorCovered' /\ RecordsResolved'
    BY <1>0 DEF IInv, CursorCovered, RecordsResolved
  <1>3. Grows /\ \A q \in Runs \ {r} : Untouched(q)
    BY <1>0 DEF IInv, TypeOK, Grows, Recorded, Untouched
  <1>4. BaseCovered(r)' /\ BatchCovered(r)'
    BY <1>0 DEF IInv, TypeOK, SessionInv, BaseCovered, BatchCovered, HasRow,
           Inserted, Recorded, FeedOf
  <1>d. PaperKnown(r)'
    <2>1. pc'[r] \in Writing
      BY <1>0 DEF IInv, TypeOK
    <2>2. \A x \in Records : link[r][x] \in {NONE} \cup papers \cup made[r]
      BY <1>0 DEF IInv, SessionInv, PaperKnown, Dangling
    <2> QED
      BY <1>0, <2>1, <2>2 DEF IInv, SessionInv, PaperKnown, RightPaper
  <1>5. \A x \in ins[r] : res[r][x] # "none"
    <2>1. CASE pc[r] \in Writing
      BY <2>1 DEF IInv, SessionInv, OutcomeKnown
    <2>2. CASE pc[r] \in Resolving
      <3>1. /\ pos[r] > upto[r] /\ pos[r] <= upto[r] + 1
            /\ upto[r] \in Nat /\ pos[r] \in Nat
        <4>1. pos[r] > upto[r]
          BY <1>0, <2>2
        <4>2. pos[r] <= upto[r] + 1
          BY <2>2 DEF IInv, SessionInv, OutcomeKnown
        <4>3. upto[r] \in Nat /\ pos[r] \in Nat
          BY DEF IInv, TypeOK
        <4> QED
          BY <4>1, <4>2, <4>3
      <3>2. pos[r] - 1 = upto[r]
        BY <3>1
      <3> QED
        BY <2>2, <3>2 DEF IInv, SessionInv, OutcomeKnown, BatchCovered, Inserted
    <2> QED
      BY <1>0, <2>1, <2>2
  <1>6. OutcomeKnown(r)'
    BY <1>0, <1>5 DEF IInv, TypeOK, OutcomeKnown
  <1>7. \A q \in Runs : Batched(q)'
    BY <1>3, <1>4, <1>d, <1>6, OneSession DEF Batched
  <1>8. ASSUME NEW q \in Runs PROVE Ordered(q)'
    BY <1>0, <1>8 DEF IInv, TypeOK, SessionInv, Ordered
  <1> QED
    BY <1>1, <1>2, <1>7, <1>8 DEF IInv, SessionInv, Batched

\* The commit publishes rows, papers, outcomes and cursor together.
LEMMA CommitStep ==
    ASSUME IInv, NEW r \in Runs, Commit(r)
    PROVE  IInv'
  <1>0. /\ pc[r] = "completing" /\ base[r] \in Nat /\ upto[r] \in Nat
        /\ upto[r] <= Len(FeedOf(r)) /\ base[r] <= upto[r]
        /\ \A x \in ins[r] : x \in Records /\ res[r][x] \in Resolution
                             /\ link[r][x] \in Papers \cup {NONE}
    BY DEF IInv, TypeOK, SessionInv, BatchCovered, OutcomeKnown, Commit
  <1> DEFINE row(x) == [by |-> r, outcome |-> res[r][x], paper |-> link[r][x]]
  <1>a. \A x \in ins[r] : row(x) \in SourceRecord
    BY <1>0 DEF SourceRecord
  <1>b. \A x \in ins[r] :
          /\ srcrec'[x] # NONE /\ srcrec'[x].by = r
          /\ srcrec'[x].outcome = res[r][x] /\ srcrec'[x].paper = link[r][x]
    <2>1. \A x \in ins[r] : srcrec'[x] = row(x)
      BY <1>0 DEF Commit
    <2>2. \A x \in ins[r] : srcrec'[x] # NONE
      BY <1>a, <2>1, NoneAssumption
    <2>3. ASSUME NEW x \in ins[r]
          PROVE  row(x).by = r /\ row(x).outcome = res[r][x] /\ row(x).paper = link[r][x]
      OBVIOUS
    <2> HIDE DEF row
    <2> QED
      BY <2>1, <2>2, <2>3
  <1>c. \A x \in Records \ ins[r] : srcrec'[x] = srcrec[x]
    BY DEF Commit
  <1>1. TypeOK'
    <2>1. srcrec' \in [Records -> {NONE} \cup SourceRecord]
      BY <1>a DEF IInv, TypeOK, Commit
    <2>2. run' \in [Runs -> {"absent", "queued"} \cup Finished]
      BY DEF IInv, TypeOK, Commit, Outcome, Finished, Succeeded
    <2>3. papers' \subseteq Papers /\ checkpoint' \in [Scopes -> Nat \cup {NONE}]
      BY <1>0 DEF IInv, TypeOK, Commit
    <2>4. /\ pc' \in [Runs -> Steps]
          /\ ins' \in [Runs -> SUBSET Records]
          /\ made' \in [Runs -> SUBSET Papers]
      BY DEF IInv, TypeOK, Commit, Steps
    <2> QED
      BY <2>1, <2>2, <2>3, <2>4 DEF IInv, TypeOK, Commit
  <1>2. Grows
    BY <1>b, <1>c DEF Grows, Recorded, Commit
  <1>3. \A i \in 1..upto[r] : Recorded(FeedOf(r)[i])'
    <2> TAKE i \in 1..upto[r]
    <2>0. FeedOf(r)[i] \in Records
      BY <1>0, FeedType
    <2>1. CASE i \in 1..base[r]
      BY <1>2, <2>0, <2>1 DEF IInv, SessionInv, BaseCovered, Grows
    <2>2. CASE i \in (base[r] + 1)..upto[r]
      BY <1>0, <1>2, <1>b, <2>0, <2>2 DEF IInv, SessionInv, BatchCovered, HasRow, Grows, Recorded
    <2> QED
      BY <1>0, <2>1, <2>2
  <1>4. CursorCovered'
    <2> SUFFICES ASSUME NEW s \in Scopes, checkpoint'[s] # NONE
                 PROVE  /\ checkpoint'[s] <= Len(Feed[s])
                        /\ \A i \in 1..checkpoint'[s] : Recorded(Feed[s][i])'
      BY DEF CursorCovered, Recorded
    <2>1. CASE s = ScopeOf[r]
      BY <1>0, <1>3, <2>1 DEF IInv, TypeOK, Commit, FeedOf, Recorded
    <2>2. CASE s # ScopeOf[r]
      <3>1. checkpoint'[s] = checkpoint[s] /\ checkpoint[s] \in Nat
        BY <2>2, ScopeAssumption DEF IInv, TypeOK, Commit
      <3>2. \A i \in 1..checkpoint[s] : Feed[s][i] \in Records /\ Recorded(Feed[s][i])
        BY <3>1, FeedAssumption DEF IInv, CursorCovered, Recorded
      <3> QED
        BY <1>2, <3>1, <3>2 DEF IInv, CursorCovered, Grows
    <2> QED
      BY <2>1, <2>2
  <1>5. RecordsResolved'
    <2>1. run'[r] \in Finished
      BY DEF IInv, TypeOK, Commit, Outcome, Finished, Succeeded
    <2>2. papers' = papers \cup made[r] /\ gone' = gone
      BY DEF Commit
    <2>3. ASSUME NEW x \in Records, srcrec'[x] # NONE PROVE RecordRight(x)'
      <3>1. CASE x \in ins[r]
        <4>1. /\ RightPaper(r, x) /\ link[r][x] \in {NONE} \cup papers \cup made[r]
          BY <1>0 DEF IInv, SessionInv, PaperKnown
        <4>2. NONE \notin Papers
          BY NoneAssumption
        <4> QED
          BY <1>0, <1>b, <2>1, <2>2, <3>1, <4>1, <4>2 DEF RecordRight, RightPaper, Resolution
      <3>2. CASE x \notin ins[r]
        <4>1. srcrec'[x] = srcrec[x]
          BY <1>c, <3>2
        <4>2. srcrec[x].by \in Runs /\ RecordRight(x)
          BY <2>3, <4>1, RecordsOneByOne DEF IInv, TypeOK, SourceRecord
        <4>3. run'[srcrec[x].by] \in Finished
          BY <2>1, <4>2 DEF IInv, TypeOK, RecordRight, Commit
        <4> QED
          BY <2>2, <4>1, <4>2, <4>3 DEF RecordRight
      <3> QED
        BY <3>1, <3>2
    <2> QED
      BY <2>3 DEF RecordsResolved, RecordRight
  <1>6. \A q \in Runs \ {r} : Untouched(q)
    BY DEF IInv, TypeOK, Commit, Untouched
  <1>7. Batched(r)'
    <2>1. pc'[r] = "committed" /\ ins'[r] = {} /\ base' = base
      BY DEF IInv, TypeOK, Commit
    <2>2. BaseCovered(r)'
      BY <1>0, <1>3, <2>1 DEF BaseCovered, FeedOf
    <2>3. PaperKnown(r)'
      <3>1. papers' = papers \cup made[r] /\ UNCHANGED <<found, told>>
        BY DEF Commit
      <3> QED
        BY <2>1, <3>1 DEF IInv, SessionInv, PaperKnown, RightPaper
    <2> QED
      BY <2>1, <2>2, <2>3 DEF Batched, BatchCovered, OutcomeKnown
  <1>8. \A q \in Runs : Batched(q)'
    BY <1>2, <1>6, <1>7, OneSession
  <1>9. ASSUME NEW q \in Runs PROVE Ordered(q)'
    <2>1. job[r] # "none"
      BY <1>0 DEF IInv, SessionInv, Ordered
    <2>2. \A x \in Records : srcrec'[x] # NONE /\ srcrec'[x].by = q => job[q] # "none"
      BY <1>b, <1>c, <1>9, <2>1 DEF IInv, SessionInv, Ordered
    <2> QED
      BY <1>0, <1>9, <2>2 DEF IInv, TypeOK, SessionInv, Ordered, Commit
  <1> QED
    BY <1>1, <1>4, <1>5, <1>8, <1>9 DEF IInv, SessionInv, Batched

\* A session that committed holds nothing the invariant speaks of.
LEMMA AcknowledgeJobStep ==
    ASSUME IInv, NEW r \in Runs, AcknowledgeJob(r)
    PROVE  IInv'
  <1>1. TypeOK'
    BY ClosedType DEF IInv, TypeOK, AcknowledgeJob
  <1>2. CursorCovered' /\ RecordsResolved'
    BY DEF IInv, CursorCovered, RecordsResolved, AcknowledgeJob
  <1>3. \A q \in Runs : Batched(q)'
    BY Closed, OneSession DEF IInv, AcknowledgeJob, Grows, Recorded
  <1>4. ASSUME NEW q \in Runs PROVE Ordered(q)'
    BY <1>4, Closed DEF IInv, SessionInv, Ordered, TypeOK, AcknowledgeJob
  <1> QED
    BY <1>1, <1>2, <1>3, <1>4 DEF IInv, SessionInv, Batched

\* A crash loses the session and nothing that is committed.
LEMMA CrashStep ==
    ASSUME IInv, NEW r \in Runs, Crash(r)
    PROVE  IInv'
  <1>1. crashes' \in 0..MaxCrashes
    BY CrashAssumption DEF IInv, TypeOK, Crash
  <1>2. job' \in [Runs -> {"none", "queued", "running", "done"}]
    <2>1. job \in [Runs -> {"none", "queued", "running", "done"}]
      BY DEF IInv, TypeOK
    <2>2. \/ job' = [job EXCEPT ![r] = "queued"]
          \/ \E q \in Runs : job' = [job EXCEPT ![r] = "done", ![q] = "queued"]
      BY DEF Crash
    <2> QED
      BY <2>1, <2>2
  <1>3. TypeOK'
    BY <1>1, <1>2, ClosedType DEF IInv, TypeOK, Crash
  <1>4. CursorCovered' /\ RecordsResolved'
    BY DEF IInv, CursorCovered, RecordsResolved, Crash
  <1>5. \A q \in Runs : Batched(q)'
    BY Closed, OneSession DEF IInv, Crash, Grows, Recorded
  <1>6. ASSUME NEW q \in Runs PROVE Ordered(q)'
    <2>1. pc' = [pc EXCEPT ![r] = "idle"]
      BY Closed DEF IInv, Crash
    <2>2. job[r] = "running" /\ job'[r] \in {"queued", "done"}
      BY DEF IInv, TypeOK, Crash
    <2>3. q # r => \/ job'[q] = job[q]
                   \/ q \in SyncRuns /\ job[q] = "none" /\ job'[q] = "queued"
      <3>0. job \in [Runs -> {"none", "queued", "running", "done"}] /\ q \in Runs
        BY DEF IInv, TypeOK
      <3>1. CASE job' = [job EXCEPT ![r] = "queued"]
        BY <3>0, <3>1
      <3>2. ASSUME NEW t \in SyncRuns, job[t] = "none",
                   job' = [job EXCEPT ![r] = "done", ![t] = "queued"]
            PROVE  q # r => \/ job'[q] = job[q]
                            \/ q \in SyncRuns /\ job[q] = "none" /\ job'[q] = "queued"
        BY <3>0, <3>2
      <3> QED
        BY <3>1, <3>2 DEF Crash
    <2>4. UNCHANGED <<srcrec, api>>
      BY DEF Crash
    <2> QED
      BY <1>6, <2>1, <2>2, <2>3, <2>4, RunsAssumption DEF IInv, SessionInv, Ordered, TypeOK
  <1> QED
    BY <1>3, <1>4, <1>5, <1>6 DEF IInv, SessionInv, Batched

-----------------------------------------------------------------------------
(* PaperService.delete_paper.                                              *)

\* The foreign key of source_records is ON DELETE SET NULL: rows stay, without the paper.
LEMMA DeletionClears ==
    ASSUME TypeOK, NEW p \in Papers, DeletePaper(p), NEW x \in Records
    PROVE  /\ srcrec'[x] \in {NONE} \cup SourceRecord
           /\ Recorded(x)' <=> Recorded(x)
           /\ Recorded(x) =>
                /\ srcrec'[x].by = srcrec[x].by /\ srcrec'[x].outcome = srcrec[x].outcome
                /\ srcrec'[x].paper = IF srcrec[x].paper = p THEN NONE ELSE srcrec[x].paper
  <1>1. CASE srcrec[x] # NONE /\ srcrec[x].paper = p
    <2>1. srcrec'[x] = [srcrec[x] EXCEPT !.paper = NONE] /\ srcrec[x] \in SourceRecord
      BY <1>1 DEF TypeOK, DeletePaper
    <2>2. /\ srcrec'[x] \in SourceRecord /\ srcrec'[x].paper = NONE
          /\ srcrec'[x].by = srcrec[x].by /\ srcrec'[x].outcome = srcrec[x].outcome
      BY <2>1 DEF SourceRecord
    <2> QED
      BY <1>1, <2>2, NoneAssumption DEF Recorded
  <1>2. CASE ~(srcrec[x] # NONE /\ srcrec[x].paper = p)
    BY <1>2 DEF TypeOK, DeletePaper, Recorded
  <1> QED
    BY <1>1, <1>2

\* A deletion takes the paper from the records that name it and from no session that has
\* written; a session that only found it will learn that it is lost.
LEMMA DeletePaperStep ==
    ASSUME IInv, NEW p \in Papers, DeletePaper(p)
    PROVE  IInv'
  <1>1. /\ srcrec \in [Records -> {NONE} \cup SourceRecord] /\ gone' = gone \cup {p}
        /\ papers' = papers \ {p} /\ lost' = [r \in Runs |-> lost[r] \cup (seen[r] \cap {p})]
        /\ UNCHANGED <<run, checkpoint, job, api, crashes, pc, cursor, pos, ins, bulk, seen, made,
                       told>>
    BY DEF IInv, TypeOK, DeletePaper
  <1>2. TypeOK
    BY DEF IInv
  <1>3. \A x \in Records : Recorded(x)' <=> Recorded(x)
    BY <1>2, DeletionClears
  <1>4. TypeOK'
    <2>1. srcrec' \in [Records -> {NONE} \cup SourceRecord]
      <3>1. \A x \in Records : srcrec'[x] \in {NONE} \cup SourceRecord
        BY <1>2, DeletionClears
      <3> QED
        BY <3>1 DEF DeletePaper
    <2>2. papers' \subseteq Papers /\ gone' \subseteq Papers /\ lost' \in [Runs -> SUBSET Papers]
      BY <1>1 DEF IInv, TypeOK
    <2> QED
      BY <1>1, <2>1, <2>2 DEF IInv, TypeOK
  <1>5. CursorCovered'
    BY <1>1, <1>3, FeedAssumption DEF IInv, TypeOK, CursorCovered, Recorded
  <1>6. RecordsResolved'
    <2>1. ASSUME NEW x \in Records, srcrec'[x] # NONE PROVE RecordRight(x)'
      <3>1. srcrec[x] # NONE /\ RecordRight(x)
        BY <1>3, <2>1, RecordsOneByOne DEF IInv, Recorded
      <3>2. /\ srcrec'[x].by = srcrec[x].by /\ srcrec'[x].outcome = srcrec[x].outcome
            /\ srcrec'[x].paper = IF srcrec[x].paper = p THEN NONE ELSE srcrec[x].paper
        BY <1>2, <3>1, DeletionClears DEF Recorded
      <3>3. p # NONE
        BY NoneAssumption
      <3> QED
        BY <1>1, <3>1, <3>2, <3>3 DEF RecordRight
    <2> QED
      BY <2>1 DEF RecordsResolved, RecordRight
  <1>7. ASSUME NEW q \in Runs PROVE SessionInv(q)'
    <2>1. BaseCovered(q)' /\ BatchCovered(q)' /\ OutcomeKnown(q)'
      BY <1>1, <1>3, RowsStay DEF IInv, SessionInv
    <2>4. PaperKnown(q)'
      <3>1. PaperKnown(q) /\ lost'[q] = lost[q] \cup (seen[q] \cap {p})
        BY <1>1 DEF IInv, SessionInv
      <3>2. pc[q] \in Writing => \A x \in Records : link[q][x] # p
        BY DEF DeletePaper
      <3> QED
        BY <1>1, <3>1, <3>2 DEF PaperKnown, RightPaper
    <2>5. Ordered(q)'
      <3>1. \A x \in Records : srcrec'[x] # NONE /\ srcrec'[x].by = q =>
              srcrec[x] # NONE /\ srcrec[x].by = q
        BY <1>2, DeletionClears DEF Recorded
      <3> QED
        BY <1>1, <3>1 DEF IInv, SessionInv, Ordered
    <2> QED
      BY <2>1, <2>4, <2>5 DEF SessionInv
  <1> QED
    BY <1>4, <1>5, <1>6, <1>7 DEF IInv

-----------------------------------------------------------------------------
(* The invariant, and what follows from it.                                *)

\* The initial state satisfies the invariant.
LEMMA InitInv == Init => IInv
  <1> SUFFICES ASSUME Init PROVE IInv
    OBVIOUS
  <1>1. TypeOK
    BY CrashAssumption DEF Init, TypeOK, Steps, InTx, Resolution
  <1>2. CursorCovered /\ RecordsResolved
    BY DEF Init, CursorCovered, RecordsResolved
  <1>3. ASSUME NEW r \in Runs PROVE SessionInv(r)
    BY <1>3, FeedAssumption, ScopeAssumption, NoneAssumption
    DEF Init, SessionInv, BaseCovered, BatchCovered, OutcomeKnown, PaperKnown, RightPaper, Ordered,
         FeedOf
  <1> QED
    BY <1>1, <1>2, <1>3 DEF IInv

\* Every step of a job keeps the invariant.
LEMMA WorkerStep ==
    ASSUME IInv, NEW r \in Runs, Worker(r)
    PROVE  IInv'
  <1>1. CASE LoseFailure(r)
    BY <1>1, AbandonStep DEF LoseFailure
  <1>2. CASE CreateRaises(r)
    BY <1>2, AbandonStep DEF CreateRaises, Resolvable, ToResolve
  <1>3. CASE CheckpointRaises(r)
    BY <1>3, AbandonStep DEF CheckpointRaises
  <1>4. CASE ResolutionRaises(r)
    BY <1>4, AbandonStep DEF ResolutionRaises, Resolved
  <1> QED
    BY <1>1, <1>2, <1>3, <1>4, StartJobStep, BeforeAnswerStep, FetchStep, PersistRowStep,
       NormalizeBatchStep, PrefetchStep, ResolveStep, CheckpointStep, CommitStep,
       AcknowledgeJobStep
    DEF Worker

\* Cron, deadlock detector, timeouts and crashes keep the invariant.
LEMMA EnvironmentStep ==
    ASSUME IInv, NEW r \in Runs, Environment(r)
    PROVE  IInv'
  <1>1. CASE DeadlockVictim(r)
    <2>1. WaitsFor(r) # {}
      BY <1>1 DEF DeadlockVictim
    <2>2. pc[r] # "idle"
      BY <2>1 DEF WaitsFor, PersistWaitsFor, ResolveWaitsFor, CheckpointWaitsFor, Resolvable,
           ToResolve
    <2> QED
      BY <1>1, <2>2, AbandonStep DEF DeadlockVictim
  <1>2. CASE JobAborts(r)
    BY <1>2, AbandonStep DEF JobAborts, InTx
  <1> QED
    BY <1>1, <1>2, HandlerStep, CrashStep DEF Environment

\* The invariant is inductive.
LEMMA NextInv == IInv /\ [Next]_vars => IInv'
  <1> SUFFICES ASSUME IInv, [Next]_vars PROVE IInv'
    OBVIOUS
  <1>1. ASSUME NEW r \in Runs, Handler(r) \/ Worker(r) \/ Environment(r) PROVE IInv'
    BY <1>1, HandlerStep, WorkerStep, EnvironmentStep
  <1>3. ASSUME NEW p \in Papers, DeletePaper(p) PROVE IInv'
    BY <1>3, DeletePaperStep
  <1>2. CASE UNCHANGED vars
    <2>1. TypeOK' /\ CursorCovered' /\ RecordsResolved'
      BY <1>2 DEF vars, IInv, TypeOK, CursorCovered, RecordsResolved
    <2>2. \A q \in Runs : Batched(q)'
      BY <1>2, NoSession DEF vars
    <2>3. \A q \in Runs : Ordered(q)'
      BY <1>2 DEF vars, IInv, SessionInv, Ordered
    <2> QED
      BY <2>1, <2>2, <2>3 DEF IInv, SessionInv, Batched
  <1> QED
    BY <1>1, <1>2, <1>3 DEF Next

\* The inductive invariant holds in every reachable state.
THEOREM Invariance == Spec => []IInv
  BY InitInv, NextInv, PTL DEF Spec

\* Every variable of the model keeps its type; in particular no record is
\* ever committed without an outcome.
THEOREM TypeCorrect == Spec => []TypeOK
  BY Invariance, PTL DEF IInv

\* The committed cursor of a scope never passes a record without a row.
THEOREM CursorNeverPasses == Spec => []CursorCovered
  BY Invariance, PTL DEF IInv

\* A committed record belongs to a finished run; the paper it names exists and is of its
\* work, and it names none only if it failed or such a paper was deleted
\* (modules/ingestion/pipeline.py, 109-203; modules/papers/service.py, 125-140).
THEOREM RecordsAreResolved == Spec => []RecordsResolved
  BY Invariance, PTL DEF IInv

-----------------------------------------------------------------------------
(***************************************************************************)
(* Ingestion implements IngestLedger: whatever jobs, sessions, waits,      *)
(* aborts and crashes do, the committed tables change by atomic imports.   *)
(* Only Commit changes them, so what is left to show is that a commit is   *)
(* an import: that the rows it adds are new, are those of the window it    *)
(* moves the cursor over, and that its papers come from them.              *)
(***************************************************************************)

\* The window a run has fetched is not larger than a source may answer.
Bounded(r) == pc[r] \in Fetched => upto[r] <= base[r] + Limit

\* A row that a transaction has inserted is in no table and in no other transaction.
Exclusive(r) == \A x \in ins[r] : srcrec[x] = NONE /\ \A q \in Runs \ {r} : x \notin ins[q]

\* A paper that a transaction has inserted is the paper of a row it inserted.
MadeFromRows(r) == \A p \in made[r] : \E x \in ins[r] : PaperOf[x] = p

Provenance == \A r \in Runs : Bounded(r) /\ Exclusive(r) /\ MadeFromRows(r)

LEMMA InitProvenance == Init => Provenance
  BY DEF Init, Provenance, Bounded, Exclusive, MadeFromRows, Fetched, Resolving, Writing

-----------------------------------------------------------------------------
\* A step that inserts nothing.
LEMMA QuietKeeps ==
    ASSUME IInv, Provenance, UNCHANGED <<srcrec, ins, made>>, \A q \in Runs : Bounded(q)'
    PROVE  Provenance'
  BY DEF Provenance, Exclusive, MadeFromRows

\* A step that closes the session of a run, or ends its transaction.
LEMMA EmptyKeeps ==
    ASSUME IInv, Provenance, NEW r \in Runs, \A q \in Runs : Bounded(q)',
           ins' = [ins EXCEPT ![r] = {}], made' = [made EXCEPT ![r] = {}],
           \A x \in Records : srcrec'[x] = srcrec[x] \/ x \in ins[r]
    PROVE  Provenance'
<1>1. ins \in [Runs -> SUBSET Records] /\ made \in [Runs -> SUBSET Papers]
  BY DEF IInv, TypeOK
<1>2. ASSUME NEW q \in Runs PROVE Exclusive(q)' /\ MadeFromRows(q)'
  <2>1. CASE q = r
    BY <1>1, <2>1 DEF Exclusive, MadeFromRows
  <2>2. CASE q # r
    BY <1>1, <2>2 DEF Provenance, Exclusive, MadeFromRows
  <2> QED BY <2>1, <2>2
<1> QED BY <1>2 DEF Provenance

\* Only Fetch makes a window, and no later step of the session moves its ends.
LEMMA StillBounded ==
    ASSUME IInv, Provenance, NEW r \in Runs,
           UNCHANGED cursor, \A q \in Runs \ {r} : pc'[q] = pc[q],
           pc[r] \in Fetched \/ pc'[r] \notin Fetched
    PROVE  \A q \in Runs : Bounded(q)'
  BY DEF Provenance, Bounded, cursor

LEMMA QuietStep ==
    ASSUME IInv, Provenance, NEW r \in Runs,
           \/ Handler(r) \/ EnqueueSync(r) \/ SkipSync(r)
           \/ StartJob(r) \/ CheckRun(r) \/ RejectRun(r) \/ ClaimRun(r) \/ Fetch(r)
           \/ FetchRaises(r) \/ CommitFailure(r) \/ NormalizeBatch(r) \/ Prefetch(r)
           \/ SkipRecord(r) \/ FailRecord(r) \/ MatchPaper(r)
           \/ ChooseCheckpoint(r) \/ WriteCheckpoint(r)
    PROVE  Provenance' /\ UNCHANGED <<srcrec, papers, checkpoint>>
<1> USE DEF Fetched, Resolving, Writing, session, cursor, tables
<1>1. pc \in [Runs -> Steps] /\ upto \in [Runs -> Nat] /\ base \in [Runs -> Nat]
  BY DEF IInv, TypeOK
<1>2. CASE Handler(r) \/ EnqueueSync(r) \/ SkipSync(r)
  <2>1. UNCHANGED <<srcrec, papers, checkpoint, session>>
    BY <1>2 DEF Handler, CreateQueuedRun, EnqueueJob, EnqueueReturns, EnqueueRaises, EnqueueSync,
       SkipSync
  <2>2. \A q \in Runs : Bounded(q)'
    BY <2>1 DEF Provenance, Bounded
  <2> QED BY <2>1, <2>2, QuietKeeps
<1>3. CASE StartJob(r) \/ Fetch(r)
  <2>1. UNCHANGED <<srcrec, papers, checkpoint, ins, made>>
    BY <1>3 DEF StartJob, Fetch
  <2>2. CASE StartJob(r)
    <3>1. pc'[r] \notin Fetched
      BY <1>1, <2>2 DEF StartJob
    <3>2. \A q \in Runs \ {r} : pc'[q] = pc[q] /\ base'[q] = base[q] /\ upto'[q] = upto[q]
      BY <1>1, <2>2 DEF StartJob
    <3>3. \A q \in Runs : Bounded(q)'
      BY <3>1, <3>2 DEF Provenance, Bounded
    <3> QED BY <2>1, <3>3, QuietKeeps
  <2>3. CASE Fetch(r)
    <3>1. upto'[r] <= base'[r] + Limit
      BY <1>1, <2>3 DEF Fetch
    <3>2. \A q \in Runs \ {r} : pc'[q] = pc[q] /\ base'[q] = base[q] /\ upto'[q] = upto[q]
      BY <1>1, <2>3 DEF Fetch
    <3>3. \A q \in Runs : Bounded(q)'
      BY <3>1, <3>2 DEF Provenance, Bounded
    <3> QED BY <2>1, <3>3, QuietKeeps
  <2> QED BY <1>3, <2>2, <2>3, <2>1
<1>4. CASE \/ CheckRun(r) \/ RejectRun(r) \/ ClaimRun(r) \/ FetchRaises(r) \/ CommitFailure(r)
           \/ NormalizeBatch(r) \/ Prefetch(r) \/ ChooseCheckpoint(r) \/ WriteCheckpoint(r)
  <2>1. UNCHANGED <<srcrec, papers, checkpoint, ins, made, cursor>>
    BY <1>4 DEF CheckRun, RejectRun, ClaimRun, FetchRaises, CommitFailure, NormalizeBatch,
       Prefetch, ChooseCheckpoint, Resolved, ToCheckpoint, WriteCheckpoint
  <2>2. \A q \in Runs \ {r} : pc'[q] = pc[q]
    BY <1>1, <1>4 DEF CheckRun, RejectRun, ClaimRun, FetchRaises, CommitFailure, NormalizeBatch,
       Prefetch, ChooseCheckpoint, Resolved, ToCheckpoint, WriteCheckpoint
  <2>3. pc[r] \in Fetched \/ pc'[r] \notin Fetched
    BY <1>1, <1>4 DEF CheckRun, RejectRun, ClaimRun, FetchRaises, CommitFailure, NormalizeBatch,
       Prefetch, ChooseCheckpoint, Resolved, ToCheckpoint, WriteCheckpoint
  <2> QED BY <2>1, <2>2, <2>3, StillBounded, QuietKeeps
<1>5. CASE SkipRecord(r) \/ FailRecord(r) \/ MatchPaper(r)
  <2>1. UNCHANGED <<srcrec, papers, checkpoint, ins, made, cursor>>
    BY <1>5 DEF SkipRecord, FailRecord, MatchPaper
  <2>2. \A q \in Runs \ {r} : pc'[q] = pc[q]
    BY <1>1, <1>5 DEF SkipRecord, FailRecord, MatchPaper, NextRecord
  <2>3. pc[r] \in Fetched
    BY <1>5 DEF SkipRecord, FailRecord, MatchPaper, Resolvable, ToResolve
  <2> QED BY <2>1, <2>2, <2>3, StillBounded, QuietKeeps
<1> QED BY <1>2, <1>3, <1>4, <1>5

LEMMA CloseStep ==
    ASSUME IInv, Provenance, NEW r \in Runs,
           \/ LoseFailure(r) \/ CreateRaises(r) \/ ResolutionRaises(r)
           \/ CheckpointRaises(r) \/ AcknowledgeJob(r)
           \/ DeadlockVictim(r) \/ JobAborts(r) \/ Crash(r)
    PROVE  Provenance' /\ UNCHANGED <<srcrec, papers, checkpoint>>
<1>1. CloseSession(r) /\ UNCHANGED <<srcrec, papers, checkpoint>>
  BY DEF LoseFailure, CreateRaises, ResolutionRaises, CheckpointRaises, AcknowledgeJob,
       DeadlockVictim, JobAborts,
     Crash, Abandon, tables
<1>2. pc \in [Runs -> Steps] /\ upto \in [Runs -> Nat] /\ base \in [Runs -> Nat]
  BY DEF IInv, TypeOK
<1>3. pc'[r] \notin Fetched
  BY <1>1, <1>2 DEF CloseSession, Fetched, Resolving, Writing
<1>4. \A q \in Runs \ {r} : pc'[q] = pc[q] /\ base'[q] = base[q] /\ upto'[q] = upto[q]
  BY <1>1, <1>2 DEF CloseSession
<1>5. \A q \in Runs : Bounded(q)'
  BY <1>3, <1>4 DEF Provenance, Bounded
<1>6. ins' = [ins EXCEPT ![r] = {}] /\ made' = [made EXCEPT ![r] = {}]
  BY <1>1 DEF CloseSession
<1>7. \A x \in Records : srcrec'[x] = srcrec[x]
  BY <1>1
<1> QED BY <1>1, <1>5, <1>6, <1>7, EmptyKeeps

LEMMA PersistStep ==
    ASSUME IInv, Provenance, NEW r \in Runs, PersistRow(r)
    PROVE  Provenance' /\ UNCHANGED <<srcrec, papers, checkpoint>>
<1> DEFINE x == Current(r)
<1>1. /\ ins \in [Runs -> SUBSET Records]
      /\ UNCHANGED <<srcrec, papers, checkpoint, made, pc, cursor>>
  BY DEF IInv, TypeOK, PersistRow, tables
<1>2. \A q \in Runs : Bounded(q)'
  BY <1>1 DEF Provenance, Bounded, cursor
<1>3. CASE srcrec[x] # NONE
  <2>1. ins' = ins
    BY <1>3 DEF PersistRow
  <2> QED BY <1>1, <1>2, <2>1, QuietKeeps
<1>4. CASE srcrec[x] = NONE
  <2>1. ins' = [ins EXCEPT ![r] = @ \cup {x}]
    BY <1>4 DEF PersistRow
  <2>2. \A q \in Runs \ {r} : x \notin ins[q]
    BY DEF PersistRow, PersistWaitsFor
  <2> HIDE DEF x
  <2>3. ASSUME NEW q \in Runs PROVE Exclusive(q)' /\ MadeFromRows(q)'
    <3>1. CASE q = r
      <4>1. ins'[r] = ins[r] \cup {x} /\ \A s \in Runs \ {r} : ins'[s] = ins[s]
        BY <1>1, <2>1
      <4>2. Exclusive(r)'
        BY <1>1, <1>4, <2>2, <4>1 DEF Provenance, Exclusive
      <4>3. MadeFromRows(r)'
        BY <1>1, <4>1 DEF Provenance, MadeFromRows
      <4> QED BY <3>1, <4>2, <4>3
    <3>2. CASE q # r
      <4>1. ins'[r] = ins[r] \cup {x} /\ \A s \in Runs \ {r} : ins'[s] = ins[s]
        BY <1>1, <2>1
      <4>2. Exclusive(q)'
        BY <1>1, <2>2, <3>2, <4>1 DEF Provenance, Exclusive
      <4>3. MadeFromRows(q)'
        BY <1>1, <3>2, <4>1 DEF Provenance, MadeFromRows
      <4> QED BY <4>2, <4>3
    <3> QED BY <3>1, <3>2
  <2> QED BY <1>1, <1>2, <2>3 DEF Provenance
<1> QED BY <1>3, <1>4

LEMMA CreateStep ==
    ASSUME IInv, Provenance, NEW r \in Runs, CreatePaper(r)
    PROVE  Provenance' /\ UNCHANGED <<srcrec, papers, checkpoint>>
<1> DEFINE x == Current(r)
<1>1. /\ pc \in [Runs -> Steps] /\ made \in [Runs -> SUBSET Papers]
      /\ UNCHANGED <<srcrec, papers, checkpoint, ins, cursor>>
  BY DEF IInv, TypeOK, CreatePaper, tables
<1>2. x \in ins[r] /\ made' = [made EXCEPT ![r] = @ \cup {PaperOf[x]}]
  BY DEF CreatePaper, Resolvable
<1>3. /\ \A q \in Runs \ {r} : pc'[q] = pc[q]
      /\ pc[r] \in Fetched
  BY <1>1 DEF CreatePaper, NextRecord, Resolvable, ToResolve, Fetched, Resolving
<1>4. \A q \in Runs : Bounded(q)'
  BY <1>1, <1>3, StillBounded
<1> HIDE DEF x
<1>5. \A q \in Runs : Exclusive(q)'
  BY <1>1 DEF Provenance, Exclusive
<1>6. \A q \in Runs : MadeFromRows(q)'
  BY <1>1, <1>2 DEF Provenance, MadeFromRows
<1> QED BY <1>1, <1>4, <1>5, <1>6 DEF Provenance

LEMMA CommitKeeps ==
    ASSUME IInv, Provenance, NEW r \in Runs, Commit(r)
    PROVE  Provenance'
<1>1. pc \in [Runs -> Steps] /\ srcrec' = [x \in Records |->
          IF x \in ins[r] THEN [by |-> r, outcome |-> res[r][x], paper |-> link[r][x]]
                         ELSE srcrec[x]]
  BY DEF IInv, TypeOK, Commit
<1>2. /\ UNCHANGED cursor /\ \A q \in Runs \ {r} : pc'[q] = pc[q]
      /\ pc[r] \in Fetched
  BY <1>1 DEF Commit, Fetched, Writing
<1>3. ins' = [ins EXCEPT ![r] = {}] /\ made' = [made EXCEPT ![r] = {}]
  BY DEF Commit
<1>4. \A x \in Records : srcrec'[x] = srcrec[x] \/ x \in ins[r]
  BY <1>1
<1> QED BY <1>2, <1>3, <1>4, StillBounded, EmptyKeeps

-----------------------------------------------------------------------------
\* A commit is the import of the window its session has fetched.
LEMMA CommitImports ==
    ASSUME IInv, Provenance, NEW r \in Runs, Commit(r)
    PROVE  Ledger!Next
<1> DEFINE s    == ScopeOf[r]
           from == base[r]
           to   == upto[r]
           old  == {x \in Records : srcrec[x] # NONE}
           new  == {x \in Records : srcrec'[x] # NONE}
           Win(a, b) == {Feed[s][i] : i \in (a + 1)..b}
<1>1. /\ pc[r] = "completing" /\ s \in Scopes /\ Feed[s] \in Seq(Records)
      /\ ins \in [Runs -> SUBSET Records] /\ made[r] \subseteq Papers
      /\ checkpoint \in [Scopes -> Nat \cup {NONE}]
  BY ScopeAssumption, FeedAssumption DEF IInv, TypeOK, Commit
<1>2. from \in Nat /\ to \in Nat /\ from <= to /\ to <= Len(Feed[s]) /\ to <= from + Limit
  <2>1. from \in Nat /\ to \in Nat
    BY DEF IInv, TypeOK
  <2>2. from <= to /\ to <= Len(Feed[s])
    BY <1>1 DEF IInv, SessionInv, BatchCovered, Fetched, Writing, FeedOf
  <2>3. to <= from + Limit
    BY <1>1 DEF Provenance, Bounded, Fetched, Writing
  <2> QED BY <2>1, <2>2, <2>3
<1>3. \A i \in 1..from : Feed[s][i] \in old
  <2>1. \A i \in 1..from : i \in 1..Len(Feed[s])
    BY <1>1, <1>2
  <2>2. \A i \in 1..from : srcrec[Feed[s][i]] # NONE
    BY DEF IInv, SessionInv, BaseCovered, Recorded, FeedOf
  <2> QED BY <1>1, <2>1, <2>2
<1>4. srcrec' = [x \in Records |->
          IF x \in ins[r] THEN [by |-> r, outcome |-> res[r][x], paper |-> link[r][x]]
                         ELSE srcrec[x]]
  BY DEF Commit
<1>5. new = old \cup ins[r] /\ new \ old = ins[r]
  <2>1. \A x \in ins[r] : /\ [by |-> r, outcome |-> res[r][x], paper |-> link[r][x]] # NONE
                          /\ x \in Records
    <3>1. \A x \in ins[r] : res[r][x] \in Resolution /\ link[r][x] \in Papers \cup {NONE}
      BY <1>1 DEF IInv, TypeOK, SessionInv, OutcomeKnown, Writing, Resolution
    <3>2. \A x \in ins[r] : [by |-> r, outcome |-> res[r][x], paper |-> link[r][x]] \in SourceRecord
      BY <3>1 DEF SourceRecord
    <3> QED BY <1>1, <3>2, NoneAssumption
  <2>2. \A x \in ins[r] : srcrec[x] = NONE
    BY DEF Provenance, Exclusive
  <2> QED BY <1>4, <2>1, <2>2
<1>6. \A i \in (from + 1)..to : Feed[s][i] \in old \cup ins[r]
  <2>1. \A i \in (from + 1)..to : i \in 1..Len(Feed[s])
    BY <1>1, <1>2
  <2>2. \A i \in (from + 1)..to : srcrec[Feed[s][i]] # NONE \/ Feed[s][i] \in ins[r]
    BY <1>1 DEF IInv, SessionInv, BatchCovered, HasRow, Recorded, Writing, FeedOf
  <2> QED BY <1>1, <2>1, <2>2
<1>7. \A x \in ins[r] : \E i \in (from + 1)..to : Feed[s][i] = x
  BY <1>1 DEF IInv, SessionInv, BatchCovered, Inserted, Writing, FeedOf
<1>8. new = old \cup Win(from, to) /\ Win(0, from) \subseteq old
  BY <1>3, <1>5, <1>6, <1>7
<1>9. /\ papers \subseteq papers'
      /\ papers' \subseteq papers \cup {PaperOf[x] : x \in new \ old}
  <2>1. papers' = papers \cup made[r]
    BY DEF Commit
  <2>2. \A p \in made[r] : \E x \in ins[r] : PaperOf[x] = p
    BY DEF Provenance, MadeFromRows
  <2> QED BY <1>5, <2>1, <2>2
<1>10. [q \in Scopes |-> IF checkpoint'[q] = NONE THEN 0 ELSE checkpoint'[q]]
         = [[q \in Scopes |-> IF checkpoint[q] = NONE THEN 0 ELSE checkpoint[q]] EXCEPT ![s] = to]
  <2>1. checkpoint' = [checkpoint EXCEPT ![s] = to]
    BY DEF Commit
  <2>2. to # NONE
    BY <1>2, NoneAssumption
  <2> QED BY <1>1, <2>1, <2>2
<1>11. from \in 0..Len(Feed[s]) /\ to \in 0..Len(Feed[s])
  BY <1>1, <1>2
<1> HIDE DEF from, to, s
<1>12. Ledger!Import(s)
  BY <1>2, <1>8, <1>9, <1>10, <1>11 DEF Ledger!Import, Ledger!Window
<1> QED BY <1>1, <1>12 DEF Ledger!Next

\* A deletion takes one paper from the ledger's library and nothing else.
LEMMA DeletionRefines ==
    ASSUME IInv, Provenance, NEW p \in Papers, DeletePaper(p)
    PROVE  Provenance' /\ Ledger!Next
<1>1. /\ UNCHANGED <<checkpoint, ins, made, pc, cursor>> /\ p \in papers
      /\ papers' = papers \ {p} /\ ins \in [Runs -> SUBSET Records]
  BY DEF IInv, TypeOK, DeletePaper
<1>2. \A x \in Records : srcrec'[x] = NONE <=> srcrec[x] = NONE
  BY DeletionClears DEF IInv, Recorded
<1>3. Provenance'
  <2>1. ASSUME NEW r \in Runs PROVE Bounded(r)' /\ Exclusive(r)' /\ MadeFromRows(r)'
    BY <1>1, <1>2 DEF Provenance, Bounded, Exclusive, MadeFromRows
  <2> QED BY <2>1 DEF Provenance
<1>4. {x \in Records : srcrec'[x] # NONE} = {x \in Records : srcrec[x] # NONE}
  BY <1>2
<1>5. Ledger!Delete
  BY <1>1, <1>4 DEF Ledger!Delete
<1> QED BY <1>3, <1>5 DEF Ledger!Next

\* Every other step is invisible in the ledger.
LEMMA StepRefines ==
    ASSUME IInv, Provenance, [Next]_vars
    PROVE  Provenance' /\ [Ledger!Next]_(Ledger!vars)
<1>1. ASSUME UNCHANGED <<srcrec, papers, checkpoint>> PROVE UNCHANGED Ledger!vars
  BY <1>1 DEF Ledger!vars
<1>2. CASE UNCHANGED vars
  <2>1. UNCHANGED <<srcrec, papers, checkpoint, ins, made, pc, cursor>>
    BY <1>2 DEF vars, tables, session
  <2>2. \A q \in Runs : Bounded(q)'
    BY <2>1 DEF Provenance, Bounded, cursor
  <2> QED BY <1>1, <2>1, <2>2, QuietKeeps
<1>3. ASSUME NEW r \in Runs, Handler(r) \/ Worker(r) \/ Environment(r)
      PROVE  Provenance' /\ (Ledger!Next \/ UNCHANGED <<srcrec, papers, checkpoint>>)
  <2>1. CASE Commit(r)
    BY <2>1, CommitKeeps, CommitImports
  <2>2. CASE PersistRow(r) \/ CreatePaper(r)
    BY <2>2, PersistStep, CreateStep
  <2>3. CASE \/ LoseFailure(r) \/ CreateRaises(r) \/ ResolutionRaises(r)
             \/ CheckpointRaises(r) \/ AcknowledgeJob(r)
             \/ DeadlockVictim(r) \/ JobAborts(r) \/ Crash(r)
    BY <2>3, CloseStep
  <2>4. CASE \/ Handler(r) \/ EnqueueSync(r) \/ SkipSync(r)
             \/ StartJob(r) \/ CheckRun(r) \/ RejectRun(r) \/ ClaimRun(r) \/ Fetch(r)
             \/ FetchRaises(r) \/ CommitFailure(r) \/ NormalizeBatch(r) \/ Prefetch(r)
             \/ SkipRecord(r) \/ FailRecord(r) \/ MatchPaper(r)
             \/ ChooseCheckpoint(r) \/ WriteCheckpoint(r)
    BY <2>4, QuietStep
  <2> QED BY <1>3, <2>1, <2>2, <2>3, <2>4 DEF Worker, Environment
<1> QED BY <1>1, <1>2, <1>3, DeletionRefines DEF Next

\* The tables start as an empty ledger.
LEMMA InitRefines == Init => Ledger!Init
  BY DEF Init, Ledger!Init

\* Ingestion implements IngestLedger (modules/ingestion/pipeline.py, 30-240, in the
\* transaction of core/database.py): for any runs, feeds, waits, aborts and crashes, the
\* committed tables change only by importing one window of a source, all of it at once.
THEOREM ImportsAreAtomic == Spec => AtomicImport
<1>1. Init => Provenance /\ Ledger!Init
  BY InitProvenance, InitRefines
<1>2. IInv /\ Provenance /\ [Next]_vars => Provenance' /\ [Ledger!Next]_(Ledger!vars)
  BY StepRefines
<1> QED BY <1>1, <1>2, Invariance, PTL DEF Spec, AtomicImport, Ledger!Spec

-----------------------------------------------------------------------------
(***************************************************************************)
(* A run commits its records once: a run of the API is checked before it   *)
(* is executed, and a sync whose run is committed is not executed again.   *)
(***************************************************************************)

Wrote(r) == \E x \in Records : srcrec[x] # NONE /\ srcrec[x].by = r

CommitsOnce(r) == Wrote(r) =>
    /\ pc[r] \in {"idle", "opened", "failing", "committed"}
    /\ r \in SyncRuns => pc[r] = "committed" \/ job[r] = "done"

Once == \A r \in Runs : CommitsOnce(r)

LEMMA InitOnce == Init => Once
  BY DEF Init, Once, CommitsOnce, Wrote

\* A run the step is not about.
LEMMA OthersStay ==
    ASSUME IInv, NEW r \in Runs, Handler(r) \/ Worker(r) \/ Environment(r),
           NEW q \in Runs \ {r}
    PROVE  /\ pc'[q] = pc[q] /\ base'[q] = base[q] /\ upto'[q] = upto[q] /\ pos'[q] = pos[q]
           /\ job'[q] = job[q] \/ (job[q] = "none" /\ job'[q] = "queued")
<1> USE DEF IInv, TypeOK
<1>1. CASE Handler(r) \/ EnqueueSync(r) \/ SkipSync(r)
  BY <1>1 DEF Handler, CreateQueuedRun, EnqueueJob, EnqueueReturns, EnqueueRaises, EnqueueSync,
     SkipSync
<1>2. CASE \/ StartJob(r) \/ CheckRun(r) \/ RejectRun(r) \/ ClaimRun(r) \/ Fetch(r)
           \/ FetchRaises(r) \/ CommitFailure(r) \/ PersistRow(r) \/ NormalizeBatch(r)
           \/ Prefetch(r) \/ ChooseCheckpoint(r) \/ WriteCheckpoint(r) \/ Commit(r)
  BY <1>2 DEF StartJob, CheckRun, RejectRun, ClaimRun, Fetch, FetchRaises, CommitFailure,
     PersistRow, NormalizeBatch, Prefetch, ChooseCheckpoint, Resolved, ToCheckpoint,
     WriteCheckpoint, Commit
<1>3. CASE SkipRecord(r) \/ FailRecord(r) \/ MatchPaper(r) \/ CreatePaper(r)
  BY <1>3 DEF SkipRecord, FailRecord, MatchPaper, CreatePaper, NextRecord
<1>4. CASE \/ LoseFailure(r) \/ CreateRaises(r) \/ ResolutionRaises(r)
           \/ CheckpointRaises(r) \/ AcknowledgeJob(r)
           \/ DeadlockVictim(r) \/ JobAborts(r)
  BY <1>4 DEF LoseFailure, CreateRaises, ResolutionRaises, CheckpointRaises, AcknowledgeJob,
       DeadlockVictim,
     JobAborts, Abandon, CloseSession
<1>5. CASE Crash(r)
  BY <1>5 DEF Crash, CloseSession
<1> QED BY <1>1, <1>2, <1>3, <1>4, <1>5 DEF Worker, Environment

\* Only the commit of a run writes records in its name.
LEMMA WrittenByCommit ==
    ASSUME IInv, NEW r \in Runs, Handler(r) \/ Worker(r) \/ Environment(r),
           NEW q \in Runs, Wrote(q)'
    PROVE  Wrote(q) \/ (q = r /\ Commit(r))
<1>1. CASE Commit(r)
  BY <1>1 DEF Wrote, Commit
<1>2. CASE ~Commit(r)
  <2>1. srcrec' = srcrec
    <3>1. CASE Handler(r) \/ Environment(r)
      BY <3>1 DEF Handler, CreateQueuedRun, EnqueueJob, EnqueueReturns, EnqueueRaises,
         Environment, EnqueueSync, SkipSync, DeadlockVictim, JobAborts, Crash, Abandon
    <3>2. CASE Worker(r)
      BY <1>2, <3>2 DEF Worker, StartJob, CheckRun, RejectRun, ClaimRun, Fetch, FetchRaises,
         LoseFailure, CommitFailure, PersistRow, NormalizeBatch, Prefetch, SkipRecord, FailRecord,
         MatchPaper, CreatePaper, CreateRaises, ChooseCheckpoint, ToCheckpoint, WriteCheckpoint,
         ResolutionRaises, CheckpointRaises, AcknowledgeJob, Abandon
    <3> QED BY <3>1, <3>2
  <2> QED BY <2>1 DEF Wrote
<1> QED BY <1>1, <1>2

\* A session that is executing its run has nothing committed in the run's name.
LEMMA StepOnce ==
    ASSUME IInv, Once, NEW r \in Runs, Handler(r) \/ Worker(r) \/ Environment(r), Wrote(r)'
    PROVE  CommitsOnce(r)'
<1>0. /\ pc \in [Runs -> Steps] /\ job \in [Runs -> {"none", "queued", "running", "done"}]
      /\ Wrote(r) => CommitsOnce(r) /\ job[r] # "none" /\ run[r] # "queued"
  <2>1. Wrote(r) => job[r] # "none"
    BY DEF IInv, SessionInv, Ordered, Wrote
  <2>2. Wrote(r) => run[r] # "queued"
    BY DEF IInv, RecordsResolved, Wrote, Finished, Succeeded
  <2> QED BY <2>1, <2>2 DEF IInv, TypeOK, Once
<1>1. CASE Commit(r)
  <2>1. pc'[r] = "committed"
    BY <1>0, <1>1 DEF Commit
  <2> QED BY <2>1 DEF CommitsOnce
<1>2. CASE ~Commit(r)
  <2>0. /\ pc[r] \in {"idle", "opened", "failing", "committed"}
        /\ r \in SyncRuns => pc[r] = "committed" \/ job[r] = "done"
        /\ job[r] # "none" /\ run[r] # "queued" /\ (r \in ApiRuns \/ r \in SyncRuns)
    BY <1>0, <1>2, WrittenByCommit DEF CommitsOnce
  <2>1. CASE Handler(r) \/ EnqueueSync(r) \/ SkipSync(r)
    <3>1. pc' = pc /\ (job' = job \/ job' = [job EXCEPT ![r] = "done"])
      BY <2>0, <2>1 DEF Handler, CreateQueuedRun, EnqueueJob, EnqueueReturns, EnqueueRaises,
         EnqueueSync, SkipSync
    <3> QED BY <1>0, <2>0, <3>1 DEF CommitsOnce
  <2>2. CASE DeadlockVictim(r) \/ JobAborts(r) \/ LoseFailure(r) \/ AcknowledgeJob(r)
    <3>1. pc' = [pc EXCEPT ![r] = "idle"] /\ job' = [job EXCEPT ![r] = "done"]
      BY <2>2 DEF DeadlockVictim, JobAborts, LoseFailure, AcknowledgeJob, Abandon, CloseSession
    <3> QED BY <1>0, <3>1 DEF CommitsOnce
  <2>3. CASE Crash(r)
    <3>1. pc' = [pc EXCEPT ![r] = "idle"] /\ job[r] = "running"
      BY <2>3 DEF Crash, CloseSession
    <3>2. CASE ~(r \in SyncRuns /\ pc[r] = "committed")
      BY <1>0, <2>0, <3>1, <3>2 DEF CommitsOnce
    <3>3. ASSUME NEW q \in SyncRuns, job[q] = "none",
                 job' = [job EXCEPT ![r] = "done", ![q] = "queued"]
          PROVE  job'[r] = "done"
      BY <1>0, <2>0, <3>3
    <3>4. CASE r \in SyncRuns /\ pc[r] = "committed"
      <4>1. job'[r] = "done"
        BY <2>3, <3>3, <3>4 DEF Crash
      <4> QED BY <1>0, <3>1, <4>1 DEF CommitsOnce
    <3> QED BY <3>2, <3>4
  <2>4. CASE StartJob(r) \/ RejectRun(r) \/ CommitFailure(r)
    <3>1. /\ r \in SyncRuns => job[r] = "done" \/ CommitFailure(r)
          /\ job' = job \/ (job[r] = "queued" /\ r \in ApiRuns)
          /\ r \in ApiRuns => pc'[r] \in {"opened", "failing", "committed"}
          /\ r \in SyncRuns => pc'[r] \in {"failing", "committed"}
          /\ CommitFailure(r) => pc'[r] = "committed"
      BY <1>0, <2>0, <2>4 DEF StartJob, RejectRun, CommitFailure, IInv, SessionInv, Ordered
    <3> QED BY <1>0, <2>0, <2>4, <3>1, RunsAssumption DEF CommitsOnce
  <2> QED
    BY <1>2, <2>0, <2>1, <2>2, <2>3, <2>4
    DEF Worker, Environment, CheckRun, ClaimRun, Fetch, FetchRaises, PersistRow, NormalizeBatch,
        Prefetch, SkipRecord, FailRecord, MatchPaper, CreatePaper, CreateRaises, Resolvable,
        ToResolve, ChooseCheckpoint, Resolved, WriteCheckpoint, ResolutionRaises, CheckpointRaises
<1> QED BY <1>1, <1>2

LEMMA NextOnce == IInv /\ Once /\ [Next]_vars => Once'
<1> SUFFICES ASSUME IInv, Once, [Next]_vars, NEW q \in Runs, Wrote(q)' PROVE CommitsOnce(q)'
  BY DEF Once, CommitsOnce
<1>1. CASE UNCHANGED vars
  BY <1>1 DEF vars, Once, CommitsOnce, Wrote
<1>2. ASSUME NEW p \in Papers, DeletePaper(p) PROVE CommitsOnce(q)'
  <2>1. Wrote(q)
    BY <1>2, DeletionClears DEF IInv, Wrote, Recorded
  <2> QED BY <1>2, <2>1 DEF DeletePaper, Once, CommitsOnce
<1>3. ASSUME NEW r \in Runs, Handler(r) \/ Worker(r) \/ Environment(r) PROVE CommitsOnce(q)'
  <2>1. CASE q = r
    BY <1>3, <2>1, StepOnce
  <2>2. CASE q # r
    <3>1. Wrote(q)
      BY <1>3, <2>2, WrittenByCommit
    <3>2. job[q] # "none"
      BY <3>1 DEF IInv, SessionInv, Ordered, Wrote
    <3>3. pc'[q] = pc[q] /\ job'[q] = job[q]
      BY <1>3, <2>2, <3>2, OthersStay
    <3> QED BY <3>1, <3>3 DEF Once, CommitsOnce
  <2> QED BY <2>1, <2>2
<1> QED BY <1>1, <1>2, <1>3 DEF Next

-----------------------------------------------------------------------------
(***************************************************************************)
(* No paper is created twice.  The unique indexes of papers make a session *)
(* wait for another one that has inserted the same row, so what a session  *)
(* has made is nobody else's and is not committed; what it has made or     *)
(* found of a work, it finds again.                                        *)
(***************************************************************************)

\* The papers of a session are its own.
OwnPapers(r) == made[r] \cap papers = {} /\ \A q \in Runs \ {r} : made[r] \cap made[q] = {}

CreatedBy(r) == {x \in ins[r] : res[r][x] = "created"}

\* Each of them was created by one record, and no other of the session is of its work.
OwnRecords(r) == pc[r] \in Resolving \cup Writing =>
    /\ \A x \in CreatedBy(r) : PaperOf[x] \in made[r]
    /\ \A x, y \in CreatedBy(r) : WorkOf[PaperOf[x]] = WorkOf[PaperOf[y]] => x = y

Creators == OneCreator /\ \A r \in Runs : OwnPapers(r) /\ OwnRecords(r)

\* Nothing is created in the beginning.
LEMMA InitCreators == Init => Creators
  BY DEF Init, Creators, OneCreator, CreatedRecords, OwnPapers, OwnRecords, CreatedBy

\* A step that creates and commits nothing, if it keeps what the session of r created.
LEMMA OthersKeep ==
    ASSUME IInv, Creators, NEW r \in Runs, UNCHANGED <<srcrec, papers>>,
           \A q \in Runs \ {r} : Untouched(q),
           made'[r] \in {made[r], {}}, OwnRecords(r)'
    PROVE  Creators'
<1>1. OneCreator'
  BY DEF Creators, OneCreator, CreatedRecords
<1>2. \A q \in Runs : OwnPapers(q)'
  <2>1. \A q \in Runs : made'[q] \subseteq made[q]
    BY DEF Untouched
  <2> QED BY <2>1 DEF Creators, OwnPapers
<1>3. \A q \in Runs \ {r} : OwnRecords(q)'
  BY DEF Creators, OwnRecords, CreatedBy, Untouched
<1> QED BY <1>1, <1>2, <1>3 DEF Creators

\* The records of a session keep their outcomes while it does not resolve.
LEMMA OutcomesStay ==
    ASSUME IInv, Creators, NEW r \in Runs, UNCHANGED <<srcrec, papers>>,
           \A q \in Runs \ {r} : Untouched(q), made'[r] \in {made[r], {}},
           \/ pc'[r] \notin Resolving \cup Writing
           \/ /\ pc[r] \in Resolving \cup Writing
              /\ ins'[r] = ins[r] /\ made'[r] = made[r]
              /\ \A x \in ins[r] : res'[r][x] = "created" => res[r][x] = "created"
    PROVE  Creators'
<1>1. OwnRecords(r)'
  BY DEF Creators, OwnRecords, CreatedBy
<1> QED BY <1>1, OthersKeep

\* Steps of handlers, and steps of a session before and after it resolves its records.
LEMMA NothingCreated ==
    ASSUME IInv, Creators, NEW r \in Runs,
           \/ Handler(r) \/ EnqueueSync(r) \/ SkipSync(r)
           \/ StartJob(r) \/ CheckRun(r) \/ RejectRun(r) \/ ClaimRun(r) \/ Fetch(r)
           \/ FetchRaises(r) \/ CommitFailure(r) \/ PersistRow(r) \/ Prefetch(r) \/ SkipRecord(r)
           \/ ChooseCheckpoint(r) \/ WriteCheckpoint(r)
    PROVE  Creators'
<1>1. CASE Handler(r) \/ EnqueueSync(r) \/ SkipSync(r)
  <2>1. UNCHANGED <<srcrec, papers, pc, ins, made, res>>
    BY <1>1 DEF Handler, CreateQueuedRun, EnqueueJob, EnqueueReturns, EnqueueRaises, EnqueueSync,
       SkipSync
  <2> QED BY <2>1 DEF Creators, OneCreator, CreatedRecords, OwnPapers, OwnRecords, CreatedBy
<1>2. CASE \/ StartJob(r) \/ CheckRun(r) \/ RejectRun(r) \/ ClaimRun(r) \/ Fetch(r)
           \/ FetchRaises(r) \/ CommitFailure(r) \/ PersistRow(r)
  <2>1. /\ UNCHANGED <<srcrec, papers, made>> /\ pc'[r] \notin Resolving \cup Writing
        /\ \A q \in Runs \ {r} : Untouched(q)
    BY <1>2 DEF IInv, TypeOK, Untouched, StartJob, CheckRun, RejectRun, ClaimRun, Fetch,
       FetchRaises, CommitFailure, PersistRow
  <2> QED BY <2>1, OutcomesStay
<1>3. CASE Prefetch(r) \/ SkipRecord(r) \/ ChooseCheckpoint(r) \/ WriteCheckpoint(r)
  <2>1. /\ UNCHANGED <<srcrec, papers, made, ins, res>> /\ pc[r] \in Resolving \cup Writing
        /\ \A q \in Runs \ {r} : Untouched(q)
    BY <1>3 DEF IInv, TypeOK, Untouched, Prefetch, SkipRecord, NextRecord, ToResolve,
       ChooseCheckpoint, Resolved, ToCheckpoint, WriteCheckpoint
  <2> QED BY <2>1, OutcomesStay
<1> QED BY <1>1, <1>2, <1>3

\* Records that are normalized, matched or failed create nothing.
LEMMA ResolvedOtherwise ==
    ASSUME IInv, Creators, NEW r \in Runs,
           NormalizeBatch(r) \/ FailRecord(r) \/ MatchPaper(r)
    PROVE  Creators'
<1>1. CASE NormalizeBatch(r)
  <2>1. /\ UNCHANGED <<srcrec, papers, made>> /\ \A q \in Runs \ {r} : Untouched(q)
        /\ \A x \in Records : res'[r][x] # "created"
    BY <1>1 DEF IInv, TypeOK, Untouched, NormalizeBatch
  <2>2. ins'[r] \subseteq Records
    BY <1>1 DEF IInv, TypeOK, NormalizeBatch
  <2>3. OwnRecords(r)'
    BY <2>1, <2>2 DEF OwnRecords, CreatedBy
  <2> QED BY <2>1, <2>3, OthersKeep
<1>2. CASE FailRecord(r) \/ MatchPaper(r)
  <2>1. /\ UNCHANGED <<srcrec, papers, made, ins>> /\ pc[r] \in Resolving \cup Writing
        /\ \A q \in Runs \ {r} : Untouched(q)
    BY <1>2 DEF IInv, TypeOK, Untouched, FailRecord, MatchPaper, NextRecord, Resolvable, ToResolve
  <2>2. res \in [Runs -> [Records -> Resolution \cup {"none"}]] /\ ins[r] \subseteq Records
    BY DEF IInv, TypeOK
  <2>3. \E o \in {"failed", "matched"} : res' = [res EXCEPT ![r][Current(r)] = o]
    BY <1>2 DEF FailRecord, MatchPaper
  <2>4. \A x \in ins[r] : res'[r][x] = "created" => res[r][x] = "created"
    BY <2>2, <2>3
  <2> QED BY <2>1, <2>4, OutcomesStay
<1> QED BY <1>1, <1>2

\* A paper that is created is in no table and in no other session.
LEMMA CreatedOnce ==
    ASSUME IInv, Creators, NEW r \in Runs, CreatePaper(r)
    PROVE  Creators'
<1> DEFINE x == Current(r)  p == PaperOf[x]
<1>1. /\ UNCHANGED <<srcrec, papers, ins>> /\ pc[r] \in Resolving \cup Writing
      /\ \A q \in Runs \ {r} : Untouched(q)
      /\ x \in ins[r] /\ ins[r] \subseteq Records
      /\ made'[r] = made[r] \cup {p}
  BY DEF IInv, TypeOK, Untouched, CreatePaper, NextRecord, Resolvable, ToResolve
<1>2. /\ p \notin papers /\ \A q \in Runs \ {r} : p \notin made[q]
      /\ \A m \in made[r] : WorkOf[m] # WorkOf[p]
  BY DEF CreatePaper, Known, Matches, ResolveWaitsFor
<1>3. \A y \in ins[r] : res'[r][y] = IF y = x THEN "created" ELSE res[r][y]
  <2>1. res \in [Runs -> [Records -> Resolution \cup {"none"}]]
    BY DEF IInv, TypeOK
  <2>2. res' = [res EXCEPT ![r][x] = "created"]
    BY DEF CreatePaper
  <2> QED BY <1>1, <2>1, <2>2
<1>4. \A q \in Runs \ {r} : /\ made'[q] = made[q] /\ ins'[q] = ins[q]
                            /\ res'[q] = res[q] /\ pc'[q] = pc[q]
  BY <1>1 DEF Untouched
<1> HIDE DEF x, p
<1>5. OneCreator'
  BY <1>1 DEF Creators, OneCreator, CreatedRecords
<1>6. ASSUME NEW q \in Runs PROVE OwnPapers(q)'
  <2>1. CASE q = r
    BY <1>1, <1>2, <1>4, <2>1 DEF Creators, OwnPapers
  <2>2. CASE q # r
    BY <1>1, <1>2, <1>4, <2>2 DEF Creators, OwnPapers
  <2> QED BY <2>1, <2>2
<1>7. ASSUME NEW q \in Runs PROVE OwnRecords(q)'
  <2>1. CASE q = r
    <3>1. \A y \in ins[r] : res'[r][y] = "created" => y = x \/ y \in CreatedBy(r)
      BY <1>3 DEF CreatedBy
    <3>2. p = PaperOf[x]
      BY DEF x, p
    <3>3. \A y \in CreatedBy(r) : PaperOf[y] \in made[r]
      BY <1>1 DEF Creators, OwnRecords
    <3>4. \A y, z \in CreatedBy(r) : WorkOf[PaperOf[y]] = WorkOf[PaperOf[z]] => y = z
      BY <1>1 DEF Creators, OwnRecords
    <3>5. \A y \in CreatedBy(r)' : y = x \/ y \in CreatedBy(r)
      BY <1>1, <3>1, <2>1 DEF CreatedBy
    <3> QED BY <1>1, <1>2, <2>1, <3>2, <3>3, <3>4, <3>5 DEF OwnRecords
  <2>2. CASE q # r
    BY <1>4, <2>2 DEF Creators, OwnRecords, CreatedBy
  <2> QED BY <2>1, <2>2
<1> QED BY <1>5, <1>6, <1>7 DEF Creators

\* A commit adds papers that were in no table, each with one creator.
LEMMA CommitCreators ==
    ASSUME IInv, Once, Creators, NEW r \in Runs, Commit(r)
    PROVE  Creators'
<1>1. /\ pc[r] = "completing" /\ ins[r] \subseteq Records /\ papers' = papers \cup made[r]
      /\ \A x \in Records : srcrec'[x] =
            IF x \in ins[r] THEN [by |-> r, outcome |-> res[r][x], paper |-> link[r][x]]
                           ELSE srcrec[x]
      /\ pc'[r] = "committed" /\ made'[r] = {}
      /\ \A q \in Runs \ {r} : Untouched(q)
  BY DEF IInv, TypeOK, Untouched, Commit
<1>0. ~Wrote(r)
  BY <1>1 DEF Once, CommitsOnce
<1>2. ASSUME NEW x \in CreatedRecords'
      PROVE  \/ /\ x \in CreatedBy(r) /\ srcrec'[x].by = r
                /\ srcrec'[x].paper = PaperOf[x] /\ PaperOf[x] \in made[r]
             \/ /\ x \in CreatedRecords /\ srcrec'[x] = srcrec[x]
                /\ srcrec[x].paper \in {NONE} \cup papers /\ srcrec[x].by # r
  <2>0. x \in Records /\ srcrec'[x] # NONE /\ srcrec'[x].outcome = "created"
    BY DEF CreatedRecords
  <2>1. CASE x \in ins[r]
    <3>1. srcrec'[x] = [by |-> r, outcome |-> res[r][x], paper |-> link[r][x]]
      BY <1>1, <2>0, <2>1
    <3>2. res[r][x] = "created" /\ srcrec'[x].by = r /\ srcrec'[x].paper = link[r][x]
      BY <2>0, <3>1
    <3>3. x \in CreatedBy(r) /\ link[r][x] = PaperOf[x]
      BY <2>0, <2>1, <3>2 DEF CreatedBy, IInv, SessionInv, PaperKnown, RightPaper
    <3> QED BY <1>1, <3>2, <3>3 DEF Creators, OwnRecords
  <2>2. CASE x \notin ins[r]
    BY <1>0, <1>1, <2>0, <2>2 DEF IInv, RecordsResolved, CreatedRecords, Wrote
  <2> QED BY <2>1, <2>2
<1>3. /\ made[r] \cap papers = {} /\ made[r] \subseteq Papers /\ NONE \notin Papers
      /\ \A x, y \in CreatedBy(r) : WorkOf[PaperOf[x]] = WorkOf[PaperOf[y]] => x = y
  BY <1>1, NoneAssumption DEF IInv, TypeOK, Creators, OwnPapers, OwnRecords
<1>4. OneCreator'
  <2> SUFFICES ASSUME NEW x \in CreatedRecords', NEW y \in CreatedRecords',
                      \/ srcrec'[x].paper # NONE /\ srcrec'[x].paper = srcrec'[y].paper
                      \/ /\ srcrec'[x].by = srcrec'[y].by
                         /\ WorkOf[PaperOf[x]] = WorkOf[PaperOf[y]]
               PROVE  x = y
    BY DEF OneCreator
  <2>1. CASE x \in CreatedBy(r) /\ srcrec'[x].by = r
             /\ srcrec'[x].paper = PaperOf[x] /\ PaperOf[x] \in made[r]
    <3>1. y \in CreatedBy(r) /\ srcrec'[y].paper = PaperOf[y]
      BY <1>2, <1>3, <2>1
    <3> QED BY <1>3, <2>1, <3>1
  <2>2. CASE x \in CreatedRecords /\ srcrec'[x] = srcrec[x] /\ srcrec[x].by # r
             /\ srcrec[x].paper \in {NONE} \cup papers
    <3>1. y \in CreatedRecords /\ srcrec'[y] = srcrec[y]
      BY <1>2, <1>3, <2>2
    <3> QED BY <2>2, <3>1 DEF Creators, OneCreator
  <2> QED BY <1>2, <2>1, <2>2
<1>5. ASSUME NEW q \in Runs PROVE OwnPapers(q)' /\ OwnRecords(q)'
  <2>1. CASE q = r
    BY <1>1, <2>1 DEF OwnPapers, OwnRecords
  <2>2. CASE q # r
    <3>1. made'[q] = made[q] /\ made[q] \cap made[r] = {} /\ made[q] \cap papers = {}
      BY <1>1, <2>2 DEF Creators, OwnPapers, Untouched
    <3>2. \A t \in Runs : made'[t] \subseteq made[t]
      BY <1>1 DEF Untouched
    <3>3. OwnPapers(q)'
      BY <1>1, <3>1, <3>2, <2>2 DEF Creators, OwnPapers
    <3>4. OwnRecords(q)'
      BY <1>1, <2>2 DEF Creators, OwnRecords, CreatedBy, Untouched
    <3> QED BY <3>3, <3>4
  <2> QED BY <2>1, <2>2
<1> QED BY <1>4, <1>5 DEF Creators

\* A session that closes takes what it created with it.
LEMMA CloseCreators ==
    ASSUME IInv, Creators, NEW r \in Runs, CloseSession(r), UNCHANGED <<srcrec, papers>>
    PROVE  Creators'
<1>1. pc'[r] = "idle" /\ made'[r] = {}
  BY DEF IInv, TypeOK, CloseSession
<1> QED BY <1>1, Closed, OutcomesStay DEF IInv

\* A deletion leaves at most fewer records that name a paper.
LEMMA DeletionCreators ==
    ASSUME IInv, Creators, NEW p \in Papers, DeletePaper(p)
    PROVE  Creators'
<1>1. papers' = papers \ {p} /\ UNCHANGED <<pc, ins, made, res>>
  BY DEF DeletePaper
<1>2. ASSUME NEW x \in CreatedRecords'
      PROVE  /\ x \in CreatedRecords /\ srcrec'[x].by = srcrec[x].by
             /\ srcrec'[x].paper # NONE => srcrec'[x].paper = srcrec[x].paper
  BY DeletionClears DEF IInv, CreatedRecords, Recorded
<1>3. OneCreator'
  BY <1>2 DEF Creators, OneCreator
<1>4. \A r \in Runs : OwnPapers(r)' /\ OwnRecords(r)'
  BY <1>1 DEF Creators, OwnPapers, OwnRecords, CreatedBy
<1> QED BY <1>3, <1>4 DEF Creators

\* Every step keeps the creators apart.
LEMMA NextCreators == IInv /\ Once /\ Creators /\ [Next]_vars => Creators'
<1> SUFFICES ASSUME IInv, Once, Creators, [Next]_vars PROVE Creators'
  OBVIOUS
<1>1. CASE UNCHANGED vars
  BY <1>1 DEF vars, Creators, OneCreator, CreatedRecords, OwnPapers, OwnRecords, CreatedBy
<1>2. ASSUME NEW r \in Runs, Handler(r) \/ Worker(r) \/ Environment(r) PROVE Creators'
  <2>1. CASE \/ LoseFailure(r) \/ CreateRaises(r) \/ ResolutionRaises(r)
             \/ CheckpointRaises(r) \/ AcknowledgeJob(r)
             \/ DeadlockVictim(r) \/ JobAborts(r) \/ Crash(r)
    <3>1. CloseSession(r) /\ UNCHANGED <<srcrec, papers>>
      BY <2>1 DEF LoseFailure, CreateRaises, ResolutionRaises, CheckpointRaises, AcknowledgeJob,
           DeadlockVictim,
         JobAborts, Crash, Abandon
    <3> QED BY <3>1, CloseCreators
  <2>2. CASE Commit(r) \/ CreatePaper(r) \/ NormalizeBatch(r) \/ FailRecord(r) \/ MatchPaper(r)
    BY <2>2, CommitCreators, CreatedOnce, ResolvedOtherwise
  <2> QED BY <1>2, <2>1, <2>2, NothingCreated DEF Worker, Environment
<1> QED BY <1>1, <1>2, DeletionCreators DEF Next

\* Of the records that were created, none names the paper of another, and none of its run is
\* of its work (modules/papers/upsert_service.py, 86-151; the unique indexes of papers/models.py,
\* 160-177), in one batch or in batches that overlap, for any number of runs, records and papers.
THEOREM PapersHaveOneCreator == Spec => []OneCreator
<1>1. IInv /\ Once /\ Creators /\ [Next]_vars => Once' /\ Creators'
  BY NextOnce, NextCreators
<1>2. Creators => OneCreator
  BY DEF Creators
<1> QED BY <1>1, <1>2, InitOnce, InitCreators, Invariance, PTL DEF Spec

-----------------------------------------------------------------------------
(***************************************************************************)
(* A run that has succeeded is left alone.  A session may only be at work  *)
(* on a run that has not: a run of the API is checked for it, a sync       *)
(* creates its run, and its job is not handed out again after the commit.  *)
(***************************************************************************)

Unfinished(r) ==
    /\ pc[r] # "idle" => job[r] = "running"
    /\ r \in ApiRuns /\ (api[r] = "idle" \/ pc[r] \in {"checked"} \cup (InTx \ {"failing"}))
          => run[r] \notin Succeeded
    /\ r \in SyncRuns /\ pc[r] # "committed" /\ job[r] # "done" => run[r] \notin Succeeded

NoneRepeated == \A r \in Runs : Unfinished(r)

LEMMA InitUnfinished == Init => NoneRepeated
  BY DEF Init, NoneRepeated, Unfinished, Succeeded

\* What the step of one run has to keep.
LEMMA OneRun ==
    ASSUME NoneRepeated, NEW r \in Runs, Unfinished(r)',
           \A q \in Runs \ {r} : /\ pc'[q] = pc[q] /\ job'[q] = job[q]
                                 /\ api'[q] = api[q] /\ run'[q] = run[q]
    PROVE  NoneRepeated'
  BY DEF NoneRepeated, Unfinished

\* The handler and the cron know the run of the job before anybody is at work on it.
LEMMA HandlerUnfinished ==
    ASSUME IInv, NoneRepeated, NEW r \in Runs, Handler(r) \/ EnqueueSync(r) \/ SkipSync(r)
    PROVE  NoneRepeated'
<1>1. /\ pc' = pc /\ \A q \in Runs \ {r} : job'[q] = job[q] /\ api'[q] = api[q] /\ run'[q] = run[q]
      /\ \/ run' = run
         \/ run'[r] \in {"queued", "failed"}
      /\ \/ api' = api \/ api'[r] # "idle"
      /\ \/ job' = job
         \/ job[r] = "none" /\ job'[r] = "queued"
         \/ r \in SyncRuns /\ job[r] = "queued" /\ job'[r] = "done"
  BY DEF IInv, TypeOK, Handler, CreateQueuedRun, EnqueueJob, EnqueueReturns, EnqueueRaises,
     EnqueueSync, SkipSync
<1>2. job[r] \in {"none", "queued"} => pc[r] = "idle"
  BY DEF IInv, SessionInv, Ordered
<1>3. Unfinished(r)'
  <2>1. CASE run' = run
    BY <1>1, <1>2, <2>1 DEF NoneRepeated, Unfinished, InTx
  <2>2. CASE run'[r] \in {"queued", "failed"}
    BY <1>1, <1>2, <2>2 DEF NoneRepeated, Unfinished, Succeeded
  <2> QED BY <1>1, <2>1, <2>2
<1> QED BY <1>1, <1>3, OneRun

\* A session goes on: it is at work on a run it has checked or that is its own.
LEMMA SessionUnfinished ==
    ASSUME IInv, NoneRepeated, NEW r \in Runs,
           \/ StartJob(r) \/ CheckRun(r) \/ RejectRun(r) \/ ClaimRun(r) \/ Fetch(r)
           \/ FetchRaises(r) \/ CommitFailure(r) \/ PersistRow(r) \/ NormalizeBatch(r)
           \/ Prefetch(r) \/ SkipRecord(r) \/ FailRecord(r) \/ MatchPaper(r) \/ CreatePaper(r)
           \/ ChooseCheckpoint(r) \/ WriteCheckpoint(r) \/ Commit(r)
    PROVE  NoneRepeated'
<1>0. /\ pc \in [Runs -> Steps] /\ job \in [Runs -> {"none", "queued", "running", "done"}]
      /\ run \in [Runs -> {"absent", "queued"} \cup Finished] /\ UNCHANGED api
      /\ r \in ApiRuns \/ r \in SyncRuns
  BY DEF IInv, TypeOK, StartJob, CheckRun, RejectRun, ClaimRun, Fetch, FetchRaises, CommitFailure,
     PersistRow, NormalizeBatch, Prefetch, SkipRecord, FailRecord, MatchPaper, CreatePaper,
     ChooseCheckpoint, Resolved, ToCheckpoint, WriteCheckpoint, Commit
<1>1. CASE StartJob(r)
  <2>1. /\ pc' = [pc EXCEPT ![r] = IF r \in ApiRuns THEN "opened" ELSE "fetching"]
        /\ job' = [job EXCEPT ![r] = "running"] /\ run' = run /\ job[r] = "queued"
    BY <1>1 DEF StartJob
  <2>2. r \in ApiRuns => api[r] # "idle"
    BY <2>1 DEF IInv, SessionInv, Ordered
  <2>3. pc[r] = "idle"
    BY <2>1 DEF IInv, SessionInv, Ordered
  <2>4. Unfinished(r)'
    BY <1>0, <2>1, <2>2, <2>3 DEF NoneRepeated, Unfinished, InTx
  <2> QED BY <1>0, <2>1, <2>4, OneRun
<1>2. CASE CommitFailure(r) \/ Commit(r)
  <2>1. /\ pc' = [pc EXCEPT ![r] = "committed"] /\ job' = job /\ pc[r] \notin {"idle", "committed"}
        /\ \A q \in Runs \ {r} : run'[q] = run[q]
        /\ pc[r] \in InTx
        /\ r \in SyncRuns \/ (pc[r] = "completing" /\ r \in ApiRuns)
    BY <1>0, <1>2 DEF CommitFailure, Commit, InTx
  <2>2. job[r] = "running"
    BY <2>1 DEF NoneRepeated, Unfinished
  <2>3. r \in ApiRuns => api[r] # "idle"
    BY <2>2 DEF IInv, SessionInv, Ordered
  <2>4. pc'[r] = "committed"
    BY <1>0, <2>1
  <2>5. Unfinished(r)'
    BY <1>0, <2>1, <2>2, <2>3, <2>4 DEF Unfinished, InTx
  <2> QED BY <1>0, <2>1, <2>5, OneRun
<1>3. CASE CheckRun(r) \/ RejectRun(r)
  <2>1. /\ job' = job /\ run' = run /\ pc[r] = "opened"
        /\ \/ pc' = [pc EXCEPT ![r] = "checked"] /\ run[r] = "queued"
           \/ pc' = [pc EXCEPT ![r] = "failing"]
    BY <1>3 DEF CheckRun, RejectRun
  <2>2. Unfinished(r)'
    BY <1>0, <2>1 DEF NoneRepeated, Unfinished, Succeeded
  <2> QED BY <1>0, <2>1, <2>2, OneRun
<1>4. CASE \/ ClaimRun(r) \/ Fetch(r) \/ FetchRaises(r) \/ PersistRow(r) \/ NormalizeBatch(r)
           \/ Prefetch(r) \/ SkipRecord(r) \/ FailRecord(r) \/ MatchPaper(r) \/ CreatePaper(r)
           \/ ChooseCheckpoint(r) \/ WriteCheckpoint(r)
  <2>1. /\ job' = job /\ run' = run /\ pc[r] \in {"checked"} \cup (InTx \ {"failing"})
        /\ \E step \in InTx : pc' = [pc EXCEPT ![r] = step]
    BY <1>0, <1>4 DEF InTx, Steps, ClaimRun, Fetch, FetchRaises, PersistRow, NormalizeBatch,
         Prefetch,
       SkipRecord, FailRecord, MatchPaper, CreatePaper, NextRecord, Resolvable, ToResolve,
       ChooseCheckpoint, Resolved, ToCheckpoint, WriteCheckpoint
  <2>2. Unfinished(r)'
    BY <1>0, <2>1 DEF NoneRepeated, Unfinished, InTx
  <2> QED BY <1>0, <2>1, <2>2, OneRun
<1> QED BY <1>1, <1>2, <1>3, <1>4

\* A session that ends leaves its run, and a crashed one is queued with it.
LEMMA EndUnfinished ==
    ASSUME IInv, NoneRepeated, NEW r \in Runs,
           \/ LoseFailure(r) \/ CreateRaises(r) \/ ResolutionRaises(r)
           \/ CheckpointRaises(r) \/ AcknowledgeJob(r)
           \/ DeadlockVictim(r) \/ JobAborts(r) \/ Crash(r)
    PROVE  NoneRepeated'
<1>0. /\ pc \in [Runs -> Steps] /\ job \in [Runs -> {"none", "queued", "running", "done"}]
      /\ pc' = [pc EXCEPT ![r] = "idle"] /\ UNCHANGED <<api, run>>
  BY DEF IInv, TypeOK, LoseFailure, CreateRaises, ResolutionRaises, CheckpointRaises,
       AcknowledgeJob, DeadlockVictim,
     JobAborts, Crash, Abandon, CloseSession
<1>1. CASE job' = [job EXCEPT ![r] = "done"]
  <2>1. Unfinished(r)'
    BY <1>0, <1>1 DEF NoneRepeated, Unfinished, InTx
  <2> QED BY <1>0, <1>1, <2>1, OneRun
<1>2. CASE job[r] = "running" /\ ~(r \in SyncRuns /\ pc[r] = "committed")
           /\ job' = [job EXCEPT ![r] = "queued"]
  <2>1. Unfinished(r)'
    BY <1>0, <1>2 DEF NoneRepeated, Unfinished, InTx
  <2> QED BY <1>0, <1>2, <2>1, OneRun
<1>3. ASSUME NEW t \in SyncRuns, job[t] = "none",
             job' = [job EXCEPT ![r] = "done", ![t] = "queued"]
      PROVE  NoneRepeated'
  <2>1. pc[t] = "idle"
    BY <1>3 DEF IInv, SessionInv, Ordered
  <2>2. ASSUME NEW q \in Runs PROVE Unfinished(q)'
    <3>1. CASE q = t
      BY <1>0, <1>3, <2>1, <3>1, RunsAssumption DEF NoneRepeated, Unfinished, InTx
    <3>2. CASE q # t /\ q = r
      BY <1>0, <1>3, <3>2 DEF NoneRepeated, Unfinished, InTx
    <3>3. CASE q # t /\ q # r
      BY <1>0, <1>3, <3>3 DEF NoneRepeated, Unfinished
    <3> QED BY <3>1, <3>2, <3>3
  <2> QED BY <2>2 DEF NoneRepeated
<1>4. \/ job' = [job EXCEPT ![r] = "done"]
      \/ /\ job[r] = "running" /\ ~(r \in SyncRuns /\ pc[r] = "committed")
         /\ job' = [job EXCEPT ![r] = "queued"]
      \/ \E t \in SyncRuns : job[t] = "none" /\ job' = [job EXCEPT ![r] = "done", ![t] = "queued"]
  BY DEF LoseFailure, CreateRaises, ResolutionRaises, CheckpointRaises, AcknowledgeJob,
       DeadlockVictim, JobAborts,
     Crash, Abandon
<1> QED BY <1>1, <1>2, <1>3, <1>4

\* Every step keeps sessions away from runs that have succeeded, and so leaves these alone.
LEMMA NextUnfinished ==
    ASSUME IInv, NoneRepeated, [Next]_vars
    PROVE  /\ NoneRepeated'
           /\ \A r \in Runs : run[r] \in Succeeded /\ run'[r] # run[r] => api[r] = "enqueueing"
<1>1. CASE UNCHANGED vars
  BY <1>1 DEF vars, NoneRepeated, Unfinished
<1>2. ASSUME NEW r \in Runs, Handler(r) \/ Worker(r) \/ Environment(r) PROVE NoneRepeated'
  BY <1>2, HandlerUnfinished, SessionUnfinished, EndUnfinished DEF Worker, Environment
<1>3. ASSUME NEW r \in Runs, Handler(r) \/ Worker(r) \/ Environment(r)
      PROVE  \A q \in Runs : run[q] \in Succeeded /\ run'[q] # run[q] => api[q] = "enqueueing"
  <2>0. run \in [Runs -> {"absent", "queued"} \cup Finished]
    BY DEF IInv, TypeOK
  <2>1. CASE CreateQueuedRun(r)
    BY <2>0, <2>1 DEF CreateQueuedRun, NoneRepeated, Unfinished
  <2>2. CASE EnqueueRaises(r)
    BY <2>0, <2>2 DEF EnqueueRaises
  <2>3. CASE CommitFailure(r) \/ Commit(r)
    <3>1. /\ \A q \in Runs \ {r} : run'[q] = run[q]
          /\ pc[r] \in InTx /\ pc[r] # "committed" /\ pc[r] # "idle"
          /\ r \in SyncRuns \/ (r \in ApiRuns /\ pc[r] = "completing")
      BY <2>0, <2>3 DEF CommitFailure, Commit, InTx
    <3>2. run[r] \notin Succeeded
      BY <3>1 DEF NoneRepeated, Unfinished, InTx
    <3> QED BY <3>1, <3>2
  <2>4. CASE ~(CreateQueuedRun(r) \/ EnqueueRaises(r) \/ CommitFailure(r) \/ Commit(r))
    <3>1. CASE Handler(r) \/ Environment(r)
      <4>1. run' = run
        BY <2>4, <3>1 DEF Handler, Environment, EnqueueJob, EnqueueReturns, EnqueueSync, SkipSync,
           DeadlockVictim, JobAborts, Crash, Abandon
      <4> QED BY <4>1
    <3>2. CASE Worker(r)
      <4>1. run' = run
        BY <2>4, <3>2 DEF Worker, StartJob, CheckRun, RejectRun, ClaimRun, Fetch, FetchRaises,
           LoseFailure, PersistRow, NormalizeBatch, Prefetch, SkipRecord, FailRecord, MatchPaper,
           CreatePaper, CreateRaises, ChooseCheckpoint, Resolved, ToCheckpoint, WriteCheckpoint,
           ResolutionRaises, CheckpointRaises,
           AcknowledgeJob, Abandon
      <4> QED BY <4>1
    <3> QED BY <1>3, <3>1, <3>2
  <2> QED BY <2>1, <2>2, <2>3, <2>4
<1>6. ASSUME NEW p \in Papers, DeletePaper(p) PROVE NoneRepeated' /\ run' = run
  BY <1>6 DEF DeletePaper, NoneRepeated, Unfinished
<1>4. CASE Next
  BY <1>2, <1>3, <1>4, <1>6 DEF Next
<1>5. CASE UNCHANGED vars
  BY <1>1, <1>5 DEF vars
<1> QED BY <1>4, <1>5

\* A run that has succeeded keeps its status whatever arq delivers again
\* (modules/ingestion/pipeline.py, 65-72), but for a handler that still waits for Redis.
THEOREM RedeliveriesAreHarmless == Spec => RedeliveryHarmless
<1>1. IInv /\ NoneRepeated /\ [Next]_vars =>
        /\ NoneRepeated'
        /\ \A r \in Runs : run[r] \in Succeeded /\ run'[r] # run[r] => api[r] = "enqueueing"
  BY NextUnfinished
<1>2. IInv /\ NoneRepeated /\ [Next]_vars =>
        [\A r \in Runs : run[r] \in Succeeded /\ run'[r] # run[r] => api[r] = "enqueueing"]_vars
  BY <1>1
<1> QED BY <1>1, <1>2, InitUnfinished, Invariance, PTL DEF Spec, RedeliveryHarmless

-----------------------------------------------------------------------------
(***************************************************************************)
(* Why a job ends.  Both loops of the pipeline walk the window that was    *)
(* fetched, the fallback with a lookup for each record; a session that     *)
(* closes or fails is shorter still.                                       *)
(***************************************************************************)

Phase == [idle |-> 0, committed |-> 1, failing |-> 2, completing |-> 2, inserting |-> 3,
          updating |-> 3, resolving |-> 4, lookup |-> 5, persisting |-> 6, fetching |-> 7,
          checked |-> 8, opened |-> 9]

\* A bound on the steps job r has left, from the window it has fetched or will fetch.
Left(r) ==
    IF job[r] = "queued" THEN 10 + 3 * Limit
    ELSE Phase[pc[r]] +
         (CASE pc[r] \in {"opened", "checked", "fetching"} -> 3 * Limit
            [] pc[r] = "persisting" -> 2 * (upto[r] - base[r]) + (upto[r] + 1 - pos[r])
            [] pc[r] \in Resolving -> 2 * (upto[r] + 1 - pos[r])
            [] OTHER -> 0)

\* The steps of the worker at job r lower Left(r), and nobody raises it but arq, which takes
\* a job once and hands it out again only after a crash (jobs/ingestion.py, jobs/worker.py).
JobShrinks ==
    [][\A r \in Runs :
          IF job[r] # "queued" /\ job'[r] = "queued" THEN job[r] = "none" \/ crashes' = crashes + 1
          ELSE /\ Left(r)' <= Left(r)
               /\ Worker(r) => Left(r)' < Left(r)]_vars

\* Where a session stands in its window.
LEMMA WindowBounds ==
    ASSUME IInv, NEW r \in Runs
    PROVE  /\ base[r] \in Nat /\ upto[r] \in Nat /\ pos[r] \in Nat /\ Limit \in Nat /\ Limit > 0
           /\ pc[r] \in Steps /\ job[r] \in {"none", "queued", "running", "done"}
           /\ pc[r] \in Fetched => base[r] <= upto[r]
           /\ pc[r] \in {"persisting"} \cup Resolving => pos[r] <= upto[r] + 1
           /\ pc[r] # "idle" => job[r] \notin {"none", "queued"}
<1>1. BatchCovered(r) /\ OutcomeKnown(r) /\ Ordered(r)
  BY DEF IInv, SessionInv
<1>2. /\ base[r] \in Nat /\ upto[r] \in Nat /\ pos[r] \in Nat
      /\ pc[r] \in Steps /\ job[r] \in {"none", "queued", "running", "done"}
  BY DEF IInv, TypeOK
<1>3. /\ pc[r] \in Fetched => base[r] <= upto[r]
      /\ pc[r] \in {"persisting"} \cup Resolving => pos[r] <= upto[r] + 1
  BY <1>1 DEF BatchCovered, OutcomeKnown
<1>4. pc[r] # "idle" => job[r] \notin {"none", "queued"}
  BY <1>1 DEF Ordered
<1> QED BY <1>2, <1>3, <1>4, LimitAssumption

LEMMA PhaseType == \A s \in Steps : Phase[s] \in Nat /\ (s # "idle" => Phase[s] > 0)
<1> SUFFICES ASSUME NEW s \in Steps PROVE Phase[s] \in Nat /\ (s # "idle" => Phase[s] > 0)
  OBVIOUS
<1>1. CASE s \in {"idle", "opened", "checked", "committed"}
  BY <1>1 DEF Phase
<1>2. CASE s \in {"fetching", "persisting", "lookup", "resolving"}
  BY <1>2 DEF Phase
<1>3. CASE s \in {"inserting", "updating", "completing", "failing"}
  BY <1>3 DEF Phase
<1> QED BY <1>1, <1>2, <1>3 DEF Steps, InTx

LEMMA LeftIsNat ==
    ASSUME IInv, NEW r \in Runs PROVE Left(r) \in Nat /\ Phase[pc[r]] \in Nat
<1>1. Phase[pc[r]] \in Nat
  BY WindowBounds, PhaseType
<1> QED BY <1>1, WindowBounds DEF Left

LeftCounted == \A r \in Runs : Left(r) \in Nat

LEMMA LeftCounts == IInv => LeftCounted
  BY LeftIsNat DEF LeftCounted

LEMMA LeftCountsNext == IInv' => LeftCounted'
  BY LeftCounts, PTL

\* Before the answer of the source, and after the window.
LEMMA OutsideShrinks ==
    ASSUME IInv, NEW r \in Runs,
           \/ StartJob(r) \/ CheckRun(r) \/ RejectRun(r) \/ ClaimRun(r) \/ FetchRaises(r)
           \/ CommitFailure(r) \/ ChooseCheckpoint(r) \/ WriteCheckpoint(r) \/ Commit(r)
    PROVE  Left(r)' < Left(r)
<1>0. /\ pc \in [Runs -> Steps] /\ job \in [Runs -> {"none", "queued", "running", "done"}]
      /\ Limit \in Nat /\ Limit > 0
  BY LimitAssumption DEF IInv, TypeOK
<1>1. CASE StartJob(r)
  <2>1. job[r] = "queued" /\ job'[r] = "running" /\ pc'[r] \in {"opened", "fetching"}
    BY <1>0, <1>1 DEF StartJob
  <2> QED BY <1>0, <2>1 DEF Left, Phase
<1>2. CASE CheckRun(r) \/ ClaimRun(r)
  <2>1. /\ job[r] # "queued" /\ job'[r] # "queued"
        /\ \/ pc[r] = "opened" /\ pc'[r] = "checked"
           \/ pc[r] = "checked" /\ pc'[r] = "fetching"
    BY <1>0, <1>2, WindowBounds DEF CheckRun, ClaimRun
  <2> QED BY <1>0, <2>1 DEF Left, Phase
<1>3. CASE RejectRun(r) \/ FetchRaises(r)
  <2>1. /\ job[r] # "queued" /\ job'[r] # "queued"
        /\ pc[r] \in {"opened", "fetching"} /\ pc'[r] = "failing"
    BY <1>0, <1>3, WindowBounds DEF RejectRun, FetchRaises
  <2> QED BY <1>0, <2>1 DEF Left, Phase
<1>4. CASE CommitFailure(r) \/ WriteCheckpoint(r) \/ Commit(r)
  <2>1. /\ job[r] # "queued" /\ job'[r] # "queued"
        /\ \/ pc[r] \in {"failing", "completing"} /\ pc'[r] = "committed"
           \/ pc[r] \in {"inserting", "updating"} /\ pc'[r] = "completing"
    BY <1>0, <1>4, WindowBounds DEF CommitFailure, WriteCheckpoint, Commit
  <2> QED BY <2>1 DEF Left, Phase
<1>5. CASE ChooseCheckpoint(r)
  <2>1. /\ job[r] # "queued" /\ job'[r] # "queued"
        /\ pc[r] \in Resolving /\ pc'[r] \in {"inserting", "updating"}
    BY <1>0, <1>5, WindowBounds DEF ChooseCheckpoint, Resolved, ToCheckpoint
  <2>2. Left(r)' = 3
    BY <2>1 DEF Left, Phase
  <2>3. Left(r) = Phase[pc[r]] + 2 * (upto[r] + 1 - pos[r]) /\ Phase[pc[r]] \in {4, 5}
    BY <2>1 DEF Left, Phase
  <2> QED BY <2>1, <2>2, <2>3, WindowBounds
<1> QED BY <1>1, <1>2, <1>3, <1>4, <1>5

\* The source answers, and the window is walked twice.
LEMMA WindowShrinks ==
    ASSUME IInv, NEW r \in Runs,
           \/ Fetch(r) \/ PersistRow(r) \/ NormalizeBatch(r) \/ Prefetch(r)
           \/ SkipRecord(r) \/ FailRecord(r) \/ MatchPaper(r) \/ CreatePaper(r)
    PROVE  Left(r)' < Left(r)
<1>0. /\ pc \in [Runs -> Steps] /\ job' = job /\ job[r] # "queued"
      /\ pos \in [Runs -> Nat] /\ upto \in [Runs -> Nat] /\ base' = base
  BY WindowBounds DEF IInv, TypeOK, Fetch, PersistRow, NormalizeBatch, Prefetch, SkipRecord,
     FailRecord, MatchPaper, CreatePaper, Resolvable, ToResolve
<1>1. CASE Fetch(r)
  <2>1. PICK last \in base[r]..Len(FeedOf(r)) :
          last <= base[r] + Limit /\ upto' = [upto EXCEPT ![r] = last]
    BY <1>1 DEF Fetch
  <2>2. /\ pc[r] = "fetching" /\ pc'[r] = "persisting" /\ upto'[r] = last
        /\ pos'[r] = base[r] + 1
    BY <1>0, <1>1, <2>1 DEF Fetch
  <2>3. Left(r) = 7 + 3 * Limit
    BY <1>0, <2>2 DEF Left, Phase
  <2>4. Left(r)' = 6 + (2 * (last - base[r]) + (last + 1 - (base[r] + 1)))
    BY <1>0, <2>2 DEF Left, Phase
  <2>5. last \in Int
    OBVIOUS
  <2> QED BY <2>1, <2>3, <2>4, <2>5, WindowBounds
<1>2. CASE PersistRow(r)
  <2>1. /\ pc[r] = "persisting" /\ pc'[r] = "persisting" /\ upto'[r] = upto[r]
        /\ pos'[r] = pos[r] + 1
    BY <1>0, <1>2 DEF PersistRow
  <2>2. Left(r) = 6 + (2 * (upto[r] - base[r]) + (upto[r] + 1 - pos[r]))
    BY <1>0, <2>1 DEF Left, Phase
  <2>3. Left(r)' = 6 + (2 * (upto[r] - base[r]) + (upto[r] + 1 - (pos[r] + 1)))
    BY <1>0, <2>1 DEF Left, Phase
  <2> QED BY <2>2, <2>3, WindowBounds
<1>3. CASE NormalizeBatch(r)
  <2>1. /\ pc[r] = "persisting" /\ pc'[r] = "lookup" /\ upto'[r] = upto[r]
        /\ pos'[r] = base[r] + 1
    BY <1>0, <1>3 DEF NormalizeBatch
  <2>2. Left(r) = 6 + (2 * (upto[r] - base[r]) + (upto[r] + 1 - pos[r]))
    BY <1>0, <2>1 DEF Left, Phase
  <2>3. Left(r)' = 5 + 2 * (upto[r] + 1 - (base[r] + 1))
    BY <1>0, <2>1 DEF Left, Phase
  <2>4. pos[r] <= upto[r] + 1
    BY <2>1, WindowBounds
  <2> QED BY <2>2, <2>3, <2>4, WindowBounds
<1>4. CASE Prefetch(r)
  <2>1. /\ pc[r] = "lookup" /\ pc'[r] = "resolving" /\ upto'[r] = upto[r] /\ pos'[r] = pos[r]
    BY <1>0, <1>4 DEF Prefetch
  <2>2. Left(r) = 5 + 2 * (upto[r] + 1 - pos[r]) /\ Left(r)' = 4 + 2 * (upto[r] + 1 - pos[r])
    BY <1>0, <2>1 DEF Left, Phase
  <2> QED BY <2>2, WindowBounds
<1>5. CASE SkipRecord(r) \/ FailRecord(r) \/ MatchPaper(r) \/ CreatePaper(r)
  <2>1. /\ pc[r] = "resolving" /\ pc'[r] \in Resolving /\ upto'[r] = upto[r]
        /\ pos'[r] = pos[r] + 1
    BY <1>0, <1>5 DEF SkipRecord, FailRecord, MatchPaper, CreatePaper, Resolvable, ToResolve,
       NextRecord
  <2>2. Left(r) = 4 + 2 * (upto[r] + 1 - pos[r])
    BY <1>0, <2>1 DEF Left, Phase
  <2>3. Left(r)' = Phase[pc'[r]] + 2 * (upto[r] + 1 - (pos[r] + 1)) /\ Phase[pc'[r]] \in {4, 5}
    BY <1>0, <2>1 DEF Left, Phase
  <2> QED BY <2>2, <2>3, WindowBounds
<1> QED BY <1>1, <1>2, <1>3, <1>4, <1>5

\* A session that is closed has nothing left to do.
LEMMA CloseShrinks ==
    ASSUME IInv, NEW r \in Runs, CloseSession(r), job'[r] # "queued"
    PROVE  Left(r)' = 0 /\ (pc[r] # "idle" => Left(r)' < Left(r))
<1>1. pc'[r] = "idle"
  BY DEF IInv, TypeOK, CloseSession
<1>2. Left(r)' = 0
  BY <1>1 DEF Left, Phase
<1>3. pc[r] # "idle" => Phase[pc[r]] > 0
  BY WindowBounds, PhaseType
<1>4. pc[r] # "idle" => Left(r) > 0
  BY <1>3, LeftIsNat, WindowBounds DEF Left
<1> QED BY <1>2, <1>4

LEMMA WorkerShrinks ==
    ASSUME IInv, NEW r \in Runs, Worker(r)
    PROVE  Left(r)' < Left(r)
<1>1. CASE \/ LoseFailure(r) \/ CreateRaises(r) \/ ResolutionRaises(r)
           \/ CheckpointRaises(r) \/ AcknowledgeJob(r)
  <2>1. CloseSession(r) /\ job'[r] = "done" /\ pc[r] # "idle"
    BY <1>1 DEF IInv, TypeOK, LoseFailure, CreateRaises, ResolutionRaises, CheckpointRaises,
         AcknowledgeJob,
       Abandon, Resolvable, ToResolve, Resolved
  <2> QED BY <2>1, CloseShrinks
<1> QED BY <1>1, OutsideShrinks, WindowShrinks DEF Worker

\* Clients, the cron and the deadlock detector make no session longer.
LEMMA EnvironmentShrinks ==
    ASSUME IInv, NEW r \in Runs, Handler(r) \/ Environment(r)
    PROVE  IF job[r] # "queued" /\ job'[r] = "queued" THEN job[r] = "none" \/ crashes' = crashes + 1
           ELSE Left(r)' <= Left(r)
<1>0. Left(r) \in Nat
  BY LeftIsNat
<1>1. CASE Handler(r) \/ EnqueueSync(r) \/ SkipSync(r)
  <2>1. /\ pc' = pc /\ base' = base /\ upto' = upto /\ pos' = pos
        /\ \/ job' = job
           \/ job[r] = "none" /\ job'[r] = "queued"
           \/ job[r] = "queued" /\ job'[r] = "done"
    BY <1>1 DEF IInv, TypeOK, Handler, CreateQueuedRun, EnqueueJob, EnqueueReturns,
       EnqueueRaises, EnqueueSync, SkipSync
  <2>2. CASE job' = job
    BY <1>0, <2>1, <2>2 DEF Left
  <2>3. CASE job[r] = "queued" /\ job'[r] = "done"
    <3>1. pc'[r] = "idle"
      BY <2>1, <2>3, WindowBounds
    <3>2. Left(r)' = 0
      BY <2>3, <3>1 DEF Left, Phase
    <3> QED BY <1>0, <2>3, <3>2
  <2> QED BY <2>1, <2>2, <2>3
<1>2. CASE DeadlockVictim(r) \/ JobAborts(r)
  <2>1. CloseSession(r) /\ job'[r] = "done"
    BY <1>2 DEF IInv, TypeOK, DeadlockVictim, JobAborts, Abandon
  <2> QED BY <1>0, <2>1, CloseShrinks
<1>3. CASE Crash(r)
  <2>1. /\ CloseSession(r) /\ crashes' = crashes + 1 /\ job[r] = "running"
        /\ job'[r] \in {"queued", "done"}
    BY <1>3 DEF IInv, TypeOK, Crash
  <2> QED BY <1>0, <2>1, CloseShrinks
<1> QED BY <1>1, <1>2, <1>3 DEF Environment

LEMMA StepShrinks ==
    ASSUME IInv, IInv', Next, NEW q \in Runs
    PROVE  IF job[q] # "queued" /\ job'[q] = "queued" THEN job[q] = "none" \/ crashes' = crashes + 1
           ELSE /\ Left(q)' <= Left(q)
                /\ Worker(q) => Left(q)' < Left(q)
<1>0. Left(q) \in Nat /\ Left(q)' \in Nat
  BY LeftIsNat, LeftCountsNext DEF LeftCounted
<1>1. CASE Worker(q)
  <2>1. Left(q)' < Left(q)
    BY <1>1, WorkerShrinks
  <2>2. job'[q] = "queued" => job[q] = "queued"
    <3>1. job' = job \/ job' = [job EXCEPT ![q] = "running"] \/ job' = [job EXCEPT ![q] = "done"]
      BY <1>1 DEF Worker, StartJob, CheckRun, RejectRun, ClaimRun, Fetch, FetchRaises,
         LoseFailure, CommitFailure, PersistRow, NormalizeBatch, Prefetch, SkipRecord, FailRecord,
         MatchPaper, CreatePaper, CreateRaises, ChooseCheckpoint, ToCheckpoint, WriteCheckpoint,
         ResolutionRaises, CheckpointRaises, Commit, AcknowledgeJob, Abandon
    <3> QED BY <3>1 DEF IInv, TypeOK
  <2>3. Left(q)' <= Left(q)
    BY <1>0, <2>1
  <2> QED BY <2>1, <2>2, <2>3
<1>3. ASSUME NEW p \in Papers, DeletePaper(p) PROVE Left(q)' = Left(q) /\ job' = job
  BY <1>3 DEF DeletePaper, Left
<1>2. CASE ~Worker(q) /\ \E r \in Runs : Handler(r) \/ Worker(r) \/ Environment(r)
  <2>1. PICK r \in Runs : Handler(r) \/ Worker(r) \/ Environment(r)
    BY <1>2
  <2>2. CASE r = q
    BY <1>2, <2>1, <2>2, EnvironmentShrinks
  <2>3. CASE r # q
    <3>1. /\ pc'[q] = pc[q] /\ base'[q] = base[q] /\ upto'[q] = upto[q] /\ pos'[q] = pos[q]
          /\ job'[q] = job[q] \/ (job[q] = "none" /\ job'[q] = "queued")
      BY <2>1, <2>3, OthersStay
    <3>2. job'[q] = job[q] => Left(q)' = Left(q)
      BY <3>1 DEF Left
    <3> QED BY <1>0, <1>2, <3>1, <3>2
  <2> QED BY <2>2, <2>3
<1> QED BY <1>0, <1>1, <1>2, <1>3 DEF Next

\* A job arq hands out is over after a number of steps of its worker that only Limit bounds,
\* through every fallback and whatever others do (modules/ingestion/pipeline.py, 31-233): of
\* EveryJobEnds, fairness only has to add that these steps are taken, and the deadlock
\* detector that they can be.
THEOREM JobsEnd == Spec => JobShrinks
<1> DEFINE Shrinks == \A r \in Runs :
          IF job[r] # "queued" /\ job'[r] = "queued" THEN job[r] = "none" \/ crashes' = crashes + 1
          ELSE /\ Left(r)' <= Left(r)
               /\ Worker(r) => Left(r)' < Left(r)
<1>1. IInv /\ IInv' /\ [Next]_vars => [Shrinks]_vars
  BY StepShrinks
<1> QED BY <1>1, Invariance, PTL DEF Spec, JobShrinks
===============================================================================
