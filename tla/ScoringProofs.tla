---------------------------- MODULE ScoringProofs ----------------------------
(***************************************************************************)
(* Proofs about Scoring: its types, what a job that ended says, that the   *)
(* knowledge of an organization and the score cache stay apart, that it    *)
(* implements ScoreBoard, and that the attempts at a job come to an end.   *)
(***************************************************************************)
EXTENDS Scoring, TLAPS

Work  == [pc : {"idle", "next", "embed", "context", "llm", "cached", "saved", "ack", "done"},
          paper : Papers \cup {NONE}, partial : BOOLEAN,
          weights : Weights, used : Weights, know : SUBSET Orgs]
Batch == [at : Nat \ {0}, ok : Nat, bad : Nat, broken : BOOLEAN]
Row   == [status : Status, completed : Nat, failed : Nat, ended : BOOLEAN]

AtWork == {"embed", "context", "llm", "cached", "saved"}

\* An actor at work has a paper, and knows nothing but what its organization knows.
Placed(w) ==
    /\ w.pc \in AtWork => w.paper \in Papers
    /\ w.know = {} \/ (w.paper \in Papers /\ w.know \subseteq {OrgOf[w.paper]})

Scored(p) == p \in papers => latest[p] # NONE

\* What the row r of a job says when it is final.
AddsUp(j, r) ==
    r.status \in Terminal =>
        /\ r.completed <= Len(PapersOf[j]) /\ r.failed <= Len(PapersOf[j])
        /\ Len(PapersOf[j]) <= r.completed + r.failed
        /\ r.status = "completed" <=> r.failed = 0

\* What the task of a job has counted is what it has done: every paper before the one at hand
\* counts as completed, as failed or as both.
Tally(j) ==
    /\ batch[j].ok < batch[j].at /\ batch[j].bad < batch[j].at
    /\ batch[j].at <= batch[j].ok + batch[j].bad + 1
    /\ batch[j].at <= Len(PapersOf[j]) + 1
    /\ work[j].pc \in AtWork =>
          batch[j].at <= Len(PapersOf[j]) /\ work[j].paper = PapersOf[j][batch[j].at]
    /\ work[j].pc = "saved" => Scored(work[j].paper)
    /\ batch[j].broken => batch[j].bad # 0
    /\ batch[j].bad = 0 => \A i \in 1..batch[j].at - 1 : Scored(PapersOf[j][i])

\* The cache holds nothing that came from knowledge.
CacheIsClean == \A d \in Dois : cache[d] # NONE => cache[d].know = {}

\* arq has an attempt left for a job it is going to start.
Attempts == \A j \in Jobs : arq[j] \in {"none", "created", "queued"} => tries[j] < MaxTries

IInv ==
    /\ TypeOK /\ (\A a \in Actors : Placed(work[a])) /\ (\A j \in Jobs : Tally(j))
    /\ CacheIsClean /\ KnowledgeStaysHome /\ CompletedIsScored /\ CountsAddUp /\ Attempts

LEMMA Records ==
    /\ Idle \in Work /\ Fresh \in Batch /\ NoJob \in Row
    /\ NONE \notin Papers /\ NONE \notin Dois /\ NONE \notin Entry /\ NONE \notin Score
    /\ Default \in Weights /\ Jobs \subseteq Actors /\ Requests \subseteq Actors
    /\ \A j \in Jobs : j \notin Requests /\ WeightsOf[j] \in Weights /\ PapersOf[j] \in Seq(Papers)
    /\ \A p \in Papers : OrgOf[p] \in Orgs /\ DoiOf[p] \in Dois \cup {NONE}
  BY PapersAssumption, WeightsAssumption, JobsAssumption
     DEF Idle, Work, Fresh, Batch, NoJob, Row, Status, Actors

LEMMA TypesOf ==
    TypeOK <=> /\ papers \subseteq Papers /\ embedded \subseteq papers /\ knowledge \subseteq Orgs
               /\ latest \in [Papers -> Score \cup {NONE}]
               /\ cache \in [Dois -> Entry \cup {NONE}]
               /\ job \in [Jobs -> Row]
               /\ arq \in [Jobs -> {"none", "created", "queued", "running", "done", "lost"}]
               /\ tries \in [Jobs -> 0..MaxTries]
               /\ work \in [Actors -> Work]
               /\ batch \in [Jobs -> Batch]
  BY DEF TypeOK, Work, Batch, Row

LEMMA TypesAfter ==
    ASSUME papers' \subseteq Papers, embedded' \subseteq papers', knowledge' \subseteq Orgs,
           latest' \in [Papers -> Score \cup {NONE}],
           cache' \in [Dois -> Entry \cup {NONE}],
           job' \in [Jobs -> Row],
           arq' \in [Jobs -> {"none", "created", "queued", "running", "done", "lost"}],
           tries' \in [Jobs -> 0..MaxTries],
           work' \in [Actors -> Work],
           batch' \in [Jobs -> Batch]
    PROVE  TypeOK'
  BY DEF TypeOK, Work, Batch, Row

LEMMA InitInv == Init => IInv
<1> SUFFICES ASSUME Init PROVE IInv
  OBVIOUS
<1>1. TypeOK
  BY Records, TypesOf, JobsAssumption DEF Init
<1>2. \A a \in Actors : Placed(work[a])
  BY DEF Init, Idle, Placed, AtWork
<1>3. ASSUME NEW j \in Jobs PROVE Tally(j)
  <2>1. work[j] = Idle /\ batch[j] = Fresh /\ PapersOf[j] \in Seq(Papers)
    BY Records DEF Init
  <2> QED BY <2>1 DEF Idle, Fresh, Tally, AtWork
<1>4. CacheIsClean /\ KnowledgeStaysHome /\ CompletedIsScored /\ CountsAddUp
  BY DEF Init, CacheIsClean, KnowledgeStaysHome, CompletedIsScored, CountsAddUp, NoJob, Terminal
<1>5. Attempts
  BY JobsAssumption DEF Init, Attempts
<1> QED BY <1>1, <1>2, <1>3, <1>4, <1>5 DEF IInv

-----------------------------------------------------------------------------
\* What every kind of step has in common.

\* No step takes the score of a paper away that is still there.
Grows == papers' \subseteq papers /\ \A p \in Papers : Scored(p) => Scored(p)'

LEMMA TallyStays ==
    ASSUME TypeOK, NEW j \in Jobs, Tally(j), Grows, batch'[j] = batch[j], work'[j] = work[j],
           Placed(work[j])
    PROVE  Tally(j)'
<1>1. PapersOf[j] \in Seq(Papers) /\ batch[j] \in Batch /\ j \in Actors /\ work[j] \in Work
  BY Records, TypesOf
<1>2. work[j].pc = "saved" => Scored(work[j].paper)'
  BY <1>1 DEF Grows, Tally, Placed, AtWork
<1>3. batch[j].bad = 0 => \A i \in 1..batch[j].at - 1 : Scored(PapersOf[j][i])'
  BY <1>1 DEF Grows, Tally, Batch
<1> QED BY <1>2, <1>3 DEF Tally

LEMMA TruthStays ==
    ASSUME CompletedIsScored, CountsAddUp, Grows, job' = job
    PROVE  CompletedIsScored' /\ CountsAddUp'
<1>1. \A j \in Jobs : \A i \in 1..Len(PapersOf[j]) : PapersOf[j][i] \in Papers
  BY Records
<1> QED BY <1>1 DEF Grows, Scored, CompletedIsScored, CountsAddUp

\* A step of one actor that moves to w and leaves the tables and the counters alone.
LEMMA Moves ==
    ASSUME IInv, NEW a \in Actors, NEW w \in Work, Placed(w), work' = [work EXCEPT ![a] = w],
           UNCHANGED <<tables, job, queue, batch>>, a \in Jobs => Tally(a)'
    PROVE  IInv'
<1> USE DEF IInv, tables, queue
<1>1. work' \in [Actors -> Work] /\ TypeOK'
  BY TypesOf, TypesAfter
<1>2. Grows
  BY DEF Grows, Scored
<1>3. ASSUME NEW c \in Actors PROVE Placed(work'[c])
  BY TypesOf, <1>3
<1>4. ASSUME NEW j \in Jobs PROVE Tally(j)'
  <2>1. CASE j = a
    BY <2>1
  <2>2. CASE j # a
    BY <1>2, <2>2, TallyStays, TypesOf, Records
  <2> QED BY <2>1, <2>2
<1>5. CacheIsClean' /\ KnowledgeStaysHome' /\ Attempts'
  BY DEF CacheIsClean, KnowledgeStaysHome, Attempts
<1>6. CompletedIsScored' /\ CountsAddUp'
  BY <1>2, TruthStays
<1> QED BY <1>1, <1>3, <1>4, <1>5, <1>6

\* score_paper raises.
LEMMA RaiseTypes ==
    ASSUME IInv, NEW a \in Actors, NEW breaks \in BOOLEAN, Raise(a, breaks),
           a \in Jobs => batch[a].at <= Len(PapersOf[a])
    PROVE  /\ work' \in [Actors -> Work] /\ batch' \in [Jobs -> Batch]
           /\ \A c \in Actors : Placed(work'[c])
           /\ Grows => \A j \in Jobs : Tally(j)'
<1> USE DEF IInv
<1> DEFINE w == [Idle EXCEPT !.pc = IF a \in Jobs THEN "next" ELSE "done"]
<1>1. w \in Work /\ Placed(w) /\ w.pc \notin AtWork
  BY Records DEF Idle, Work, Placed, AtWork
<1>2. work' = [work EXCEPT ![a] = w]
  BY DEF Raise
<1>3. work' \in [Actors -> Work] /\ \A c \in Actors : Placed(work'[c])
  BY <1>1, <1>2, TypesOf
<1>4. CASE a \in Jobs
  <2> DEFINE broken == batch[a].broken \/ breaks
             b == [batch[a] EXCEPT !.bad = @ + 1, !.at = @ + 1, !.broken = broken]
  <2>1. batch' = [batch EXCEPT ![a] = b] /\ broken \in BOOLEAN
    BY <1>4 DEF Raise
  <2>2. batch[a] \in Batch /\ Tally(a)
    BY <1>4, TypesOf
  <2> HIDE DEF broken
  <2>3. b \in Batch /\ b.at = batch[a].at + 1 /\ b.bad = batch[a].bad + 1 /\ b.ok = batch[a].ok
    <3> DEFINE at == batch[a].at + 1
               bad == batch[a].bad + 1
    <3>1. at \in Nat \ {0} /\ bad \in Nat
      BY <2>2 DEF Batch
    <3>2. b = [batch[a] EXCEPT !.bad = bad, !.at = at, !.broken = broken]
      OBVIOUS
    <3> HIDE DEF b, at, bad
    <3>3. b \in Batch /\ b.at = at /\ b.bad = bad /\ b.ok = batch[a].ok
      BY <2>1, <2>2, <3>1, <3>2 DEF Batch
    <3> QED BY <3>3 DEF at, bad
  <2>4. batch' \in [Jobs -> Batch] /\ batch'[a] = b
    BY <1>4, <2>1, <2>3, TypesOf
  <2>5. PapersOf[a] \in Seq(Papers) /\ batch[a].at <= Len(PapersOf[a])
    BY <1>4, Records
  <2>6. work'[a] = w
    BY <1>2, TypesOf
  <2>7. /\ b.bad # 0 /\ b.ok < b.at /\ b.bad < b.at /\ b.at <= b.ok + b.bad + 1
        /\ b.at <= Len(PapersOf[a]) + 1
    <3>1. /\ batch[a].ok \in Nat /\ batch[a].bad \in Nat /\ batch[a].at \in Nat
          /\ Len(PapersOf[a]) \in Nat /\ batch[a].ok < batch[a].at
          /\ batch[a].bad < batch[a].at /\ batch[a].at <= batch[a].ok + batch[a].bad + 1
          /\ batch[a].at <= Len(PapersOf[a])
      BY <2>2, <2>5 DEF Tally, Batch
    <3>2. /\ batch[a].ok < batch[a].at + 1 /\ batch[a].bad + 1 < batch[a].at + 1
          /\ batch[a].at + 1 <= batch[a].ok + (batch[a].bad + 1) + 1
      BY <3>1
    <3>3. batch[a].bad + 1 # 0
      BY <3>1
    <3>4. batch[a].at + 1 <= Len(PapersOf[a]) + 1
      BY <3>1
    <3> HIDE DEF b
    <3> QED BY <2>3, <3>2, <3>3, <3>4
  <2>8. Tally(a)'
    BY <1>1, <2>4, <2>6, <2>7 DEF Tally, AtWork
  <2>9. ASSUME Grows, NEW j \in Jobs PROVE Tally(j)'
    <3>1. CASE j = a
      BY <3>1, <2>8
    <3>2. CASE j # a
      BY <1>2, <2>1, <2>9, <3>2, TallyStays, TypesOf, Records
    <3> QED BY <3>1, <3>2
  <2> QED BY <1>3, <2>4, <2>9
<1>5. CASE a \notin Jobs
  <2>1. batch' = batch
    BY <1>5 DEF Raise
  <2>2. ASSUME Grows, NEW j \in Jobs PROVE Tally(j)'
    BY <1>2, <1>5, <2>1, <2>2, TallyStays, TypesOf, Records
  <2> QED BY <1>3, <2>1, <2>2, TypesOf
<1> QED BY <1>4, <1>5

LEMMA Raises ==
    ASSUME IInv, NEW a \in Actors, NEW breaks \in BOOLEAN, Raise(a, breaks),
           UNCHANGED <<tables, job, queue>>, a \in Jobs => batch[a].at <= Len(PapersOf[a])
    PROVE  IInv'
<1> USE DEF IInv, tables, queue
<1>1. Grows
  BY DEF Grows, Scored
<1>2. /\ work' \in [Actors -> Work] /\ batch' \in [Jobs -> Batch]
      /\ \A c \in Actors : Placed(work'[c])
      /\ \A j \in Jobs : Tally(j)'
  BY <1>1, RaiseTypes
<1>3. TypeOK'
  BY <1>2, TypesOf, TypesAfter
<1>4. CacheIsClean' /\ KnowledgeStaysHome' /\ CompletedIsScored' /\ CountsAddUp' /\ Attempts'
  BY <1>1, TruthStays DEF CacheIsClean, KnowledgeStaysHome, Attempts
<1> QED BY <1>2, <1>3, <1>4

\* A step of the queue or of the task of a job.
LEMMA JobMoves ==
    ASSUME IInv, UNCHANGED tables,
           NEW j \in Jobs, NEW w \in Work, NEW b \in Batch, NEW r \in Row,
           work' = [work EXCEPT ![j] = w], Placed(w),
           batch' = [batch EXCEPT ![j] = b], Tally(j)',
           job' = [job EXCEPT ![j] = r],
           AddsUp(j, r),
           r.status = "completed" => \A i \in 1..Len(PapersOf[j]) : Scored(PapersOf[j][i]),
           arq' \in [Jobs -> {"none", "created", "queued", "running", "done", "lost"}],
           tries' \in [Jobs -> 0..MaxTries], Attempts'
    PROVE  IInv'
<1> USE DEF IInv, tables
<1>1. work' \in [Actors -> Work] /\ batch' \in [Jobs -> Batch] /\ job' \in [Jobs -> Row]
  BY TypesOf, Records
<1>2. TypeOK'
  BY <1>1, TypesOf, TypesAfter
<1>3. Grows
  BY DEF Grows, Scored
<1>4. ASSUME NEW a \in Actors PROVE Placed(work'[a])
  BY TypesOf, <1>4
<1>5. ASSUME NEW k \in Jobs PROVE Tally(k)'
  <2>1. CASE k = j
    BY <2>1
  <2>2. CASE k # j
    BY <1>3, <2>2, TallyStays, TypesOf, Records
  <2> QED BY <2>1, <2>2
<1>6. CacheIsClean' /\ KnowledgeStaysHome'
  BY DEF CacheIsClean, KnowledgeStaysHome
<1>7. \A k \in Jobs : job'[k] = IF k = j THEN r ELSE job[k]
  BY TypesOf
<1>8. CompletedIsScored'
  <2> SUFFICES ASSUME NEW k \in Jobs, job'[k].status = "completed",
                      NEW i \in 1..Len(PapersOf[k]), PapersOf[k][i] \in papers'
               PROVE  latest'[PapersOf[k][i]] # NONE
    BY DEF CompletedIsScored
  <2> QED BY <1>7 DEF CompletedIsScored, Scored
<1>9. CountsAddUp'
  BY <1>7 DEF CountsAddUp, AddsUp
<1> QED BY <1>2, <1>4, <1>5, <1>6, <1>8, <1>9

\* What is told of a job stays true while nothing is said about it.
LEMMA Same ==
    ASSUME IInv, NEW j \in Jobs
    PROVE  /\ work[j] \in Work /\ Placed(work[j]) /\ work = [work EXCEPT ![j] = work[j]]
           /\ batch[j] \in Batch /\ Tally(j) /\ batch = [batch EXCEPT ![j] = batch[j]]
           /\ job[j] \in Row /\ job = [job EXCEPT ![j] = job[j]]
           /\ AddsUp(j, job[j])
           /\ job[j].status = "completed" =>
                 \A i \in 1..Len(PapersOf[j]) : Scored(PapersOf[j][i])
  BY TypesOf, Records DEF IInv, CompletedIsScored, CountsAddUp, AddsUp, Scored

LEMMA QueueStep ==
    ASSUME IInv, NEW j \in Jobs, CreateJob(j) \/ EnqueueJob(j) \/ EnqueueFails(j)
    PROVE  IInv'
<1>1. /\ arq' \in [Jobs -> {"none", "created", "queued", "running", "done", "lost"}]
      /\ UNCHANGED <<tables, tries, work, batch>>
      /\ tries' \in [Jobs -> 0..MaxTries] /\ Attempts'
  BY TypesOf DEF IInv, CreateJob, EnqueueJob, EnqueueFails, Attempts
<1>2. Tally(j)'
  BY <1>1, Same DEF Tally, Scored, tables
<1>3. CASE CreateJob(j)
  <2>1. job' = [job EXCEPT ![j] = NoJob]
    BY <1>3 DEF CreateJob
  <2>2. NoJob \in Row /\ NoJob.status = "pending"
    BY Records DEF NoJob
  <2> QED BY <1>1, <1>2, <2>1, <2>2, Same, JobMoves DEF AddsUp, Terminal
<1>4. CASE EnqueueJob(j) \/ EnqueueFails(j)
  <2>1. job' = job
    BY <1>4 DEF EnqueueJob, EnqueueFails
  <2> QED BY <1>1, <1>2, <2>1, Same, JobMoves
<1> QED BY <1>3, <1>4

LEMMA LeaveStep ==
    ASSUME IInv, NEW j \in Jobs, Ack(j) \/ TimeOut(j) \/ Crash(j)
    PROVE  IInv'
<1>1. /\ arq' \in [Jobs -> {"none", "created", "queued", "running", "done", "lost"}]
      /\ UNCHANGED <<tables, tries, job, batch>>
      /\ tries' \in [Jobs -> 0..MaxTries] /\ Attempts'
      /\ work' = [work EXCEPT ![j] = Idle]
  BY TypesOf DEF IInv, Ack, TimeOut, Crash, Attempts
<1>2. Idle \in Work /\ Placed(Idle) /\ Idle.pc = "idle"
  BY Records DEF Idle, Placed, AtWork
<1>3. work'[j] = Idle
  BY <1>1, TypesOf, Records DEF IInv
<1>4. Tally(j)'
  BY <1>1, <1>2, <1>3, Same DEF Tally, Scored, tables, AtWork
<1> QED BY <1>1, <1>2, <1>4, Same, JobMoves

LEMMA StartTaskStep ==
    ASSUME IInv, NEW j \in Jobs, StartTask(j)
    PROVE  IInv'
<1> DEFINE w == [Idle EXCEPT !.pc = "next"]
           ended == job[j].ended \/ "running" = "completed"
           r == [job[j] EXCEPT !.status = "running", !.ended = ended]
<1>1. /\ w \in Work /\ Placed(w) /\ w.pc = "next"
  BY Records DEF Idle, Work, Placed, AtWork
<1>2. job' = [job EXCEPT ![j] = r] /\ ended \in BOOLEAN
  BY Same DEF StartTask, SetStatus
<1> HIDE DEF ended
<1>3. r \in Row /\ r.status = "running"
  BY <1>2, Same DEF Row, Status
<1>4. /\ arq' \in [Jobs -> {"none", "created", "queued", "running", "done", "lost"}]
      /\ tries' \in [Jobs -> 0..MaxTries] /\ Attempts'
  BY TypesOf, JobsAssumption DEF IInv, StartTask, Attempts
<1>5. work' = [work EXCEPT ![j] = w] /\ batch' = [batch EXCEPT ![j] = Fresh] /\ UNCHANGED tables
  BY DEF StartTask
<1>6. work'[j] = w /\ batch'[j] = Fresh /\ Fresh \in Batch /\ PapersOf[j] \in Seq(Papers)
  BY <1>5, TypesOf, Records DEF IInv
<1>7. Tally(j)'
  BY <1>1, <1>6 DEF Tally, Fresh, AtWork
<1> QED BY <1>1, <1>2, <1>3, <1>4, <1>5, <1>6, <1>7, JobMoves DEF AddsUp, Terminal

LEMMA PaperOfJob ==
    ASSUME IInv, NEW j \in Jobs, Remaining(j)
    PROVE  /\ PapersOf[j] \in Seq(Papers) /\ batch[j].at \in 1..Len(PapersOf[j])
           /\ PapersOf[j][batch[j].at] \in Papers
  BY Same, Records DEF Remaining, Batch

LEMMA StartPaperStep ==
    ASSUME IInv, NEW j \in Jobs, StartPaper(j) \/ PaperFails(j)
    PROVE  IInv'
<1> DEFINE p == PapersOf[j][batch[j].at]
           w == [Idle EXCEPT !.pc = NextPc(p), !.paper = p, !.weights = WeightsOf[j]]
<1>1. p \in Papers /\ j \in Actors /\ batch[j].at <= Len(PapersOf[j])
  BY PaperOfJob, Records DEF StartPaper, PaperFails, Remaining
<1>2. CASE StartPaper(j)
  <2>1. work' = [work EXCEPT ![j] = w] /\ UNCHANGED <<tables, job, queue, batch>>
    BY <1>2 DEF StartPaper
  <2>2. w \in Work /\ Placed(w) /\ w.paper = p /\ w.pc \in {"context", "embed"}
    BY <1>1, Records DEF Idle, Work, Placed, NextPc
  <2>3. work'[j] = w
    BY <2>1, <1>1, TypesOf DEF IInv
  <2>4. Tally(j)'
    BY <1>1, <2>1, <2>2, <2>3, Same DEF Tally, Scored, tables, AtWork
  <2> QED BY <1>1, <2>1, <2>2, <2>4, Moves
<1>3. CASE PaperFails(j)
  <2>1. Raise(j, FALSE) /\ UNCHANGED <<tables, job, queue>>
    BY <1>3 DEF PaperFails
  <2> QED BY <1>1, <2>1, Raises
<1> QED BY <1>2, <1>3

LEMMA ProgressStep ==
    ASSUME IInv, NEW j \in Jobs, Progress(j)
    PROVE  IInv'
<1> DEFINE w == [Idle EXCEPT !.pc = "next"]
           at == batch[j].at + 1
           ok == batch[j].ok + 1
           b == [batch[j] EXCEPT !.ok = ok, !.at = at]
           r == [job[j] EXCEPT !.status = "running", !.completed = ok, !.failed = batch[j].bad]
<1>1. w \in Work /\ Placed(w) /\ w.pc = "next"
  BY Records DEF Idle, Work, Placed, AtWork
<1>2. /\ work' = [work EXCEPT ![j] = w] /\ batch' = [batch EXCEPT ![j] = b]
      /\ job' = [job EXCEPT ![j] = r] /\ UNCHANGED <<tables, queue>>
  BY DEF Progress
<1>3. /\ PapersOf[j] \in Seq(Papers) /\ batch[j].at <= Len(PapersOf[j])
      /\ work[j].paper = PapersOf[j][batch[j].at] /\ Scored(work[j].paper)
  BY Same, Records DEF Progress, Tally, AtWork
<1>4. at \in Nat \ {0} /\ ok \in Nat /\ batch[j].bad \in Nat /\ batch[j].at \in Nat
  BY Same DEF Batch
<1>5. /\ b \in Batch /\ b.at = at /\ b.ok = ok /\ b.bad = batch[j].bad
      /\ b.broken = batch[j].broken /\ r \in Row /\ r.status = "running"
  <2> HIDE DEF ok, at
  <2>1. /\ b \in Batch /\ b.at = at /\ b.ok = ok /\ b.bad = batch[j].bad
        /\ b.broken = batch[j].broken
    BY <1>4, Same DEF Batch
  <2>2. r \in Row /\ r.status = "running"
    BY <1>4, Same DEF Row, Status
  <2> QED BY <2>1, <2>2
<1>6. work'[j] = w /\ batch'[j] = b
  BY <1>2, TypesOf, Records DEF IInv
<1> HIDE DEF b, r, w
<1>7. batch[j].bad = 0 => \A i \in 1..at - 1 : Scored(PapersOf[j][i])
  <2>1. batch[j].bad = 0 => \A i \in 1..batch[j].at - 1 : Scored(PapersOf[j][i])
    BY Same DEF Tally
  <2>2. \A i \in 1..at - 1 : i \in 1..batch[j].at - 1 \/ i = batch[j].at
    BY <1>4
  <2>3. Scored(PapersOf[j][batch[j].at])
    BY <1>3
  <2> HIDE DEF at
  <2> QED BY <2>1, <2>2, <2>3
<1>8. Tally(j)'
  <2>1. \A p : Scored(p)' <=> Scored(p)
    BY <1>2 DEF Scored, tables
  <2>2. /\ batch[j].ok < batch[j].at /\ batch[j].bad < batch[j].at
        /\ batch[j].at <= batch[j].ok + batch[j].bad + 1
        /\ batch[j].broken => batch[j].bad # 0
    BY Same DEF Tally
  <2>3. /\ b.ok < b.at /\ b.bad < b.at /\ b.at <= b.ok + b.bad + 1
        /\ b.at <= Len(PapersOf[j]) + 1
    <3>1. Len(PapersOf[j]) \in Nat /\ batch[j].ok \in Nat
      BY <1>3, Same DEF Batch
    <3>2. /\ batch[j].ok \in Nat /\ batch[j].bad \in Nat /\ batch[j].at \in Nat
          /\ Len(PapersOf[j]) \in Nat
          /\ batch[j].ok < batch[j].at /\ batch[j].bad < batch[j].at
          /\ batch[j].at <= batch[j].ok + batch[j].bad + 1 /\ batch[j].at <= Len(PapersOf[j])
      BY <1>3, <1>4, <2>2, <3>1
    <3>3. /\ batch[j].ok + 1 < batch[j].at + 1 /\ batch[j].bad < batch[j].at + 1
          /\ batch[j].at + 1 <= (batch[j].ok + 1) + batch[j].bad + 1
      BY <3>2
    <3>4. batch[j].at + 1 <= Len(PapersOf[j]) + 1
      BY <3>2
    <3> QED BY <1>5, <3>3, <3>4
  <2>4. b.bad = 0 => \A i \in 1..b.at - 1 : Scored(PapersOf[j][i])'
    BY <1>5, <1>7, <2>1
  <2> HIDE DEF at, ok
  <2> QED BY <1>1, <1>5, <1>6, <2>2, <2>3, <2>4 DEF Tally, AtWork
<1>9. /\ arq' \in [Jobs -> {"none", "created", "queued", "running", "done", "lost"}]
      /\ tries' \in [Jobs -> 0..MaxTries] /\ Attempts'
  BY <1>2, TypesOf DEF IInv, Attempts, queue
<1> QED BY <1>1, <1>2, <1>5, <1>8, <1>9, JobMoves DEF AddsUp, Terminal

LEMMA BothCounts ==
    \A n, at, ok, bad \in Nat :
       ok < at /\ bad < at /\ at <= ok + bad + 1 /\ at <= n =>
          /\ ok + 1 < at + 1 /\ bad + 1 < at + 1 /\ at + 1 <= (ok + 1) + (bad + 1) + 1
          /\ at + 1 <= n + 1 /\ at + 1 \in Nat \ {0} /\ bad + 1 \in Nat \ {0}
          /\ ok + 1 \in Nat
  OBVIOUS

\* The paper counts twice.
LEMMA ProgressRaisesStep ==
    ASSUME IInv, NEW j \in Jobs, ProgressRaises(j)
    PROVE  IInv'
<1>0. PICK breaks \in BOOLEAN :
        batch' = [batch EXCEPT ![j].ok = @ + 1, ![j].bad = @ + 1, ![j].at = @ + 1,
                               ![j].broken = @ \/ breaks]
  BY DEF ProgressRaises
<1> DEFINE w == [Idle EXCEPT !.pc = "next"]
           at == batch[j].at + 1
           ok == batch[j].ok + 1
           bad == batch[j].bad + 1
           broken == batch[j].broken \/ breaks
           b == [batch[j] EXCEPT !.ok = ok, !.bad = bad, !.at = at, !.broken = broken]
<1>1. w \in Work /\ Placed(w) /\ w.pc = "next"
  BY Records DEF Idle, Work, Placed, AtWork
<1>2. /\ work' = [work EXCEPT ![j] = w] /\ batch' = [batch EXCEPT ![j] = b]
      /\ UNCHANGED <<tables, job, queue>> /\ work[j].pc = "saved"
  BY <1>0 DEF ProgressRaises
<1>3. /\ PapersOf[j] \in Seq(Papers) /\ batch[j].at <= Len(PapersOf[j]) /\ batch[j] \in Batch
      /\ batch[j].ok < batch[j].at /\ batch[j].bad < batch[j].at
      /\ batch[j].at <= batch[j].ok + batch[j].bad + 1
  BY <1>2, Same, Records DEF Tally, AtWork
<1>4. /\ at \in Nat \ {0} /\ ok \in Nat /\ bad \in Nat \ {0} /\ broken \in BOOLEAN
      /\ ok < at /\ bad < at /\ at <= ok + bad + 1 /\ at <= Len(PapersOf[j]) + 1
  <2>1. /\ batch[j].ok \in Nat /\ batch[j].bad \in Nat /\ batch[j].at \in Nat
        /\ batch[j].broken \in BOOLEAN /\ Len(PapersOf[j]) \in Nat
    BY <1>3 DEF Batch
  <2>2. broken \in BOOLEAN
    BY <2>1
  <2>3. /\ at \in Nat \ {0} /\ ok \in Nat /\ bad \in Nat \ {0}
        /\ ok < at /\ bad < at /\ at <= ok + bad + 1 /\ at <= Len(PapersOf[j]) + 1
    BY <1>3, <2>1, BothCounts
  <2> HIDE DEF at, ok, bad, broken
  <2> QED BY <2>2, <2>3
<1> HIDE DEF at, ok, bad, broken
<1>5. b \in Batch /\ b.at = at /\ b.ok = ok /\ b.bad = bad /\ b.broken = broken
  BY <1>3, <1>4 DEF Batch
<1>6. work'[j] = w /\ batch'[j] = b
  BY <1>2, TypesOf, Records DEF IInv
<1> HIDE DEF b, w
<1>7. Tally(j)'
  BY <1>1, <1>4, <1>5, <1>6 DEF Tally, AtWork
<1>8. /\ arq' \in [Jobs -> {"none", "created", "queued", "running", "done", "lost"}]
      /\ tries' \in [Jobs -> 0..MaxTries] /\ Attempts'
  BY <1>2, TypesOf DEF IInv, Attempts, queue
<1> QED BY <1>1, <1>2, <1>5, <1>7, <1>8, Same, JobMoves

LEMMA FinishStep ==
    ASSUME IInv, NEW j \in Jobs, Finish(j) \/ FinishFails(j)
    PROVE  IInv'
<1> DEFINE w == [Idle EXCEPT !.pc = "ack"]
           status == IF batch[j].bad = 0 THEN "completed" ELSE "completed_with_errors"
           ended == job[j].ended \/ status = "completed"
           r == [status |-> status, completed |-> batch[j].ok, failed |-> batch[j].bad,
                 ended |-> ended]
<1>1. w \in Work /\ Placed(w) /\ w.pc = "ack"
  BY Records DEF Idle, Work, Placed, AtWork
<1>2. /\ work' = [work EXCEPT ![j] = w] /\ UNCHANGED <<tables, queue, batch>>
      /\ work'[j] = w
  BY TypesOf, Records DEF Finish, FinishFails, IInv
<1>3. Tally(j)'
  BY <1>1, <1>2, Same DEF Tally, AtWork, Scored, tables
<1>4. /\ arq' \in [Jobs -> {"none", "created", "queued", "running", "done", "lost"}]
      /\ tries' \in [Jobs -> 0..MaxTries] /\ Attempts'
  BY <1>2, TypesOf DEF IInv, Attempts, queue
<1>5. CASE FinishFails(j)
  <2>1. job' = job
    BY <1>5 DEF FinishFails
  <2>2. batch' = [batch EXCEPT ![j] = batch[j]] /\ batch[j] \in Batch
    BY <1>2, Same
  <2>3. job' = [job EXCEPT ![j] = job[j]] /\ job[j] \in Row
    BY <2>1, Same
  <2>4. /\ AddsUp(j, job[j])
        /\ job[j].status = "completed" => \A i \in 1..Len(PapersOf[j]) : Scored(PapersOf[j][i])
    BY Same
  <2> HIDE DEF w, status, ended, r
  <2> QED BY <1>1, <1>2, <1>3, <1>4, <2>2, <2>3, <2>4, JobMoves
<1>6. CASE Finish(j)
  <2>1. job' = [job EXCEPT ![j] = r] /\ ended \in BOOLEAN
    BY <1>6 DEF Finish, SetCounts
  <2> HIDE DEF ended
  <2>2. r \in Row
    BY <2>1, Same DEF Row, Status, Batch
  <2>3. /\ batch[j].at = Len(PapersOf[j]) + 1 /\ Len(PapersOf[j]) \in Nat
        /\ batch[j].ok <= Len(PapersOf[j]) /\ batch[j].bad <= Len(PapersOf[j])
        /\ Len(PapersOf[j]) <= batch[j].ok + batch[j].bad
        /\ batch[j].ok \in Nat /\ batch[j].bad \in Nat
    <3>1. Len(PapersOf[j]) \in Nat /\ batch[j] \in Batch /\ batch[j].at > Len(PapersOf[j])
      BY <1>6, Same, Records DEF Finish
    <3>2. /\ batch[j].at <= Len(PapersOf[j]) + 1
          /\ batch[j].ok < batch[j].at /\ batch[j].bad < batch[j].at
          /\ batch[j].at <= batch[j].ok + batch[j].bad + 1
      BY Same DEF Tally
    <3> QED BY <3>1, <3>2 DEF Batch
  <2>4. AddsUp(j, r)
    BY <2>3 DEF AddsUp
  <2>5. r.status = "completed" => \A i \in 1..Len(PapersOf[j]) : Scored(PapersOf[j][i])
    BY <2>3, Same DEF Tally
  <2> HIDE DEF r
  <2> QED BY <1>1, <1>2, <1>3, <1>4, <2>1, <2>2, <2>4, <2>5, Same, JobMoves
<1> QED BY <1>5, <1>6

-----------------------------------------------------------------------------
\* The steps of score_paper.

\* A step of one actor within its paper.
LEMMA Works ==
    ASSUME IInv, NEW a \in Actors, NEW w \in Work, work' = [work EXCEPT ![a] = w],
           work[a].pc \in AtWork, w.pc \in {"context", "llm"}, w.paper = work[a].paper,
           w.know = {} \/ w.know \subseteq {OrgOf[w.paper]},
           Grows, UNCHANGED batch
    PROVE  /\ work' \in [Actors -> Work] /\ \A c \in Actors : Placed(work'[c])
           /\ \A j \in Jobs : Tally(j)'
<1> USE DEF IInv
<1>1. work' \in [Actors -> Work] /\ work'[a] = w /\ w.paper \in Papers
  BY TypesOf DEF Placed
<1>2. ASSUME NEW c \in Actors PROVE Placed(work'[c])
  BY <1>1, TypesOf DEF Placed
<1>3. ASSUME NEW j \in Jobs PROVE Tally(j)'
  <2>1. CASE j = a
    <3>1. Tally(j) /\ batch[j] \in Batch /\ PapersOf[j] \in Seq(Papers)
      BY TypesOf, Records
    <3>2. batch[j].bad = 0 => \A i \in 1..batch[j].at - 1 : Scored(PapersOf[j][i])'
      BY <3>1 DEF Grows, Tally, Batch
    <3>3. work'[j].pc # "saved" /\ work'[j].paper = work[j].paper
      BY <1>1, <2>1
    <3>4. batch'[j] = batch[j]
      OBVIOUS
    <3>5. work[j].pc \in AtWork
      BY <2>1
    <3> QED BY <3>1, <3>2, <3>3, <3>4, <3>5 DEF Tally
  <2>2. CASE j # a
    BY <2>2, TallyStays, TypesOf, Records
  <2> QED BY <2>1, <2>2
<1> QED BY <1>1, <1>2, <1>3

LEMMA AtPaper ==
    ASSUME IInv, NEW a \in Actors, work[a].pc \in AtWork
    PROVE  /\ work[a] \in Work /\ work[a].paper \in Papers
           /\ work[a].know = {} \/ work[a].know \subseteq {OrgOf[work[a].paper]}
           /\ a \in Jobs => batch[a].at <= Len(PapersOf[a])
  BY TypesOf DEF IInv, Placed, Tally

LEMMA EmbedStep ==
    ASSUME IInv, NEW a \in Actors, Embed(a)
    PROVE  IInv'
<1> DEFINE p == work[a].paper
           w == [work[a] EXCEPT !.pc = "context"]
<1>1. work[a].pc \in AtWork /\ UNCHANGED <<papers, latest, cache, knowledge, job, queue>>
  BY DEF Embed, AtWork
<1>2. Grows
  BY <1>1 DEF Grows, Scored
<1>3. CASE p \in papers
  <2>1. /\ embedded' = embedded \cup {p} /\ work' = [work EXCEPT ![a] = w] /\ UNCHANGED batch
    BY <1>3, TypesOf DEF Embed, IInv
  <2>2. w \in Work /\ w.pc = "context" /\ w.paper = work[a].paper /\ w.know = work[a].know
    BY <1>1, AtPaper DEF Work
  <2>3. /\ work' \in [Actors -> Work] /\ \A c \in Actors : Placed(work'[c])
        /\ \A j \in Jobs : Tally(j)'
    BY <1>1, <1>2, <2>1, <2>2, AtPaper, Works
  <2>4. TypeOK'
    BY <1>1, <1>3, <2>1, <2>3, TypesOf, TypesAfter DEF IInv, queue
  <2>5. CacheIsClean' /\ KnowledgeStaysHome' /\ CompletedIsScored' /\ CountsAddUp' /\ Attempts'
    BY <1>1, <1>2, TruthStays DEF IInv, CacheIsClean, KnowledgeStaysHome, Attempts, queue
  <2> QED BY <2>3, <2>4, <2>5 DEF IInv
<1>4. CASE p \notin papers
  <2>1. Raise(a, TRUE) /\ UNCHANGED <<tables, job, queue>>
    BY <1>1, <1>4 DEF Embed, tables
  <2> QED BY <1>1, <2>1, AtPaper, Raises
<1> QED BY <1>3, <1>4

LEMMA ContextStep ==
    ASSUME IInv, NEW a \in Actors, BuildContext(a)
    PROVE  IInv'
<1> DEFINE o == OrgOf[work[a].paper]
           know == knowledge \cap {o}
           used == work[a].weights
           w == [work[a] EXCEPT !.pc = "llm", !.know = know, !.used = used]
<1>1. work[a].pc \in AtWork /\ UNCHANGED <<tables, job, queue, batch>>
  BY DEF BuildContext, AtWork
<1>2. know \in SUBSET Orgs /\ know \subseteq {o} /\ used \in Weights
  BY <1>1, AtPaper, TypesOf DEF IInv, Work
<1>3. work' = [work EXCEPT ![a] = w]
  BY TypesOf DEF BuildContext, IInv
<1> HIDE DEF know, used
<1>4. w \in Work /\ w.pc = "llm" /\ w.paper = work[a].paper /\ w.know = know
  <2>1. work[a] \in Work
    BY <1>1, AtPaper
  <2> QED BY <1>2, <2>1 DEF Work
<1>5. Grows
  BY <1>1 DEF Grows, Scored, tables
<1> HIDE DEF w
<1>6. Placed(w) /\ \A j \in Jobs : Tally(j)'
  <2>1. w.know = {} \/ w.know \subseteq {OrgOf[w.paper]}
    BY <1>2, <1>4
  <2>2. \A j \in Jobs : Tally(j)'
    BY <1>1, <1>3, <1>4, <1>5, <2>1, Works
  <2> QED BY <1>1, <1>4, <2>1, <2>2, AtPaper DEF Placed
<1> QED BY <1>1, <1>3, <1>4, <1>6, Moves

LEMMA FailStep ==
    ASSUME IInv, NEW a \in Actors, ServiceFails(a) \/ ScoreVanishes(a) \/ AfterSaveFails(a)
    PROVE  IInv'
<1>1. /\ work[a].pc \in AtWork /\ UNCHANGED <<tables, job, queue>>
      /\ \E breaks \in BOOLEAN : Raise(a, breaks)
  BY DEF ServiceFails, ScoreVanishes, AfterSaveFails, AtWork
<1> QED BY <1>1, AtPaper, Raises

LEMMA SaveStep ==
    ASSUME IInv, NEW a \in Actors, NEW src \in {"llm", "cache"}, Save(a, src),
           work[a].pc \in {"llm", "cached"},
           UNCHANGED <<papers, embedded, knowledge, job, queue>>,
           cache' \in [Dois -> Entry \cup {NONE}], CacheIsClean',
           work[a].paper \notin papers => cache' = cache
    PROVE  IInv'
<1> DEFINE p == work[a].paper
           s == [src |-> src, weights |-> work[a].weights, used |-> work[a].used,
                 know |-> work[a].know, recent |-> TRUE]
           w == [work[a] EXCEPT !.pc = "saved"]
<1>1. work[a].pc \in AtWork
  BY DEF AtWork
<1>2. /\ work[a] \in Work /\ p \in Papers /\ (work[a].know = {} \/ work[a].know \subseteq {OrgOf[p]})
  BY <1>1, AtPaper
<1>3. CASE p \in papers
  <2>1. /\ latest' = [latest EXCEPT ![p] = s] /\ UNCHANGED batch
        /\ work' = [work EXCEPT ![a] = w]
    BY <1>3, TypesOf DEF Save, IInv
  <2>2. s \in Score /\ s # NONE /\ s.know = work[a].know
    <3>1. s \in Score
      BY <1>2 DEF Score, Work
    <3> QED BY <3>1, Records
  <2>3. w \in Work /\ w.pc = "saved" /\ w.paper = p /\ w.know = work[a].know
    BY <1>2 DEF Work
  <2> HIDE DEF s, w
  <2>4. /\ latest' \in [Papers -> Score \cup {NONE}] /\ latest'[p] = s
        /\ \A q \in Papers : q # p => latest'[q] = latest[q]
        /\ work' \in [Actors -> Work] /\ work'[a] = w
    BY <1>2, <2>1, <2>2, <2>3, TypesOf DEF IInv
  <2>5. Grows /\ latest'[p] # NONE
    BY <1>2, <2>2, <2>4 DEF Grows, Scored
  <2>6. ASSUME NEW c \in Actors PROVE Placed(work'[c])
    <3>1. Placed(w)
      BY <1>2, <2>3 DEF Placed
    <3> QED BY <2>1, <3>1, TypesOf DEF IInv
  <2>7. ASSUME NEW j \in Jobs PROVE Tally(j)'
    <3>1. CASE j = a
      <4>1. Tally(j) /\ batch[j] \in Batch /\ PapersOf[j] \in Seq(Papers) /\ batch'[j] = batch[j]
        BY <2>1, TypesOf, Records DEF IInv
      <4>2. batch[j].bad = 0 => \A i \in 1..batch[j].at - 1 : Scored(PapersOf[j][i])'
        BY <2>5, <4>1 DEF Grows, Tally, Batch
      <4>3. work'[j].paper = p /\ work[j].paper = p /\ work[j].pc \in AtWork
        BY <1>1, <2>3, <2>4, <3>1
      <4> QED BY <2>5, <4>1, <4>2, <4>3 DEF Tally, Scored
    <3>2. CASE j # a
      BY <2>1, <2>5, <3>2, TallyStays, TypesOf, Records DEF IInv
    <3> QED BY <3>1, <3>2
  <2>8. TypeOK'
    BY <2>1, <2>4, TypesOf, TypesAfter DEF IInv, queue
  <2>9. KnowledgeStaysHome'
    BY <1>2, <2>2, <2>4 DEF IInv, KnowledgeStaysHome
  <2>10. CompletedIsScored' /\ CountsAddUp' /\ Attempts'
    BY <2>5, TruthStays DEF IInv, Attempts, queue
  <2> QED BY <2>6, <2>7, <2>8, <2>9, <2>10 DEF IInv
<1>4. CASE p \notin papers
  <2>1. Raise(a, TRUE) /\ UNCHANGED <<tables, job, queue>>
    BY <1>4 DEF Save, tables
  <2> QED BY <1>1, <2>1, AtPaper, Raises
<1> QED BY <1>3, <1>4

LEMMA SaveScoreStep ==
    ASSUME IInv, NEW a \in Actors, SaveScore(a)
    PROVE  IInv'
<1> DEFINE p == work[a].paper
           e == [used |-> work[a].used, know |-> work[a].know, live |-> TRUE]
<1>1. work[a].pc = "llm" /\ work[a].pc \in AtWork
  BY DEF SaveScore, AtWork
<1>2. work[a] \in Work /\ p \in Papers
  BY <1>1, AtPaper
<1>3. e \in Entry /\ e.know = work[a].know
  BY <1>2 DEF Entry, Work
<1>4. \/ cache' = cache
      \/ /\ p \in papers /\ DoiOf[p] \in Dois /\ work[a].know = {}
         /\ cache' = [cache EXCEPT ![DoiOf[p]] = e]
  BY <1>2, Records DEF SaveScore, WriteCache
<1> HIDE DEF e
<1>5. cache' \in [Dois -> Entry \cup {NONE}] /\ CacheIsClean'
  BY <1>3, <1>4, TypesOf DEF IInv, CacheIsClean
<1>6. Save(a, "llm") /\ UNCHANGED <<papers, embedded, knowledge, job, queue>>
  BY DEF SaveScore
<1>7. p \notin papers => cache' = cache
  BY <1>4
<1> QED BY <1>1, <1>5, <1>6, <1>7, SaveStep

LEMMA FromCacheStep ==
    ASSUME IInv, NEW r \in Requests, SaveFromCache(r)
    PROVE  IInv'
<1>1. /\ work[r].pc = "cached" /\ Save(r, "cache") /\ r \in Actors
      /\ UNCHANGED <<papers, embedded, cache, knowledge, job, queue>>
  BY Records DEF SaveFromCache
<1>2. cache' \in [Dois -> Entry \cup {NONE}] /\ CacheIsClean'
  BY <1>1, TypesOf DEF IInv, CacheIsClean
<1> QED BY <1>1, <1>2, SaveStep

LEMMA AskStep ==
    ASSUME IInv, NEW r \in Requests,
           ReturnRecent(r) \/ StartFromCache(r) \/ StartRequest(r) \/ Answer(r)
    PROVE  IInv'
<1>1. r \in Actors /\ r \notin Jobs /\ UNCHANGED <<tables, job, queue, batch>>
  BY Records DEF ReturnRecent, StartFromCache, StartRequest, Answer
<1>2. CASE ReturnRecent(r) \/ Answer(r)
  <2>1. work' = [work EXCEPT ![r] = [Idle EXCEPT !.pc = "done"]]
    BY <1>2 DEF ReturnRecent, Answer
  <2>2. [Idle EXCEPT !.pc = "done"] \in Work /\ Placed([Idle EXCEPT !.pc = "done"])
    BY Records DEF Idle, Work, Placed, AtWork
  <2> QED BY <1>1, <2>1, <2>2, Moves
<1>3. CASE StartFromCache(r)
  <2>1. PICK p \in papers, x \in Weights :
          /\ ~Recent(p) /\ Hit(p)
          /\ work' = [work EXCEPT ![r] =
                [Idle EXCEPT !.pc = "cached", !.paper = p, !.weights = x, !.know = Cached(p).know,
                             !.used = IF x # Default THEN x ELSE Cached(p).used]]
    BY <1>3 DEF StartFromCache
  <2> DEFINE know == Cached(p).know
             used == IF x # Default THEN x ELSE Cached(p).used
             w == [Idle EXCEPT !.pc = "cached", !.paper = p, !.weights = x, !.know = know,
                               !.used = used]
  <2>2. p \in Papers /\ Cached(p) \in Entry /\ Cached(p).know = {}
    BY <2>1, TypesOf, Records DEF IInv, CacheIsClean, Hit, Cached
  <2>3. know = {} /\ used \in Weights
    BY <2>2 DEF Entry
  <2>4. work' = [work EXCEPT ![r] = w]
    BY <2>1
  <2> HIDE DEF know, used
  <2>5. w \in Work /\ Placed(w)
    BY <2>2, <2>3, Records DEF Idle, Work, Placed, AtWork
  <2> QED BY <1>1, <2>4, <2>5, Moves
<1>4. CASE StartRequest(r)
  <2>1. PICK p \in papers, x \in Weights, partial \in BOOLEAN :
          work' = [work EXCEPT ![r] = [Idle EXCEPT !.pc = NextPc(p), !.paper = p,
                                                   !.weights = x, !.partial = partial]]
    BY <1>4 DEF StartRequest
  <2> DEFINE w == [Idle EXCEPT !.pc = NextPc(p), !.paper = p,
                               !.weights = x, !.partial = partial]
  <2>2. p \in Papers
    BY TypesOf DEF IInv
  <2>3. w \in Work /\ Placed(w)
    BY <2>2, Records DEF Idle, Work, Placed, AtWork, NextPc
  <2> QED BY <1>1, <2>1, <2>3, Moves
<1> QED BY <1>2, <1>3, <1>4

-----------------------------------------------------------------------------
\* What happens around the calls.

LEMMA Around ==
    ASSUME IInv, Grows, UNCHANGED <<job, queue, work, batch>>,
           embedded' \subseteq papers', knowledge' \subseteq Orgs,
           latest' \in [Papers -> Score \cup {NONE}], cache' \in [Dois -> Entry \cup {NONE}],
           CacheIsClean', KnowledgeStaysHome'
    PROVE  IInv'
<1> USE DEF IInv, queue
<1>1. TypeOK'
  BY TypesOf, TypesAfter DEF Grows
<1>2. \A a \in Actors : Placed(work'[a])
  OBVIOUS
<1>3. \A j \in Jobs : Tally(j)'
  BY TallyStays, Records
<1>4. CompletedIsScored' /\ CountsAddUp' /\ Attempts'
  BY TruthStays DEF Attempts
<1> QED BY <1>1, <1>2, <1>3, <1>4

LEMMA PaperStep ==
    ASSUME IInv, NEW p \in Papers, DeletePaper(p) \/ DayPasses(p)
    PROVE  IInv'
<1>1. /\ UNCHANGED <<job, queue, work, batch, cache, knowledge>>
      /\ papers' \subseteq papers /\ embedded' \subseteq papers'
  BY TypesOf DEF IInv, DeletePaper, DayPasses
<1>2. /\ latest' \in [Papers -> Score \cup {NONE}]
      /\ \A q \in papers' : latest[q] # NONE => latest'[q] # NONE
      /\ \A q \in Papers : latest'[q] # NONE => latest[q] # NONE /\ latest'[q].know = latest[q].know
  <2>1. CASE DeletePaper(p)
    BY <2>1, TypesOf DEF IInv, DeletePaper
  <2>2. CASE DayPasses(p)
    <3> DEFINE s == [latest[p] EXCEPT !.recent = FALSE]
    <3>1. latest' = [latest EXCEPT ![p] = s] /\ latest[p] # NONE /\ latest[p] \in Score
      BY <2>2, TypesOf DEF IInv, DayPasses, Recent
    <3>2. s \in Score /\ s.know = latest[p].know
      BY <3>1 DEF Score
    <3>3. s # NONE
      BY <3>2, Records
    <3> HIDE DEF s
    <3>4. latest'[p] = s /\ \A q \in Papers : q # p => latest'[q] = latest[q]
      BY <3>1, TypesOf DEF IInv
    <3>5. latest' \in [Papers -> Score \cup {NONE}]
      BY <3>1, <3>2, TypesOf DEF IInv
    <3>6. papers' = papers /\ papers \subseteq Papers
      BY <2>2, TypesOf DEF IInv, DayPasses
    <3> QED BY <3>1, <3>2, <3>3, <3>4, <3>5, <3>6
  <2> QED BY <2>1, <2>2
<1>3. Grows
  BY <1>1, <1>2 DEF Grows, Scored
<1>4. KnowledgeStaysHome' /\ CacheIsClean'
  BY <1>1, <1>2 DEF IInv, KnowledgeStaysHome, CacheIsClean
<1>5. cache' \in [Dois -> Entry \cup {NONE}] /\ knowledge' \subseteq Orgs
  BY <1>1, TypesOf DEF IInv
<1> QED BY <1>1, <1>2, <1>3, <1>4, <1>5, Around

LEMMA CacheStep ==
    ASSUME IInv,
           \/ \E o \in Orgs : ChangeKnowledge(o)
           \/ \E d \in Dois : EntryExpires(d)
           \/ CleanUp
    PROVE  IInv'
<1>1. /\ UNCHANGED <<job, queue, work, batch, papers, embedded, latest>>
      /\ knowledge' \subseteq Orgs
  BY TypesOf DEF IInv, ChangeKnowledge, EntryExpires, CleanUp
<1>2. cache' \in [Dois -> Entry \cup {NONE}] /\ CacheIsClean'
  <2>1. CASE (\E o \in Orgs : ChangeKnowledge(o)) \/ CleanUp
    BY <2>1, TypesOf DEF IInv, ChangeKnowledge, CleanUp, CacheIsClean
  <2>2. ASSUME NEW d \in Dois, EntryExpires(d) PROVE <1>2!1 /\ <1>2!2
    <3> DEFINE e == [cache[d] EXCEPT !.live = FALSE]
    <3>1. cache' = [cache EXCEPT ![d] = e] /\ cache[d] \in Entry /\ cache[d].know = {}
      BY <2>2, TypesOf DEF IInv, EntryExpires, CacheIsClean
    <3>2. e \in Entry /\ e.know = {}
      BY <3>1 DEF Entry
    <3> HIDE DEF e
    <3> QED BY <3>1, <3>2, TypesOf DEF IInv, CacheIsClean
  <2> QED BY <2>1, <2>2
<1>3. Grows /\ KnowledgeStaysHome'
  BY <1>1 DEF IInv, Grows, Scored, KnowledgeStaysHome
<1> QED BY <1>1, <1>2, <1>3, TypesOf, Around DEF IInv

-----------------------------------------------------------------------------
LEMMA StepInv == IInv /\ [Next]_vars => IInv'
<1> SUFFICES ASSUME IInv, [Next]_vars PROVE IInv'
  OBVIOUS
<1>1. ASSUME NEW a \in Actors, ScoreStep(a) PROVE IInv'
  BY <1>1, EmbedStep, ContextStep, SaveScoreStep, FailStep DEF ScoreStep
<1>2. ASSUME NEW j \in Jobs, EnqueueJob(j) \/ TaskStep(j) PROVE IInv'
  BY <1>1, <1>2, QueueStep, LeaveStep, StartTaskStep, StartPaperStep, ProgressStep, FinishStep,
     Records DEF TaskStep
<1>3. ASSUME NEW r \in Requests, RequestStep(r) PROVE IInv'
  BY <1>1, <1>3, AskStep, FromCacheStep, Records DEF RequestStep
<1>4. CASE Environment
  BY <1>4, QueueStep, LeaveStep, ProgressRaisesStep, FailStep, PaperStep, CacheStep
     DEF Environment
<1>5. CASE UNCHANGED vars
  <2>1. Grows /\ CacheIsClean' /\ KnowledgeStaysHome'
    BY <1>5 DEF IInv, Grows, Scored, CacheIsClean, KnowledgeStaysHome, vars, tables
  <2> QED BY <1>5, <2>1, TypesOf, Around DEF IInv, vars, tables
<1> QED BY <1>2, <1>3, <1>4, <1>5 DEF Next

LEMMA Invariance == Spec => []IInv
  BY InitInv, StepInv, PTL DEF Spec

\* Types: what the tables, the queue and the tasks hold is what Scoring says they hold.
THEOREM TypeCorrect == Spec => []TypeOK
  BY Invariance, PTL DEF IInv

\* A job that ended as "completed" left a score on every paper of it that still exists
\* (jobs/scoring.py, 90-116): Tally says what the counters of a task stand for, over
\* any number of attempts, deletions and failures.
THEOREM CompletedScored == Spec => []CompletedIsScored
  BY Invariance, PTL DEF IInv

\* The counters of a job with a final status account for every paper of it, none of them
\* exceeds its papers, and "completed" is the status of a job without failures
\* (jobs/scoring.py, 98-116).
THEOREM CountsRight == Spec => []CountsAddUp
  BY Invariance, PTL DEF IInv

\* What an organization knows enters the scores of its own papers only, although all
\* organizations share the cache (modules/scoring/service.py, 166-175): no entry of the
\* cache was computed with knowledge.
THEOREM KnowledgeIsHome == Spec => []KnowledgeStaysHome
  BY Invariance, PTL DEF IInv

\* A live cache entry is committed together with the score it was computed for
\* (modules/scoring/service.py, 166-178), never when that score is refused.
THEOREM CacheWithScore == Spec => CacheCommitsWithScore
<1> DEFINE Commits ==
      \A d \in Dois : cache'[d] # cache[d] /\ cache'[d] # NONE /\ cache'[d].live =>
          \E p \in papers' : /\ DoiOf[p] = d /\ latest'[p] # NONE
                             /\ latest'[p].src = "llm" /\ latest'[p].used = cache'[d].used
<1>1. IInv /\ [Next]_vars => [Commits]_vars
  <2> SUFFICES ASSUME IInv, Next, cache' # cache PROVE Commits
    BY DEF vars, tables
  <2>1. CASE \E a \in Actors : SaveScore(a)
    <3> PICK a \in Actors : SaveScore(a)
      BY <2>1
    <3> DEFINE p == work[a].paper
               s == [src |-> "llm", weights |-> work[a].weights, used |-> work[a].used,
                     know |-> work[a].know, recent |-> TRUE]
               e == [used |-> work[a].used, know |-> work[a].know, live |-> TRUE]
    <3>1. p \in papers /\ papers' = papers /\ p \in Papers /\ work[a] \in Work
      BY AtPaper DEF SaveScore, AtWork
    <3>2. latest' = [latest EXCEPT ![p] = s] /\ cache' = [cache EXCEPT ![DoiOf[p]] = e]
      BY <3>1 DEF SaveScore, Save, WriteCache
    <3>3. s \in Score /\ s.src = "llm" /\ s.used = work[a].used /\ e.used = work[a].used
      BY <3>1 DEF Score, Work
    <3>4. s # NONE
      BY <3>3, Records
    <3> HIDE DEF s, e
    <3> QED BY <3>1, <3>2, <3>3, <3>4, TypesOf DEF IInv
  <2>2. CASE (\E d \in Dois : EntryExpires(d)) \/ CleanUp
    <3>1. \A d \in Dois : cache'[d] # cache[d] => cache'[d] = NONE \/ ~cache'[d].live
      <4>1. CASE CleanUp
        BY <4>1 DEF CleanUp
      <4>2. CASE \E d \in Dois : EntryExpires(d)
        <5> PICK d \in Dois : EntryExpires(d)
          BY <4>2
        <5> DEFINE e == [cache[d] EXCEPT !.live = FALSE]
        <5>1. cache' = [cache EXCEPT ![d] = e] /\ cache[d] \in Entry
          BY TypesOf DEF IInv, EntryExpires
        <5>2. ~e.live
          BY <5>1 DEF Entry
        <5> HIDE DEF e
        <5> QED BY <5>1, <5>2, TypesOf DEF IInv
      <4> QED BY <2>2, <4>1, <4>2
    <3> QED BY <3>1
  <2>3. CASE /\ ~\E a \in Actors : SaveScore(a)
             /\ ~\E d \in Dois : EntryExpires(d)
             /\ ~CleanUp
    <3>1. cache' = cache
      <4>1. ASSUME NEW a \in Actors, ScoreStep(a) PROVE cache' = cache
        BY <2>3, <4>1 DEF ScoreStep, Embed, BuildContext, ScoreVanishes, tables
      <4>2. ASSUME NEW j \in Jobs, EnqueueJob(j) \/ TaskStep(j) PROVE cache' = cache
        BY <4>1, <4>2, Records DEF EnqueueJob, TaskStep, StartTask, StartPaper, PaperFails,
           Progress, Finish, FinishFails, Ack, tables
      <4>3. ASSUME NEW r \in Requests, RequestStep(r) PROVE cache' = cache
        BY <4>1, <4>3, Records DEF RequestStep, ReturnRecent, StartFromCache, StartRequest,
           SaveFromCache, Answer, tables
      <4>4. ASSUME Environment PROVE cache' = cache
        BY <2>3, <4>4 DEF Environment, CreateJob, EnqueueFails, TimeOut, Crash, ProgressRaises,
           ServiceFails, AfterSaveFails, DeletePaper, DayPasses, ChangeKnowledge, tables
      <4> QED BY <4>2, <4>3, <4>4 DEF Next
    <3> QED BY <3>1
  <2> QED BY <2>1, <2>2, <2>3
<1> QED BY <1>1, Invariance, PTL DEF Spec, CacheCommitsWithScore

-----------------------------------------------------------------------------
(* The page of a job: Scoring implements ScoreBoard.                       *)

HasScore == {p \in Papers : latest[p] # NONE}

InTask == AtWork \cup {"next"}

\* While a task is at a job, the row says so and shows what this attempt has written, or what
\* an earlier one did; whatever it completed since and could not write counts as failed too.
OnBoard(j) ==
    /\ arq[j] = "none" => job[j] = NoJob
    /\ arq[j] # "running" => work[j].pc = "idle"
    /\ work[j].pc \in InTask =>
          /\ job[j].status = "running"
          /\ \/ batch[j].ok <= batch[j].bad
             \/ /\ job[j].completed <= batch[j].ok
                /\ batch[j].ok - job[j].completed <= batch[j].bad - job[j].failed

BoardInv == \A j \in Jobs : OnBoard(j)

\* Counters go from b to c without anything more written: what is completed fails as well.
CountsOn(b, c) == b.ok <= c.ok /\ c.ok - b.ok <= c.bad - b.bad

\* The row and the queue leave job j alone, which at most goes on, fails at a paper or stops.
Onward(j) ==
    /\ job'[j] = job[j] /\ arq'[j] = arq[j]
    /\ CountsOn(batch[j], batch'[j])
    /\ work'[j].pc \in InTask => work[j].pc \in InTask
    /\ work[j].pc = "idle" => work'[j].pc = "idle"

LEMMA BoardKept ==
    ASSUME IInv, IInv', NEW j \in Jobs, OnBoard(j), Onward(j)
    PROVE  OnBoard(j)'
<1>1. /\ batch[j].bad \in Nat /\ batch'[j].bad \in Nat /\ batch[j].ok \in Nat
      /\ batch'[j].ok \in Nat /\ job[j].failed \in Nat /\ job[j].completed \in Nat
  BY DEF IInv, TypeOK
<1>2. /\ batch[j].ok <= batch[j].bad => batch'[j].ok <= batch'[j].bad
      /\ /\ job[j].completed <= batch[j].ok
         /\ batch[j].ok - job[j].completed <= batch[j].bad - job[j].failed
         => /\ job[j].completed <= batch'[j].ok
            /\ batch'[j].ok - job[j].completed <= batch'[j].bad - job[j].failed
  BY <1>1 DEF Onward, CountsOn
<1> QED BY <1>2 DEF OnBoard, Onward

LEMMA Still == IInv => \A j \in Jobs : CountsOn(batch[j], batch[j])
<1> SUFFICES ASSUME IInv, NEW j \in Jobs PROVE CountsOn(batch[j], batch[j])
  OBVIOUS
<1>1. batch[j].bad \in Nat /\ batch[j].ok \in Nat
  BY TypesOf DEF IInv, Batch
<1> QED BY <1>1 DEF CountsOn

\* A step of one actor that is not about the row of a job.
LEMMA ActorBoard ==
    ASSUME IInv, IInv', BoardInv, UNCHANGED <<job, queue>>, NEW a \in Actors, NEW w,
           work' = [work EXCEPT ![a] = w], w.pc \in InTask => work[a].pc \in InTask,
           a \in Jobs => work[a].pc # "idle",
           \A j \in Jobs : CountsOn(batch[j], batch'[j])
    PROVE  BoardInv'
<1>1. ASSUME NEW j \in Jobs PROVE Onward(j)
  BY TypesOf, Records DEF IInv, Onward, queue
<1> QED BY <1>1, BoardKept DEF BoardInv

\* score_paper of a raises: its paper counts as failed.
LEMMA RaiseBoard ==
    ASSUME IInv, IInv', BoardInv, NEW a \in Actors, NEW breaks \in BOOLEAN, Raise(a, breaks),
           work[a].pc \in InTask, UNCHANGED <<job, queue>>
    PROVE  BoardInv'
<1>1. \A j \in Jobs : batch[j] \in Batch
  BY TypesOf DEF IInv
<1>2. ASSUME NEW j \in Jobs PROVE CountsOn(batch[j], batch'[j])
  <2>1. CASE a \in Jobs
    <3> DEFINE bad == batch[a].bad + 1
               at == batch[a].at + 1
               broken == batch[a].broken \/ breaks
               b == [batch[a] EXCEPT !.bad = bad, !.at = at, !.broken = broken]
    <3>1. batch' = [batch EXCEPT ![a] = b]
      BY <2>1 DEF Raise
    <3>2. CountsOn(batch[j], batch[j])
      BY Still
    <3>3. b.ok = batch[a].ok /\ b.bad = bad
      BY <1>1, <2>1 DEF Batch
    <3>4. CountsOn(batch[a], b)
      BY <1>1, <2>1, <3>3 DEF Batch, CountsOn
    <3> HIDE DEF b
    <3> QED BY <3>1, <3>2, <3>4, TypesOf DEF IInv
  <2>2. CASE a \notin Jobs
    BY <2>2, Still DEF Raise
  <2> QED BY <2>1, <2>2
<1>3. PICK w : work' = [work EXCEPT ![a] = w]
  BY DEF Raise
<1>4. work[a].pc # "idle"
  BY DEF InTask, AtWork
<1> QED BY <1>2, <1>3, <1>4, ActorBoard

\* Nothing a client sees has changed.
LEMMA Unseen ==
    ASSUME UNCHANGED <<job, tries, papers>>, HasScore' = HasScore
    PROVE  [Board!Next]_(Board!vars)
  BY DEF HasScore, Board!vars

LEMMA BoardInit == Init => BoardInv /\ Board!Init
<1> SUFFICES ASSUME Init PROVE BoardInv /\ Board!Init
  OBVIOUS
<1>1. \A j \in Jobs : work[j] = Idle /\ arq[j] = "none" /\ job[j] = NoJob
  BY Records DEF Init
<1>2. BoardInv
  BY <1>1 DEF BoardInv, OnBoard, InTask, AtWork, Idle
<1>3. Board!Init
  BY DEF Init, Board!Init, NoJob
<1> QED BY <1>2, <1>3

LEMMA QueueBoard ==
    ASSUME IInv, IInv', BoardInv, NEW j \in Jobs,
           \/ CreateJob(j) \/ EnqueueJob(j) \/ EnqueueFails(j)
           \/ Ack(j) \/ TimeOut(j) \/ Crash(j)
    PROVE  BoardInv' /\ [Board!Next]_(Board!vars)
<1>1. UNCHANGED <<tables, tries, batch>> /\ job' = job
  BY TypesOf DEF CreateJob, EnqueueJob, EnqueueFails, Ack, TimeOut, Crash, BoardInv, OnBoard, IInv
<1>2. \A k \in Jobs \ {j} : Onward(k)
  <2>1. \A k \in Jobs : CountsOn(batch[k], batch[k])
    BY Still
  <2>2. \A k \in Jobs \ {j} : arq'[k] = arq[k] /\ work'[k] = work[k]
    BY TypesOf, Records
       DEF CreateJob, EnqueueJob, EnqueueFails, Ack, TimeOut, Crash, IInv
  <2> QED BY <1>1, <2>1, <2>2 DEF Onward
<1>3. OnBoard(j)'
  <2>1. arq'[j] # "none" /\ work'[j].pc = "idle"
    BY TypesOf, Records DEF CreateJob, EnqueueJob, EnqueueFails, Ack, TimeOut, Crash, BoardInv,
       OnBoard, IInv, Idle
  <2> QED BY <2>1 DEF OnBoard, InTask, AtWork
<1>4. BoardInv'
  BY <1>2, <1>3, BoardKept DEF BoardInv
<1> QED BY <1>1, <1>4, Unseen DEF tables, HasScore

LEMMA StartBoard ==
    ASSUME IInv, IInv', BoardInv, NEW j \in Jobs, StartTask(j)
    PROVE  BoardInv' /\ Board!Next
<1>1. /\ tries[j] < MaxTries /\ tries' = [tries EXCEPT ![j] = @ + 1] /\ UNCHANGED tables
  BY DEF StartTask, IInv, Attempts
<1>2. job' = [job EXCEPT ![j].status = "running"]
  <2>1. (job[j].ended \/ "running" = "completed") = job[j].ended
    BY Same DEF Row
  <2> DEFINE e == job[j].ended \/ "running" = "completed"
  <2>2. job' = [job EXCEPT ![j] = [job[j] EXCEPT !.status = "running", !.ended = e]]
    BY DEF StartTask, SetStatus
  <2>3. [job[j] EXCEPT !.status = "running", !.ended = job[j].ended]
          = [job[j] EXCEPT !.status = "running"]
    BY Same DEF Row
  <2> QED BY <2>1, <2>2, <2>3
<1>3. Board!Next
  BY <1>1, <1>2 DEF Board!Next, Board!Attempt, tables
<1>4. \A k \in Jobs \ {j} : Onward(k)
  BY Still, TypesOf, Records DEF IInv, StartTask, SetStatus, Onward
<1>5. OnBoard(j)'
  <2>1. arq'[j] = "running" /\ batch'[j].ok <= batch'[j].bad /\ job'[j].status = "running"
    BY <1>2, TypesOf, Same DEF IInv, StartTask, Fresh, Row
  <2> QED BY <2>1 DEF OnBoard
<1> QED BY <1>3, <1>4, <1>5, BoardKept DEF BoardInv

LEMMA OneMore ==
    \A n, at, ok, bad \in Nat :
       ok < at /\ bad < at /\ at <= ok + bad + 1 /\ at <= n =>
          /\ ok + 1 \in 1..n /\ bad \in 0..n /\ at \in 1..n
          /\ ok + 1 <= at /\ at <= (ok + 1) + bad /\ (ok + 1) - 1 = ok
  OBVIOUS

\* One more paper of the job has its score.
LEMMA ProgressBoard ==
    ASSUME IInv, IInv', BoardInv, NEW j \in Jobs, Progress(j)
    PROVE  BoardInv' /\ Board!Next
<1> DEFINE c == batch[j].ok + 1
           f == batch[j].bad
           r == [job[j] EXCEPT !.status = "running", !.completed = c, !.failed = f]
<1>1. /\ work[j].pc = "saved" /\ work[j].pc \in InTask /\ UNCHANGED <<tables, queue>>
      /\ job' = [job EXCEPT ![j] = r]
  BY DEF Progress, InTask, AtWork
<1>2. /\ job[j].status = "running"
      /\ \/ batch[j].ok <= batch[j].bad
         \/ /\ job[j].completed <= batch[j].ok
            /\ batch[j].ok - job[j].completed <= batch[j].bad - job[j].failed
  BY <1>1 DEF BoardInv, OnBoard
<1>3. /\ Tally(j) /\ batch[j] \in Batch /\ job[j] \in Row /\ PapersOf[j] \in Seq(Papers)
  BY Same, Records
<1> DEFINE at == batch[j].at
<1>4. /\ c \in 1..Len(PapersOf[j]) /\ f \in 0..Len(PapersOf[j]) /\ at \in 1..Len(PapersOf[j])
      /\ c <= at /\ f < at /\ at <= c + f
      /\ Len(PapersOf[j]) \in Nat /\ job[j].completed \in Nat /\ job[j].failed \in Nat
      /\ \/ c - 1 <= f
         \/ /\ job[j].completed < c
            /\ c - 1 - job[j].completed <= f - job[j].failed
  <2>1. /\ batch[j].ok < at /\ batch[j].bad < at /\ at <= batch[j].ok + batch[j].bad + 1
        /\ at <= Len(PapersOf[j]) /\ batch[j].ok \in Nat /\ batch[j].bad \in Nat
        /\ at \in Nat /\ Len(PapersOf[j]) \in Nat
        /\ job[j].completed \in Nat /\ job[j].failed \in Nat
    BY <1>1, <1>3 DEF Tally, Batch, AtWork, Row
  <2>2. /\ c \in 1..Len(PapersOf[j]) /\ f \in 0..Len(PapersOf[j]) /\ at \in 1..Len(PapersOf[j])
        /\ c <= at /\ f < at /\ at <= c + f /\ c - 1 = batch[j].ok
    <3> HIDE DEF at
    <3> QED BY <2>1, OneMore
  <2>3. \/ c - 1 <= f
        \/ /\ job[j].completed < c
           /\ c - 1 - job[j].completed <= f - job[j].failed
    <3>1. c - 1 = batch[j].ok
      BY <2>2
    <3>2. CASE batch[j].ok <= batch[j].bad
      BY <3>1, <3>2
    <3>3. CASE /\ job[j].completed <= batch[j].ok
               /\ batch[j].ok - job[j].completed <= batch[j].bad - job[j].failed
      BY <2>1, <3>1, <3>3
    <3> QED BY <1>2, <3>2, <3>3
  <2> QED BY <2>1, <2>2, <2>3
<1>5. Board!Done(j, at)
  <2>1. Scored(PapersOf[j][at]) /\ PapersOf[j][at] \in Papers
    BY <1>1, <1>3, <1>4, AtPaper, Records DEF Tally, AtWork
  <2> QED BY <2>1 DEF Board!Done, Scored
<1> HIDE DEF at
<1>6. \E b \in Board!From(j) : b.c < c /\ c - 1 - b.c <= f - b.f
  <2>1. CASE c - 1 <= f
    <3>1. 0 < c /\ c - 1 - 0 <= f - 0
      BY <1>4, <2>1
    <3> HIDE DEF c, f
    <3> QED BY <3>1 DEF Board!From
  <2>2. CASE job[j].completed < c /\ c - 1 - job[j].completed <= f - job[j].failed
    <3> HIDE DEF c, f
    <3> QED BY <2>2 DEF Board!From
  <2> QED BY <1>4, <2>1, <2>2
<1> HIDE DEF c, f
<1>7. /\ r = [job[j] EXCEPT !.completed = c, !.failed = f]
      /\ r.status = "running" /\ r.completed = c /\ r.failed = f
  BY <1>2, <1>3 DEF Row
<1>8. Board!Advance(j)
  <2>1. job' = [job EXCEPT ![j].completed = c, ![j].failed = f]
    BY <1>1, <1>7
  <2>2. UNCHANGED <<tries, papers, latest>>
    BY <1>1 DEF tables, queue
  <2>3. HasScore' = HasScore
    BY <2>2 DEF HasScore
  <2> HIDE DEF r
  <2>4. \E b \in Board!From(j), d, i \in 1..Board!Size(j), g \in 0..Board!Size(j) :
          /\ b.c < d /\ d - 1 - b.c <= g - b.f
          /\ d <= i /\ g < i /\ i <= d + g /\ Board!Done(j, i)
          /\ job' = [job EXCEPT ![j].completed = d, ![j].failed = g]
    <3>1. PICK b \in Board!From(j) : b.c < c /\ c - 1 - b.c <= f - b.f
      BY <1>6
    <3> c \in 1..Board!Size(j) /\ at \in 1..Board!Size(j) /\ f \in 0..Board!Size(j)
      BY <1>4 DEF Board!Size
    <3> WITNESS b \in Board!From(j), c \in 1..Board!Size(j), at \in 1..Board!Size(j),
                f \in 0..Board!Size(j)
    <3> QED BY <1>4, <1>5, <2>1, <3>1
  <2> QED BY <1>2, <2>2, <2>3, <2>4 DEF Board!Advance, HasScore
<1>9. \A k \in Jobs \ {j} : Onward(k)
  BY Still, TypesOf, Records DEF IInv, Progress, Onward, queue
<1>10. OnBoard(j)'
  <2>1. job'[j] = r /\ arq'[j] = arq[j] /\ arq[j] = "running" /\ batch'[j].ok = c
        /\ batch'[j].bad = f
    <3>1. job'[j] = r /\ arq'[j] = arq[j] /\ arq[j] = "running"
      BY <1>1, TypesOf DEF IInv, BoardInv, OnBoard, queue
    <3>2. batch'[j].ok = c /\ batch'[j].bad = f
      BY <1>3, TypesOf DEF IInv, Progress, Batch, c, f
    <3> QED BY <3>1, <3>2
  <2>2. c <= c /\ c - c <= f - f
    BY <1>4
  <2> HIDE DEF r
  <2> QED BY <1>7, <2>1, <2>2 DEF OnBoard
<1> QED BY <1>8, <1>9, <1>10, BoardKept DEF BoardInv, Board!Next

\* A paper counted twice: the row is left alone.
LEMMA ProgressRaisesBoard ==
    ASSUME IInv, IInv', BoardInv, NEW j \in Jobs, ProgressRaises(j)
    PROVE  BoardInv' /\ [Board!Next]_(Board!vars)
<1>1. /\ work[j].pc \in InTask /\ work[j].pc # "idle" /\ UNCHANGED <<tables, job, queue>>
      /\ \E w : work' = [work EXCEPT ![j] = w]
  BY DEF ProgressRaises, InTask, AtWork
<1>2. ASSUME NEW k \in Jobs PROVE CountsOn(batch[k], batch'[k])
  <2> PICK breaks \in BOOLEAN :
         batch' = [batch EXCEPT ![j].ok = @ + 1, ![j].bad = @ + 1, ![j].at = @ + 1,
                                ![j].broken = @ \/ breaks]
    BY DEF ProgressRaises
  <2> DEFINE ok == batch[j].ok + 1
             bad == batch[j].bad + 1
             at == batch[j].at + 1
             broken == batch[j].broken \/ breaks
             b == [batch[j] EXCEPT !.ok = ok, !.bad = bad, !.at = at, !.broken = broken]
  <2>1. batch' = [batch EXCEPT ![j] = b]
    OBVIOUS
  <2>2. b.ok = ok /\ b.bad = bad
    BY Same DEF Batch
  <2> HIDE DEF b
  <2>3. CountsOn(batch[j], b)
    BY <2>2, Same DEF CountsOn, Batch
  <2> QED BY <2>1, <2>3, Still, TypesOf DEF IInv
<1>3. BoardInv'
  BY <1>1, <1>2, ActorBoard, Records
<1> QED BY <1>1, <1>3, Unseen DEF tables, queue, HasScore

LEMMA FinishBoard ==
    ASSUME IInv, IInv', BoardInv, NEW j \in Jobs, Finish(j)
    PROVE  BoardInv' /\ Board!Next
<1> DEFINE c == batch[j].ok
           f == batch[j].bad
           status == IF f = 0 THEN "completed" ELSE "completed_with_errors"
           e == job[j].ended \/ status = "completed"
           r == [status |-> status, completed |-> c, failed |-> f, ended |-> e]
<1>1. /\ work[j].pc = "next" /\ work[j].pc \in InTask /\ UNCHANGED <<tables, queue, batch>>
      /\ batch[j].at > Len(PapersOf[j])
      /\ job' = [job EXCEPT ![j] = r]
  BY DEF Finish, SetCounts, InTask
<1>2. /\ job[j].status = "running"
      /\ \/ c <= f
         \/ /\ job[j].completed <= c
            /\ c - job[j].completed <= f - job[j].failed
  BY <1>1 DEF BoardInv, OnBoard
<1>3. /\ Tally(j) /\ batch[j] \in Batch /\ job[j] \in Row /\ PapersOf[j] \in Seq(Papers)
  BY Same, Records
<1>4. /\ c \in 0..Len(PapersOf[j]) /\ f \in 0..Len(PapersOf[j]) /\ Len(PapersOf[j]) \in Nat
      /\ Len(PapersOf[j]) <= c + f /\ batch[j].at = Len(PapersOf[j]) + 1
  <2>1. /\ c < batch[j].at /\ f < batch[j].at /\ batch[j].at <= c + f + 1
        /\ batch[j].at <= Len(PapersOf[j]) + 1
        /\ c \in Nat /\ f \in Nat /\ batch[j].at \in Nat /\ Len(PapersOf[j]) \in Nat
        /\ batch[j].at > Len(PapersOf[j])
    BY <1>1, <1>3 DEF Tally, Batch
  <2> HIDE DEF c, f
  <2> QED BY <2>1
<1>5. \E b \in Board!From(j) : b.c <= c /\ c - b.c <= f - b.f
  <2>1. CASE c <= f
    <3>1. 0 <= c /\ c - 0 <= f - 0
      BY <1>4, <2>1
    <3> HIDE DEF c, f
    <3> QED BY <3>1 DEF Board!From
  <2>2. CASE job[j].completed <= c /\ c - job[j].completed <= f - job[j].failed
    <3> HIDE DEF c, f
    <3> QED BY <2>2 DEF Board!From
  <2> HIDE DEF c, f
  <2> QED BY <1>2, <2>1, <2>2
<1>6. f = 0 => \A i \in 1..Len(PapersOf[j]) : Board!Done(j, i)
  <2>1. f = 0 => \A i \in 1..Len(PapersOf[j]) : Scored(PapersOf[j][i])
    BY <1>3, <1>4 DEF Tally
  <2>2. \A i \in 1..Len(PapersOf[j]) : PapersOf[j][i] \in Papers
    BY <1>3
  <2> QED BY <2>1, <2>2 DEF Board!Done, Scored
<1>7. e = (job[j].ended \/ f = 0)
  OBVIOUS
<1>8. Board!Finish(j)
  <2>1. job' = [job EXCEPT ![j] =
               [status |-> IF f = 0 THEN "completed" ELSE "completed_with_errors",
                completed |-> c, failed |-> f, ended |-> job[j].ended \/ f = 0]]
    BY <1>1, <1>7
  <2> HIDE DEF c, f
  <2> QED BY <1>1, <1>2, <1>4, <1>5, <1>6, <2>1 DEF Board!Finish, Board!Size, tables, queue
<1>9. \A k \in Jobs \ {j} : Onward(k)
  BY Still, TypesOf, Records DEF IInv, Finish, SetCounts, Onward, queue
<1>10. OnBoard(j)'
  <2>1. work'[j].pc = "ack" /\ arq'[j] = arq[j] /\ arq[j] = "running"
    BY <1>1, TypesOf, Records DEF IInv, Finish, BoardInv, OnBoard, queue, Idle
  <2> QED BY <2>1 DEF OnBoard, InTask, AtWork
<1> QED BY <1>8, <1>9, <1>10, BoardKept DEF BoardInv, Board!Next

\* Steps of a task that do not write the row.
LEMMA TaskBoard ==
    ASSUME IInv, IInv', BoardInv, NEW j \in Jobs, StartPaper(j) \/ PaperFails(j) \/ FinishFails(j)
    PROVE  BoardInv' /\ [Board!Next]_(Board!vars)
<1>1. /\ work[j].pc = "next" /\ j \in Actors /\ UNCHANGED <<tables, job, queue>>
      /\ \A k \in Jobs : CountsOn(batch[k], batch[k])
  BY Still, Records DEF StartPaper, PaperFails, FinishFails, Remaining
<1>2. BoardInv'
  <2>1. CASE PaperFails(j)
    BY <1>1, <2>1, RaiseBoard DEF PaperFails, InTask
  <2>2. CASE StartPaper(j) \/ FinishFails(j)
    <3>1. batch' = batch /\ \E w : work' = [work EXCEPT ![j] = w]
      BY <2>2 DEF StartPaper, FinishFails
    <3> QED BY <1>1, <3>1, ActorBoard DEF InTask
  <2> QED BY <2>1, <2>2
<1> QED BY <1>1, <1>2, Unseen DEF tables, queue, HasScore

\* The steps of score_paper, of a job or of a request.
LEMMA ScoreBoardStep ==
    ASSUME IInv, IInv', BoardInv, NEW a \in Actors,
           \/ ScoreStep(a) \/ ServiceFails(a) \/ AfterSaveFails(a)
           \/ a \in Requests /\ SaveFromCache(a)
    PROVE  BoardInv' /\ [Board!Next]_(Board!vars)
<1>1. /\ work[a].pc \in AtWork /\ work[a].pc \in InTask /\ work[a].pc # "idle"
      /\ UNCHANGED <<papers, job, queue>>
      /\ \A k \in Jobs : CountsOn(batch[k], batch[k])
  BY Still DEF ScoreStep, Embed, BuildContext, SaveScore, ScoreVanishes, ServiceFails,
     AfterSaveFails, SaveFromCache, AtWork, InTask, tables
<1>2. BoardInv'
  <2>1. \/ \E breaks \in BOOLEAN : Raise(a, breaks)
        \/ batch' = batch /\ \E w : work' = [work EXCEPT ![a] = w]
    <3>1. CASE ServiceFails(a) \/ ScoreVanishes(a) \/ AfterSaveFails(a)
      BY <3>1 DEF ServiceFails, ScoreVanishes, AfterSaveFails
    <3>2. CASE Embed(a)
      BY <3>2 DEF Embed
    <3>3. CASE BuildContext(a)
      BY <3>3 DEF BuildContext
    <3>4. CASE SaveScore(a) \/ SaveFromCache(a)
      BY <3>4 DEF SaveScore, SaveFromCache, Save
    <3> QED BY <3>1, <3>2, <3>3, <3>4 DEF ScoreStep
  <2>2. CASE \E breaks \in BOOLEAN : Raise(a, breaks)
    BY <1>1, <2>2, RaiseBoard
  <2>3. CASE batch' = batch /\ \E w : work' = [work EXCEPT ![a] = w]
    BY <1>1, <2>3, ActorBoard
  <2> QED BY <2>1, <2>2, <2>3
<1>3. latest' = latest \/ \E src \in {"llm", "cache"} : Save(a, src)
  BY DEF ScoreStep, Embed, BuildContext, SaveScore, ScoreVanishes, ServiceFails, AfterSaveFails,
     SaveFromCache, tables
<1>4. CASE latest' = latest
  BY <1>1, <1>2, <1>4, Unseen DEF queue, HasScore
<1>5. ASSUME NEW src \in {"llm", "cache"}, Save(a, src), latest' # latest
      PROVE  [Board!Next]_(Board!vars)
  <2> PICK p \in Papers : p = work[a].paper
    BY <1>1, AtPaper
  <2> DEFINE s == [src |-> src, weights |-> work[a].weights, used |-> work[a].used,
                   know |-> work[a].know, recent |-> TRUE]
  <2>1. p \in papers /\ latest' = [latest EXCEPT ![p] = s]
    BY <1>5 DEF Save
  <2>2. s # NONE
    <3>1. s \in Score
      BY <1>1, AtPaper DEF Score, Work
    <3> QED BY <3>1, Records
  <2> HIDE DEF s
  <2>3. HasScore' = HasScore \cup {p}
    BY <2>1, <2>2, TypesOf DEF IInv, HasScore
  <2>4. Board!Score(p)
    BY <1>1, <2>1, <2>3 DEF Board!Score, HasScore, queue
  <2> QED BY <2>4 DEF Board!Next
<1> QED BY <1>2, <1>3, <1>4, <1>5

LEMMA AskBoard ==
    ASSUME IInv, IInv', BoardInv, NEW r \in Requests,
           ReturnRecent(r) \/ StartFromCache(r) \/ StartRequest(r) \/ Answer(r)
    PROVE  BoardInv' /\ [Board!Next]_(Board!vars)
<1>1. /\ r \in Actors /\ r \notin Jobs /\ UNCHANGED <<tables, job, queue, batch>>
      /\ \A k \in Jobs : work'[k] = work[k] /\ CountsOn(batch[k], batch[k])
  <2>1. r \in Actors /\ r \notin Jobs /\ UNCHANGED <<tables, job, queue, batch>>
    BY Records DEF ReturnRecent, StartFromCache, StartRequest, Answer
  <2>2. PICK w : work' = [work EXCEPT ![r] = w]
    BY DEF ReturnRecent, StartFromCache, StartRequest, Answer
  <2>3. \A k \in Jobs : work'[k] = work[k]
    BY <2>1, <2>2, TypesOf, Records DEF IInv
  <2> QED BY <2>1, <2>3, Still
<1>2. \A k \in Jobs : Onward(k)
  BY <1>1 DEF Onward, queue
<1> QED BY <1>1, <1>2, BoardKept, Unseen DEF BoardInv, tables, queue, HasScore

LEMMA AroundBoard ==
    ASSUME IInv, IInv', BoardInv,
           \/ \E p \in Papers : DeletePaper(p) \/ DayPasses(p)
           \/ \E o \in Orgs : ChangeKnowledge(o)
           \/ \E d \in Dois : EntryExpires(d)
           \/ CleanUp \/ UNCHANGED vars
    PROVE  BoardInv' /\ [Board!Next]_(Board!vars)
<1>1. /\ UNCHANGED <<job, queue, work, batch>>
      /\ \A k \in Jobs : CountsOn(batch[k], batch[k])
  BY Still DEF DeletePaper, DayPasses, ChangeKnowledge, EntryExpires, CleanUp, vars
<1>2. BoardInv'
  <2>1. \A k \in Jobs : Onward(k)
    BY <1>1 DEF Onward, queue
  <2> QED BY <2>1, BoardKept DEF BoardInv
<1>3. ASSUME NEW p \in Papers, DeletePaper(p) PROVE Board!Next
  <2>1. HasScore' = HasScore \ {p} /\ p \in papers /\ papers' = papers \ {p}
    BY <1>3, TypesOf DEF IInv, DeletePaper, HasScore
  <2> QED BY <1>1, <2>1 DEF Board!Next, Board!Delete, HasScore, queue
<1>4. ASSUME NEW p \in Papers, DayPasses(p) PROVE papers' = papers /\ HasScore' = HasScore
  <2> DEFINE s == [latest[p] EXCEPT !.recent = FALSE]
  <2>1. latest' = [latest EXCEPT ![p] = s] /\ latest[p] # NONE /\ latest[p] \in Score
    BY <1>4, TypesOf DEF IInv, DayPasses, Recent
  <2>2. s # NONE
    <3>1. s \in Score
      BY <2>1 DEF Score
    <3> QED BY <3>1, Records
  <2> HIDE DEF s
  <2> QED BY <1>4, <2>1, <2>2, TypesOf DEF IInv, DayPasses, HasScore
<1>5. CASE \/ \E o \in Orgs : ChangeKnowledge(o)
           \/ \E d \in Dois : EntryExpires(d)
           \/ CleanUp \/ UNCHANGED vars
  <2>1. papers' = papers /\ HasScore' = HasScore
    BY <1>5 DEF ChangeKnowledge, EntryExpires, CleanUp, vars, tables, HasScore
  <2> QED BY <1>1, <1>2, <2>1, Unseen DEF queue
<1> QED BY <1>1, <1>2, <1>3, <1>4, <1>5, Unseen DEF queue

LEMMA BoardStep ==
    ASSUME IInv, IInv', BoardInv, [Next]_vars
    PROVE  BoardInv' /\ [Board!Next]_(Board!vars)
<1>1. ASSUME NEW j \in Jobs, EnqueueJob(j) \/ TaskStep(j)
      PROVE  BoardInv' /\ [Board!Next]_(Board!vars)
  BY <1>1, QueueBoard, StartBoard, ProgressBoard, FinishBoard, TaskBoard, ScoreBoardStep, Records
     DEF TaskStep
<1>2. ASSUME NEW r \in Requests, RequestStep(r) PROVE BoardInv' /\ [Board!Next]_(Board!vars)
  BY <1>2, AskBoard, ScoreBoardStep, Records DEF RequestStep
<1>3. CASE Environment
  BY <1>3, QueueBoard, ProgressRaisesBoard, ScoreBoardStep, AroundBoard DEF Environment
<1> QED BY <1>1, <1>2, <1>3, AroundBoard DEF Next

\* Scoring implements ScoreBoard (modules/scoring/router.py, jobs/scoring.py): for any jobs,
\* papers, requests, failures and attempts, the row of a job is truthful at every poll.
THEOREM BoardTrue == Spec => BoardIsTrue
<1>1. IInv /\ IInv' /\ BoardInv /\ [Next]_vars => BoardInv' /\ [Board!Next]_(Board!vars)
  BY BoardStep
<1> QED BY BoardInit, <1>1, Invariance, PTL DEF Spec, BoardIsTrue, Board!Spec

-----------------------------------------------------------------------------
(* Why an attempt ends: what is left of it shrinks with every step.        *)

Phase == [idle |-> 0, done |-> 0, ack |-> 1, saved |-> 2, cached |-> 3, llm |-> 3,
          context |-> 4, embed |-> 5, next |-> 6]

\* A bound on the steps the attempt at job j has left.
Steps(j) == Phase[work[j].pc]
            + (IF work[j].pc \in InTask THEN 7 * (Len(PapersOf[j]) + 1 - batch[j].at) ELSE 0)

\* The steps of the task j lower Steps(j), nobody raises it, and only another attempt, which
\* is counted, starts it anew (jobs/scoring.py, 78-124).
AttemptShrinks ==
    [][\A j \in Jobs : IF tries'[j] # tries[j] THEN tries'[j] = tries[j] + 1
                       ELSE /\ Steps(j)' <= Steps(j)
                            /\ TaskStep(j) => Steps(j)' < Steps(j)]_vars

\* What Tally bounds of a task at its paper.
LEMMA TaskBounds ==
    ASSUME IInv, NEW j \in Jobs
    PROVE  /\ Len(PapersOf[j]) \in Nat /\ batch[j].at \in Nat
           /\ batch[j].at <= Len(PapersOf[j]) + 1 /\ Steps(j) \in Nat
           /\ work[j].pc \in AtWork => batch[j].at <= Len(PapersOf[j])
<1>1. /\ Len(PapersOf[j]) \in Nat /\ batch[j].at \in Nat
      /\ batch[j].at <= Len(PapersOf[j]) + 1
      /\ work[j].pc \in AtWork => batch[j].at <= Len(PapersOf[j])
  BY Same, Records DEF Batch, Tally
<1>2. Phase[work[j].pc] \in Nat
  BY Same DEF Work, Phase
<1>3. 7 * (Len(PapersOf[j]) + 1 - batch[j].at) \in Nat
  BY <1>1
<1> QED BY <1>1, <1>2, <1>3 DEF Steps

StepsCounted == \A j \in Jobs : Steps(j) \in Nat

LEMMA StepsCount == IInv => StepsCounted
  BY TaskBounds DEF StepsCounted

LEMMA StepsCountNext == IInv' => StepsCounted'
  BY StepsCount, PTL

LEMMA OnePaperLess ==
    \A n, k, m \in Nat : 6 + 7 * (n + 1 - (k + 1)) < m + 7 * (n + 1 - k)
  OBVIOUS

LEMMA TriesCount ==
    ASSUME IInv, Next, NEW j \in Jobs
    PROVE  tries[j] \in Nat /\ (tries'[j] = tries[j] \/ tries'[j] = tries[j] + 1)
<1>0. tries[j] \in Nat
  BY TypesOf, JobsAssumption DEF IInv
<1>1. CASE \E k \in Jobs : StartTask(k)
  BY <1>0, <1>1, TypesOf DEF IInv, StartTask
<1>2. CASE ~\E k \in Jobs : StartTask(k)
  <2>1. ASSUME NEW a \in Actors, ScoreStep(a) PROVE tries' = tries
    BY <2>1 DEF ScoreStep, Embed, BuildContext, SaveScore, ScoreVanishes, queue
  <2>2. ASSUME NEW k \in Jobs, EnqueueJob(k) \/ TaskStep(k) PROVE tries' = tries
    BY <1>2, <2>1, <2>2, Records DEF EnqueueJob, TaskStep, StartPaper, PaperFails, Progress,
       Finish, FinishFails, Ack, queue
  <2>3. ASSUME NEW r \in Requests, RequestStep(r) PROVE tries' = tries
    BY <2>1, <2>3, Records DEF RequestStep, ReturnRecent, StartFromCache, StartRequest,
       SaveFromCache, Answer, queue
  <2>4. ASSUME Environment PROVE tries' = tries
    BY <2>4 DEF Environment, CreateJob, EnqueueFails, TimeOut, Crash, ProgressRaises,
       ServiceFails, AfterSaveFails, DeletePaper, DayPasses, ChangeKnowledge, EntryExpires, CleanUp, queue
  <2> QED BY <1>0, <2>2, <2>3, <2>4 DEF Next
<1> QED BY <1>1, <1>2

\* A paper is left behind, counted as failed.
LEMMA RaiseShrinks ==
    ASSUME IInv, IInv', NEW j \in Jobs, NEW breaks \in BOOLEAN, Raise(j, breaks),
           work[j].pc \in InTask
    PROVE  Steps(j)' < Steps(j)
<1> DEFINE bad == batch[j].bad + 1
           at == batch[j].at + 1
           broken == batch[j].broken \/ breaks
           b == [batch[j] EXCEPT !.bad = bad, !.at = at, !.broken = broken]
           w == [Idle EXCEPT !.pc = "next"]
<1>1. batch' = [batch EXCEPT ![j] = b] /\ work' = [work EXCEPT ![j] = w]
  BY DEF Raise
<1> HIDE DEF bad, broken
<1>2. batch'[j].at = at /\ work'[j].pc = "next"
  <2>1. b.at = at
    BY Same DEF Batch
  <2> HIDE DEF b
  <2> QED BY <1>1, <2>1, TypesOf, Records DEF IInv, Idle
<1>3. Phase[work[j].pc] \in {2, 3, 4, 5, 6} /\ Phase["next"] = 6
  BY DEF InTask, AtWork, Phase
<1>4. Steps(j)' = 6 + 7 * (Len(PapersOf[j]) + 1 - at)
  BY <1>2, <1>3 DEF Steps, InTask
<1>5. Steps(j) = Phase[work[j].pc] + 7 * (Len(PapersOf[j]) + 1 - batch[j].at)
  BY DEF Steps
<1>6. Len(PapersOf[j]) \in Nat /\ batch[j].at \in Nat
  BY TaskBounds
<1>7. Phase[work[j].pc] \in Nat
  BY <1>3
<1> QED BY <1>4, <1>5, <1>6, <1>7, OnePaperLess

\* A paper is left behind, counted as completed, whether its progress could be written or not.
LEMMA ProgressShrinks ==
    ASSUME IInv, IInv', NEW j \in Jobs, Progress(j) \/ ProgressRaises(j)
    PROVE  Steps(j)' < Steps(j)
<1> DEFINE at == batch[j].at + 1
           w == [Idle EXCEPT !.pc = "next"]
<1>1. work' = [work EXCEPT ![j] = w] /\ work[j].pc = "saved"
  BY DEF Progress, ProgressRaises
<1>2. batch'[j].at = at
  BY Same, TypesOf DEF IInv, Progress, ProgressRaises, Batch
<1>3. work'[j].pc = "next"
  BY <1>1, TypesOf, Records DEF IInv, Idle
<1>4. Steps(j)' = 6 + 7 * (Len(PapersOf[j]) + 1 - at)
  BY <1>2, <1>3 DEF Steps, InTask, Phase
<1>5. Steps(j) = 2 + 7 * (Len(PapersOf[j]) + 1 - batch[j].at)
  BY <1>1 DEF Steps, InTask, AtWork, Phase
<1>6. Len(PapersOf[j]) \in Nat /\ batch[j].at \in Nat
  BY TaskBounds
<1> QED BY <1>4, <1>5, <1>6, OnePaperLess

LEMMA TaskShrinks ==
    ASSUME IInv, IInv', NEW j \in Jobs, TaskStep(j)
    PROVE  tries'[j] = tries[j] + 1 \/ Steps(j)' < Steps(j)
<1>1. CASE StartTask(j)
  BY <1>1, TypesOf DEF StartTask, IInv
<1>2. CASE PaperFails(j) \/ ScoreVanishes(j)
  BY <1>2, RaiseShrinks DEF PaperFails, ScoreVanishes, Remaining, InTask, AtWork
<1>3. CASE Embed(j) /\ work[j].paper \notin papers
  BY <1>3, RaiseShrinks DEF Embed, InTask, AtWork
<1>4. CASE SaveScore(j) /\ work[j].paper \notin papers
  BY <1>4, RaiseShrinks DEF SaveScore, Save, InTask, AtWork
<1>5. CASE Progress(j)
  BY <1>5, ProgressShrinks
<1>6. ASSUME NEW next \in {"embed", "context", "llm", "saved"},
             work'[j].pc = next, batch' = batch, work[j].pc \in InTask,
             Phase[next] < Phase[work[j].pc]
      PROVE  Steps(j)' < Steps(j)
  <2>1. Steps(j)' = Phase[next] + 7 * (Len(PapersOf[j]) + 1 - batch[j].at)
    BY <1>6 DEF Steps, InTask, AtWork
  <2>2. Phase[next] \in Nat /\ Phase[work[j].pc] \in Nat
    BY <1>6 DEF Phase, InTask, AtWork
  <2>3. Steps(j) = Phase[work[j].pc] + 7 * (Len(PapersOf[j]) + 1 - batch[j].at)
    BY <1>6 DEF Steps
  <2>4. 7 * (Len(PapersOf[j]) + 1 - batch[j].at) \in Nat
    BY TaskBounds
  <2> QED BY <1>6, <2>1, <2>2, <2>3, <2>4
<1>7. CASE StartPaper(j)
  <2>1. work[j].pc = "next" /\ work'[j].pc \in {"context", "embed"} /\ batch' = batch
    BY <1>7, TypesOf, Records DEF IInv, StartPaper, Remaining, NextPc, Idle
  <2> QED BY <1>6, <2>1 DEF InTask, Phase
<1>8. CASE Embed(j) /\ work[j].paper \in papers
  <2>1. work[j].pc = "embed" /\ work'[j].pc = "context" /\ batch' = batch
    BY <1>8, TypesOf, Same, Records DEF IInv, Embed, Work
  <2> QED BY <1>6, <2>1 DEF InTask, AtWork, Phase
<1>9. CASE BuildContext(j)
  <2> DEFINE know == knowledge \cap {OrgOf[work[j].paper]}
             used == work[j].weights
             w == [work[j] EXCEPT !.pc = "llm", !.know = know, !.used = used]
  <2>1. work[j].pc = "context" /\ batch' = batch /\ work' = [work EXCEPT ![j] = w]
    BY <1>9, TypesOf, Records DEF IInv, BuildContext
  <2> HIDE DEF know, used
  <2>2. w.pc = "llm"
    BY Same DEF Work
  <2> HIDE DEF w
  <2>3. work'[j].pc = "llm"
    BY <2>1, <2>2, TypesOf, Records DEF IInv
  <2> QED BY <1>6, <2>1, <2>3 DEF InTask, AtWork, Phase
<1>10. CASE SaveScore(j) /\ work[j].paper \in papers
  <2>1. work[j].pc = "llm" /\ work'[j].pc = "saved" /\ batch' = batch
    BY <1>10, TypesOf, Same, Records DEF IInv, SaveScore, Save, Work
  <2> QED BY <1>6, <2>1 DEF InTask, AtWork, Phase
<1>11. CASE Finish(j) \/ FinishFails(j)
  <2>1. work[j].pc = "next" /\ work'[j].pc = "ack"
    BY <1>11, TypesOf, Records DEF IInv, Finish, FinishFails, Idle
  <2>2. Steps(j)' = 1
    BY <2>1 DEF Steps, InTask, AtWork, Phase
  <2>3. Steps(j) = 6 + 7 * (Len(PapersOf[j]) + 1 - batch[j].at)
    BY <2>1 DEF Steps, InTask, Phase
  <2> QED BY <2>2, <2>3, TaskBounds
<1>12. CASE Ack(j)
  <2>1. work[j].pc = "ack" /\ work'[j].pc = "idle"
    BY <1>12, TypesOf, Records DEF IInv, Ack, Idle
  <2> QED BY <2>1 DEF Steps, InTask, AtWork, Phase
<1> QED BY <1>1, <1>2, <1>3, <1>4, <1>5, <1>7, <1>8, <1>9, <1>10, <1>11, <1>12
        DEF TaskStep, ScoreStep

\* Nobody else makes an attempt longer.
LEMMA OthersKeep ==
    ASSUME IInv, IInv', NEW j \in Jobs, Next, ~TaskStep(j)
    PROVE  Steps(j)' <= Steps(j)
<1>1. Steps(j) \in Nat /\ Steps(j)' \in Nat
  BY StepsCount, StepsCountNext DEF StepsCounted
<1>2. ASSUME work'[j] = work[j], batch'[j] = batch[j] PROVE Steps(j)' <= Steps(j)
  BY <1>1, <1>2 DEF Steps
<1>3. CASE ServiceFails(j) \/ AfterSaveFails(j) \/ ProgressRaises(j)
  <2>1. Steps(j)' < Steps(j)
    BY <1>3, RaiseShrinks, ProgressShrinks DEF ServiceFails, AfterSaveFails, InTask, AtWork
  <2> QED BY <1>1, <2>1
<1>4. CASE TimeOut(j) \/ Crash(j)
  <2>1. work'[j].pc = "idle"
    BY <1>4, TypesOf, Records DEF IInv, TimeOut, Crash, Idle
  <2> QED BY <1>1, <2>1 DEF Steps, InTask, AtWork, Phase
<1>5. ASSUME NEW a \in Actors \ {j},
             ScoreStep(a) \/ ServiceFails(a) \/ AfterSaveFails(a) \/ SaveFromCache(a)
      PROVE  work'[j] = work[j] /\ batch'[j] = batch[j]
  <2>1. /\ \E w : work' = [work EXCEPT ![a] = w]
        /\ batch' = batch \/ \E b : batch' = [batch EXCEPT ![a] = b]
    <3>1. CASE ServiceFails(a) \/ ScoreVanishes(a) \/ AfterSaveFails(a)
      BY <3>1 DEF ServiceFails, ScoreVanishes, AfterSaveFails, Raise
    <3>2. CASE Embed(a)
      BY <3>2 DEF Embed, Raise
    <3>3. CASE BuildContext(a)
      BY <3>3 DEF BuildContext
    <3>4. CASE SaveScore(a) \/ SaveFromCache(a)
      BY <3>4 DEF SaveScore, SaveFromCache, Save, Raise
    <3> QED BY <1>5, <3>1, <3>2, <3>3, <3>4 DEF ScoreStep
  <2> QED BY <2>1, TypesOf, Records DEF IInv
<1>6. ASSUME NEW k \in Jobs, EnqueueJob(k) \/ TaskStep(k) PROVE Steps(j)' <= Steps(j)
  <2>1. CASE EnqueueJob(k)
    BY <1>2, <2>1 DEF EnqueueJob
  <2>2. CASE TaskStep(k) /\ ~ScoreStep(k)
    <3>1. k # j
      BY <2>2
    <3>2. /\ \E w : work' = [work EXCEPT ![k] = w]
          /\ batch' = batch \/ \E b : batch' = [batch EXCEPT ![k] = b]
      BY <2>2 DEF TaskStep, StartTask, StartPaper, PaperFails, Progress, Finish, FinishFails,
         Ack, Raise
    <3> QED BY <1>2, <3>1, <3>2, TypesOf, Records DEF IInv
  <2>3. CASE ScoreStep(k)
    BY <1>2, <1>5, <2>3, Records DEF TaskStep
  <2> QED BY <1>6, <2>1, <2>2, <2>3
<1>7. ASSUME NEW r \in Requests, RequestStep(r) PROVE Steps(j)' <= Steps(j)
  <2>1. r \in Actors \ {j} /\ r \notin Jobs
    BY Records
  <2>2. CASE ReturnRecent(r) \/ StartFromCache(r) \/ StartRequest(r) \/ Answer(r)
    <3>1. batch' = batch /\ \E w : work' = [work EXCEPT ![r] = w]
      BY <2>2 DEF ReturnRecent, StartFromCache, StartRequest, Answer
    <3> QED BY <1>2, <2>1, <3>1, TypesOf, Records DEF IInv
  <2> QED BY <1>2, <1>5, <1>7, <2>1, <2>2 DEF RequestStep
<1>8. CASE Environment
  <2>1. ASSUME NEW k \in Jobs, \/ CreateJob(k) \/ EnqueueFails(k) \/ TimeOut(k) \/ Crash(k)
                               \/ ProgressRaises(k)
        PROVE  Steps(j)' <= Steps(j)
    <3>1. CASE k = j /\ (TimeOut(k) \/ Crash(k) \/ ProgressRaises(k))
      BY <1>3, <1>4, <3>1
    <3>2. CASE k # j /\ ProgressRaises(k)
      <4>1. /\ \E w : work' = [work EXCEPT ![k] = w]
            /\ \E b : batch' = [batch EXCEPT ![k] = b]
        BY <3>2 DEF ProgressRaises
      <4> QED BY <1>2, <3>2, <4>1, TypesOf, Records DEF IInv
    <3>3. CASE /\ k # j \/ CreateJob(k) \/ EnqueueFails(k)
               /\ ~ProgressRaises(k)
      BY <1>2, <2>1, <3>3, TypesOf, Records
         DEF IInv, CreateJob, EnqueueFails, TimeOut, Crash
    <3> QED BY <2>1, <3>1, <3>2, <3>3
  <2>2. ASSUME NEW a \in Actors, ServiceFails(a) \/ AfterSaveFails(a)
        PROVE  Steps(j)' <= Steps(j)
    BY <1>2, <1>3, <1>5, <2>2
  <2>3. CASE \/ \E p \in Papers : DeletePaper(p) \/ DayPasses(p)
             \/ \E o \in Orgs : ChangeKnowledge(o)
             \/ \E d \in Dois : EntryExpires(d)
             \/ CleanUp
    BY <1>2, <2>3 DEF DeletePaper, DayPasses, ChangeKnowledge, EntryExpires, CleanUp
  <2> QED BY <1>8, <2>1, <2>2, <2>3 DEF Environment
<1> QED BY <1>6, <1>7, <1>8 DEF Next

\* An attempt at a scoring job is over after a number of its own steps that only its papers
\* bound, and there are at most MaxTries attempts (jobs/scoring.py, jobs/worker.py): of
\* JobEnds, fairness only has to add that these steps are taken.
THEOREM AttemptsEnd == Spec => AttemptShrinks
<1> DEFINE Shrinks == \A j \in Jobs : IF tries'[j] # tries[j] THEN tries'[j] = tries[j] + 1
                       ELSE /\ Steps(j)' <= Steps(j)
                            /\ TaskStep(j) => Steps(j)' < Steps(j)
<1>1. ASSUME IInv, IInv', Next, NEW j \in Jobs
      PROVE  IF tries'[j] # tries[j] THEN tries'[j] = tries[j] + 1
             ELSE /\ Steps(j)' <= Steps(j)
                  /\ TaskStep(j) => Steps(j)' < Steps(j)
  <2>1. /\ Steps(j) \in Nat /\ Steps(j)' \in Nat
        /\ tries[j] \in Nat /\ (tries'[j] = tries[j] \/ tries'[j] = tries[j] + 1)
    BY <1>1, StepsCount, StepsCountNext, TriesCount DEF StepsCounted
  <2>2. CASE TaskStep(j)
    <3>1. tries'[j] = tries[j] + 1 \/ Steps(j)' < Steps(j)
      BY <1>1, <2>2, TaskShrinks
    <3> QED BY <2>1, <3>1
  <2>3. CASE ~TaskStep(j)
    BY <1>1, <2>1, <2>3, OthersKeep
  <2> QED BY <2>2, <2>3
<1>2. IInv /\ IInv' /\ [Next]_vars => [Shrinks]_vars
  BY <1>1
<1> QED BY <1>2, Invariance, PTL DEF Spec, AttemptShrinks
===============================================================================
