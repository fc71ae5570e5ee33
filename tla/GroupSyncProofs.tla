--------------------------- MODULE GroupSyncProofs ---------------------------
(***************************************************************************)
(* Proofs about GroupSync, for every set of groups, requests, jobs and     *)
(* papers: its type invariant, ReadyIsSettled, ClustersHoldMembers and     *)
(* PublishedTogether, and that it implements GroupPage.                    *)
(***************************************************************************)
EXTENDS GroupSync, FiniteSetTheorems, TLAPS

\* A job is at work exactly while arq runs it, and only for a group.
Working ==
    \A j \in Jobs :
        /\ job[j] = "none" <=> target[j] = NONE
        /\ pc[j] \in InJob <=> job[j] = "running"

\* arq's id: of the jobs of a group at most one is queued, running or kept.
OneJob ==
    \A j, k \in Jobs :
        j # k /\ target[j] = target[k] => job[j] \in {"none", "expired"}
                                       \/ job[k] \in {"none", "expired"}

\* Members and embeddings are of papers that exist, a group that is not there has
\* no members.
Library ==
    /\ papers \subseteq stored /\ embedded \subseteq papers
    /\ \A g \in Groups : members[g] \subseteq papers
    /\ \A g \in Groups : group[g] = NONE => members[g] = {}

\* Papers that wait for their commit are new and nobody else's, or exist.
FreshRecords ==
    \A j \in Jobs : pc[j] = "imported" =>
        /\ fresh[j] \cap stored \subseteq papers
        /\ \A k \in Jobs \ {j} : pc[k] = "imported" => fresh[j] \cap fresh[k] \subseteq papers

\* Of the papers a job read, those that still exist are embedded members, as
\* long as the group is there; a group that is not yet committed has none.
ReadMembers ==
    \A j \in Jobs :
        /\ pc[j] = "idle" => read[j] = {}
        /\ target[j] # NONE =>
            /\ read[j] \subseteq stored
            /\ group[target[j]] # NONE =>
                 read[j] \cap papers \subseteq members[target[j]] \cap embedded
            /\ create[target[j]] # "done" => read[j] = {}

NotYetCreated == \A g \in Groups : create[g] # "done" => group[g] = NONE

\* A sync request that has read its group knows which one.
RequestsAsk == \A q \in Requests : request[q] # "idle" => asked[q] \in Groups

IInv ==
    /\ TypeOK
    /\ Working
    /\ OneJob
    /\ Library
    /\ FreshRecords
    /\ ReadMembers
    /\ NotYetCreated
    /\ RequestsAsk
    /\ ReadyIsSettled
    /\ ClustersHoldMembers

------------------------------------------------------------------------------
(* Facts the steps share.                                                  *)

USE GroupsAssumption, RowAssumption DEF content, library, api, queue, batch

\* Members are finite sets: they can be counted.
LEMMA MembersCount ==
    ASSUME NEW S \in SUBSET Papers
    PROVE  IsFiniteSet(S) /\ Cardinality(S) \in Nat
BY PapersAssumption, FS_Subset, FS_CardinalityType

\* A clustering of a set of papers has as many clusters as it uses numbers.
LEMMA RowsCount ==
    ASSUME NEW S \in SUBSET Papers, NEW f \in Clusterings(S)
    PROVE  DOMAIN f = S /\ Rows(f) \in Nat
<1>1. DOMAIN f = S
  BY DEF Clusterings
<1>2. PICK n \in 1..Cardinality(S) : f \in [S -> 1..n]
  BY DEF Clusterings
<1>3. IsFiniteSet(1..n) /\ {f[p] : p \in S} \subseteq 1..n
  BY <1>2, MembersCount, FS_Interval
<1>4. IsFiniteSet({f[p] : p \in S})
  BY <1>3, FS_Subset
<1> QED BY <1>1, <1>4, FS_CardinalityType DEF Rows

\* update_sync_status writes a row that keeps its counts.
LEMMA StatusRow ==
    ASSUME NEW r \in Row, NEW st \in Status
    PROVE  [r EXCEPT !.status = st] \in Row /\ [r EXCEPT !.status = st].status = st
BY DEF Row

\* SetStatus keeps which groups exist and the other groups.
LEMMA SetStatusStep ==
    ASSUME TypeOK, NEW g \in Groups, NEW st \in Status, SetStatus(g, st)
    PROVE  /\ group' \in [Groups -> {NONE} \cup Row]
           /\ \A x \in Groups : group'[x] = NONE <=> group[x] = NONE
           /\ \A x \in Groups \ {g} : group'[x] = group[x]
           /\ group'[g] # NONE => group'[g].status = st
<1>1. CASE group[g] = NONE
  BY <1>1 DEF TypeOK, SetStatus
<1>2. CASE group[g] # NONE
  <2>1. group[g] \in Row
    BY <1>2 DEF TypeOK
  <2>2. group' = [group EXCEPT ![g] = [group[g] EXCEPT !.status = st]]
    BY <1>2 DEF SetStatus
  <2> QED BY <2>1, <2>2, StatusRow DEF TypeOK
<1> QED BY <1>1, <1>2

\* While a job is at work no other job of its group is.
LEMMA Alone ==
    ASSUME IInv, NEW j \in Jobs, pc[j] \in InJob
    PROVE  /\ job[j] = "running" /\ target[j] \in Groups
           /\ \A k \in Jobs : k # j /\ target[k] = target[j] => pc[k] = "idle"
BY DEF IInv, TypeOK, Working, OneJob

\* The invariant speaks of the tables, the queue and the sessions: handlers
\* that only move on keep it.
LEMMA QuietStep ==
    ASSUME IInv, UNCHANGED <<content, library, queue, pc, batch>>, TypeOK', RequestsAsk',
           \A g \in Groups : create'[g] # "done" => create[g] # "done"
    PROVE  IInv'
<1> USE DEF IInv
<1>1. Working' /\ OneJob' /\ Library' /\ FreshRecords'
  BY DEF Working, OneJob, Library, FreshRecords
<1>2. ReadMembers'
  BY DEF ReadMembers, TypeOK
<1>3. NotYetCreated' /\ ReadyIsSettled' /\ ClustersHoldMembers'
  BY DEF NotYetCreated, ReadyIsSettled, ClustersHoldMembers
<1> QED BY <1>1, <1>2, <1>3

------------------------------------------------------------------------------
\* Nothing exists in the initial state.
LEMMA InitInv == Init => IInv
<1> SUFFICES ASSUME Init PROVE IInv
  OBVIOUS
<1>1. \A g \in Groups : DOMAIN clusterOf[g] = {}
  BY DEF Init, Empty
<1>2. TypeOK
  BY <1>1, CrashAssumption DEF Init, TypeOK, Status
<1>3. Working /\ OneJob /\ Library /\ FreshRecords /\ ReadMembers
  BY DEF Init, Working, OneJob, Library, FreshRecords, ReadMembers, InJob
<1>4. NotYetCreated /\ RequestsAsk /\ ReadyIsSettled /\ ClustersHoldMembers
  BY <1>1 DEF Init, NotYetCreated, RequestsAsk, ReadyIsSettled, ClustersHoldMembers
<1> QED BY <1>2, <1>3, <1>4 DEF IInv

\* enqueue_job: the new job is the only one of its group that arq knows.
LEMMA EnqueueStep ==
    ASSUME IInv, NEW g \in Groups, EnqueueRaises(g), TypeOK', RequestsAsk',
           UNCHANGED <<content, library, crashes, pc, batch>>,
           \A x \in Groups : create'[x] # "done" <=> create[x] # "done"
    PROVE  IInv'
<1>1. CASE UNCHANGED <<job, target>>
  BY <1>1, QuietStep
<1>2. CASE Enqueue(g)
  <2> USE <1>2 DEF IInv, Enqueue, TypeOK
  <2>1. PICK j \in Jobs : /\ job[j] = "none" /\ Accepted(g)
                          /\ job' = [job EXCEPT ![j] = "queued"]
                          /\ target' = [target EXCEPT ![j] = g]
    OBVIOUS
  <2>2. target[j] = NONE /\ pc[j] \notin InJob /\ pc[j] = "idle"
    BY <2>1 DEF Working
  <2>3. Working' /\ OneJob'
    BY <2>1, <2>2 DEF Working, OneJob, Accepted
  <2>4. Library' /\ FreshRecords' /\ NotYetCreated' /\ ClustersHoldMembers'
    BY <2>1, <2>2 DEF Library, FreshRecords, NotYetCreated, ClustersHoldMembers
  <2>5. ReadyIsSettled'
    BY <2>1, <2>2 DEF ReadyIsSettled
  <2>6. ReadMembers'
    BY <2>1, <2>2 DEF ReadMembers
  <2> QED BY <2>3, <2>4, <2>5, <2>6
<1> QED BY <1>1, <1>2 DEF EnqueueRaises

\* create_project up to its commit.
LEMMA CreateStepKeeps ==
    ASSUME IInv, NEW g \in Groups,
           CreateProject(g) \/ CreateEnqueue(g) \/ CreateAborts(g)
    PROVE  IInv'
<1> USE DEF IInv
<1>1. RequestsAsk'
  BY DEF RequestsAsk, CreateProject, CreateEnqueue, CreateAborts
<1>2. CASE CreateProject(g)
  BY <1>1, <1>2, QuietStep DEF CreateProject, TypeOK
<1>3. CASE CreateAborts(g)
  BY <1>1, <1>3, QuietStep DEF CreateAborts, TypeOK
<1>4. CASE CreateEnqueue(g)
  <2>1. EnqueueRaises(g)
    BY <1>4 DEF CreateEnqueue, EnqueueRaises
  <2>2. TypeOK'
    BY <1>4, <2>1 DEF CreateEnqueue, EnqueueRaises, Enqueue, TypeOK
  <2>3. \A x \in Groups : create'[x] # "done" <=> create[x] # "done"
    BY <1>4 DEF CreateEnqueue, TypeOK
  <2> QED BY <1>1, <1>4, <2>1, <2>2, <2>3, EnqueueStep DEF CreateEnqueue
<1> QED BY <1>2, <1>3, <1>4

\* The commit of create_project may come long after its job: the row it adds is
\* never READY.
LEMMA CreateCommitStep ==
    ASSUME IInv, NEW g \in Groups, CreateCommit(g)
    PROVE  IInv'
<1> USE DEF IInv, CreateCommit
<1> DEFINE row == NewRow(IF create[g] = "enqueued" THEN "importing" ELSE "idle")
<1>1. row \in Row /\ row.status # "ready" /\ row # NONE
  BY DEF NewRow, Row, Status
<1>2. group' = [group EXCEPT ![g] = row]
  OBVIOUS
<1> HIDE DEF row
<1>3. TypeOK'
  BY <1>1, <1>2 DEF TypeOK
<1>4. Working' /\ OneJob' /\ Library' /\ FreshRecords' /\ RequestsAsk' /\ ClustersHoldMembers'
  BY <1>1, <1>2 DEF TypeOK, Working, OneJob, Library, FreshRecords, RequestsAsk,
                    ClustersHoldMembers
<1>5. ReadMembers'
  BY <1>1, <1>2 DEF TypeOK, ReadMembers
<1>6. NotYetCreated' /\ ReadyIsSettled'
  BY <1>1, <1>2 DEF TypeOK, NotYetCreated, ReadyIsSettled
<1> QED BY <1>3, <1>4, <1>5, <1>6

\* sync_project: its late commit may take READY away, never give it.
LEMMA SyncStepKeeps ==
    ASSUME IInv, NEW q \in Requests, SyncStep(q)
    PROVE  IInv'
<1> USE DEF IInv
<1>1. CASE \E g \in Groups : SyncLoad(q, g)
  <2>1. PICK g \in Groups : SyncLoad(q, g)
    BY <1>1
  <2>2. group[g].status \in Status
    BY <2>1 DEF SyncLoad, TypeOK, Row
  <2>3. TypeOK' /\ RequestsAsk'
    BY <2>1, <2>2 DEF SyncLoad, TypeOK, RequestsAsk
  <2> QED BY <2>1, <2>3, QuietStep DEF SyncLoad
<1>2. CASE SyncEnqueue(q)
  <2>1. asked[q] \in Groups /\ EnqueueRaises(asked[q])
    BY <1>2 DEF SyncEnqueue, EnqueueRaises, RequestsAsk
  <2>2. TypeOK' /\ RequestsAsk'
    BY <1>2, <2>1 DEF SyncEnqueue, EnqueueRaises, Enqueue, TypeOK, RequestsAsk
  <2> QED BY <1>2, <2>1, <2>2, EnqueueStep DEF SyncEnqueue
<1>3. CASE SyncCommit(q)
  <2>1. asked[q] \in Groups
    BY <1>3 DEF SyncCommit, RequestsAsk
  <2>2. RequestsAsk'
    BY <1>3 DEF SyncCommit, RequestsAsk, TypeOK
  <2>3. CASE UNCHANGED group
    <3>1. TypeOK'
      BY <1>3, <2>3 DEF SyncCommit, TypeOK
    <3> QED BY <1>3, <2>2, <2>3, <3>1, QuietStep DEF SyncCommit
  <2>4. CASE SetStatus(asked[q], "importing")
    <3> DEFINE g == asked[q]
    <3>1. /\ group' \in [Groups -> {NONE} \cup Row]
          /\ \A x \in Groups : group'[x] = NONE <=> group[x] = NONE
          /\ \A x \in Groups \ {g} : group'[x] = group[x]
          /\ group'[g] # NONE => group'[g].status = "importing"
      BY <2>1, <2>4, SetStatusStep DEF Status
    <3>2. TypeOK'
      BY <1>3, <3>1 DEF SyncCommit, TypeOK
    <3>3. /\ Working' /\ OneJob' /\ Library' /\ FreshRecords' /\ NotYetCreated'
          /\ ClustersHoldMembers'
      BY <1>3, <3>1 DEF SyncCommit, Working, OneJob, Library, FreshRecords, NotYetCreated,
                        ClustersHoldMembers
    <3>4. ReadMembers' /\ ReadyIsSettled'
      BY <1>3, <3>1 DEF SyncCommit, TypeOK, ReadMembers, ReadyIsSettled
    <3> QED BY <2>2, <3>2, <3>3, <3>4
  <2> QED BY <1>3, <2>3, <2>4 DEF SyncCommit
<1> QED BY <1>1, <1>2, <1>3 DEF SyncStep

\* delete_project takes members and clusters along.
LEMMA DeleteProjectStep ==
    ASSUME IInv, NEW g \in Groups, DeleteProject(g)
    PROVE  IInv'
<1> USE DEF IInv, DeleteProject, TypeOK
<1>1. clusterOf'[g] = Empty /\ DOMAIN Empty = {}
      /\ \A x \in Groups \ {g} : clusterOf'[x] = clusterOf[x]
  BY DEF Empty
<1>2. TypeOK'
  BY <1>1
<1>3. Working' /\ OneJob' /\ FreshRecords' /\ NotYetCreated' /\ RequestsAsk'
  BY DEF Working, OneJob, FreshRecords, NotYetCreated, RequestsAsk
<1>4. Library' /\ ReadMembers' /\ ReadyIsSettled'
  BY DEF Library, ReadMembers, ReadyIsSettled
<1>5. ClustersHoldMembers'
  BY <1>1 DEF ClustersHoldMembers
<1> QED BY <1>2, <1>3, <1>4, <1>5

\* delete_paper takes memberships, embedding and cluster entries along.
LEMMA DeletePaperStep ==
    ASSUME IInv, NEW p \in Papers, DeletePaper(p)
    PROVE  IInv'
<1> USE DEF IInv, DeletePaper, TypeOK
<1>1. \A g \in Groups :
        /\ DOMAIN clusterOf'[g] = DOMAIN clusterOf[g] \ {p}
        /\ \A x \in DOMAIN clusterOf'[g] : clusterOf'[g][x] = clusterOf[g][x]
  OBVIOUS
<1>2. TypeOK'
  BY <1>1
<1>3. /\ Working' /\ OneJob' /\ FreshRecords' /\ NotYetCreated' /\ RequestsAsk'
      /\ ReadyIsSettled'
  BY DEF Working, OneJob, FreshRecords, NotYetCreated, RequestsAsk, ReadyIsSettled
<1>4. Library' /\ ReadMembers'
  BY DEF Library, ReadMembers
<1>5. ClustersHoldMembers'
  BY <1>1 DEF ClustersHoldMembers
<1> QED BY <1>2, <1>3, <1>4, <1>5

\* A discovery profile adds papers that exist, or that nobody has read and no job
\* has created.
LEMMA DiscoverStep ==
    ASSUME IInv, NEW g \in Groups, Discover(g)
    PROVE  IInv'
<1> USE PapersAssumption DEF IInv, Discover
<1>1. PICK found \in SUBSET (Discoverable \ (stored \ papers)) :
        /\ \A j \in Jobs : pc[j] = "imported" => fresh[j] \cap found \subseteq papers
        /\ stored' = stored \cup found
        /\ papers' = papers \cup found
        /\ members' = [members EXCEPT ![g] = @ \cup found]
  OBVIOUS
<1>2. TypeOK'
  BY <1>1 DEF TypeOK
<1>3. /\ Working' /\ OneJob' /\ FreshRecords' /\ NotYetCreated' /\ RequestsAsk'
      /\ ReadyIsSettled'
  BY <1>1 DEF Working, OneJob, FreshRecords, NotYetCreated, RequestsAsk, ReadyIsSettled
<1>4. Library' /\ ReadMembers' /\ ClustersHoldMembers'
  BY <1>1 DEF TypeOK, Library, ReadMembers, ClustersHoldMembers
<1> QED BY <1>2, <1>3, <1>4

------------------------------------------------------------------------------
(* The steps of the job.                                                   *)

\* A free id: the job arq forgets no longer speaks for its group.
LEMMA ExpireResultStep ==
    ASSUME IInv, NEW j \in Jobs, ExpireResult(j)
    PROVE  IInv'
<1> USE DEF IInv, ExpireResult
<1>1. TypeOK' /\ Working' /\ OneJob' /\ Library' /\ FreshRecords' /\ RequestsAsk'
  BY DEF TypeOK, Working, OneJob, Library, FreshRecords, RequestsAsk
<1>2. ReadMembers' /\ NotYetCreated' /\ ReadyIsSettled' /\ ClustersHoldMembers'
  BY DEF ReadMembers, NotYetCreated, ReadyIsSettled, ClustersHoldMembers
<1> QED BY <1>1, <1>2

\* A job that starts has changed nothing yet.
LEMMA StartJobStep ==
    ASSUME IInv, NEW j \in Jobs, StartJob(j)
    PROVE  IInv'
<1> USE DEF IInv, StartJob, Goto, InJob
<1>1. pc[j] = "idle" /\ target[j] # NONE
  BY DEF TypeOK, Working
<1>2. TypeOK' /\ Working' /\ OneJob' /\ Library' /\ FreshRecords' /\ RequestsAsk'
  BY <1>1 DEF TypeOK, Working, OneJob, Library, FreshRecords, RequestsAsk
<1>3. ReadMembers' /\ NotYetCreated' /\ ReadyIsSettled' /\ ClustersHoldMembers'
  BY <1>1 DEF TypeOK, ReadMembers, NotYetCreated, ReadyIsSettled, ClustersHoldMembers
<1> QED BY <1>2, <1>3

\* A job that ends, well or not, leaves its group without a job at work: any
\* status is then allowed.
LEMMA EndStep ==
    ASSUME IInv, NEW j \in Jobs, pc[j] \in InJob, Close(j), TypeOK', ClustersHoldMembers',
           job' = [job EXCEPT ![j] = "kept"] \/ job' = [job EXCEPT ![j] = "queued"],
           UNCHANGED <<members, library, api, target>>,
           \A x \in Groups : group'[x] = NONE <=> group[x] = NONE,
           \A x \in Groups \ {target[j]} : group'[x] = group[x]
    PROVE  IInv'
<1> USE DEF IInv, Close, Goto
<1>1. /\ job[j] = "running" /\ target[j] \in Groups
      /\ \A k \in Jobs : k # j /\ target[k] = target[j] => pc[k] = "idle"
  BY Alone
<1>2. pc' = [pc EXCEPT ![j] = "idle"] /\ "idle" \notin InJob
  BY DEF InJob
<1>3. Working' /\ OneJob'
  BY SMTT(20), <1>1, <1>2 DEF TypeOK, Working, OneJob
<1>4. Library' /\ FreshRecords' /\ RequestsAsk' /\ NotYetCreated'
  BY <1>2 DEF TypeOK, Library, FreshRecords, RequestsAsk, NotYetCreated
<1>5. ReadMembers'
  BY <1>1, <1>2 DEF TypeOK, ReadMembers
<1>6. ReadyIsSettled'
  BY <1>1, <1>2 DEF TypeOK, ReadyIsSettled
<1> QED BY <1>3, <1>4, <1>5, <1>6

\* update_sync_status inside the job never writes READY.
LEMMA MarkStep ==
    ASSUME IInv, NEW j \in Jobs, MarkImporting(j) \/ MarkClustering(j)
    PROVE  IInv'
<1> USE DEF IInv
<1> DEFINE g == target[j]
<1>1. PICK st \in {"importing", "clustering"}, to \in {"marked", "reading"} :
        /\ pc[j] \in {"started", "clustering"}
        /\ SetStatus(g, st) /\ pc' = [pc EXCEPT ![j] = to]
        /\ UNCHANGED <<members, rows, clusterOf, library, api, queue, batch, outcome>>
  BY DEF MarkImporting, MarkClustering, Goto
<1>2. job[j] = "running" /\ g \in Groups
  BY <1>1, Alone DEF InJob
<1>3. /\ group' \in [Groups -> {NONE} \cup Row]
      /\ \A x \in Groups : group'[x] = NONE <=> group[x] = NONE
      /\ \A x \in Groups \ {g} : group'[x] = group[x]
      /\ group'[g] # NONE => group'[g].status = st
  BY <1>1, <1>2, SetStatusStep DEF Status
<1>4. TypeOK'
  BY <1>1, <1>3 DEF TypeOK, InJob
<1>5. Working' /\ OneJob' /\ Library' /\ FreshRecords' /\ RequestsAsk' /\ NotYetCreated'
  BY <1>1, <1>2, <1>3 DEF TypeOK, InJob, Working, OneJob, Library, FreshRecords,
                          RequestsAsk, NotYetCreated
<1>6. ReadMembers' /\ ClustersHoldMembers'
  BY <1>1, <1>3 DEF TypeOK, ReadMembers, ClustersHoldMembers
<1>7. ReadyIsSettled'
  BY <1>1, <1>3 DEF TypeOK, ReadyIsSettled
<1> QED BY <1>4, <1>5, <1>6, <1>7

\* The pipeline creates papers no session has created, or matches some that exist.
LEMMA ImportStep ==
    ASSUME IInv, NEW j \in Jobs, Import(j)
    PROVE  IInv'
<1> USE DEF IInv, Import, Goto
<1> DEFINE g == target[j]
<1>1. job[j] = "running" /\ g \in Groups
  BY Alone DEF InJob
<1>2. PICK found \in SUBSET Published[g] :
        /\ \A k \in Jobs \ {j} : pc[k] = "imported" => fresh[k] \cap found \subseteq papers
        /\ fresh' = [fresh EXCEPT ![j] = found \ (stored \ papers)]
  OBVIOUS
<1>3. found \subseteq Papers
  BY <1>1, PublishedAssumption
<1>4. TypeOK'
  BY <1>2, <1>3 DEF TypeOK, InJob
<1>5. FreshRecords'
  BY <1>2 DEF TypeOK, FreshRecords
<1>6. Working' /\ OneJob' /\ Library' /\ RequestsAsk' /\ NotYetCreated' /\ ClustersHoldMembers'
  BY <1>1 DEF TypeOK, InJob, Working, OneJob, Library, RequestsAsk, NotYetCreated,
              ClustersHoldMembers
<1>7. ReadMembers' /\ ReadyIsSettled'
  BY <1>1 DEF TypeOK, ReadMembers, ReadyIsSettled
<1> QED BY <1>4, <1>5, <1>6, <1>7

\* The papers a job adds are new or exist: nothing another job has read becomes
\* a paper again.
LEMMA AddPapersStep ==
    ASSUME IInv, NEW j \in Jobs, AddPapers(j)
    PROVE  IInv'
<1> USE DEF IInv, AddPapers, Goto
<1> DEFINE g == target[j]
<1>1. job[j] = "running" /\ g \in Groups
  BY Alone DEF InJob
<1>2. fresh[j] \subseteq Papers /\ fresh[j] \cap stored \subseteq papers
      /\ \A k \in Jobs \ {j} : pc[k] = "imported" => fresh[j] \cap fresh[k] \subseteq papers
  BY DEF TypeOK, FreshRecords
<1>3. TypeOK'
  BY <1>1, <1>2 DEF TypeOK, InJob
<1>4. Working' /\ OneJob' /\ RequestsAsk' /\ NotYetCreated' /\ ReadyIsSettled'
  BY <1>1 DEF TypeOK, InJob, Working, OneJob, RequestsAsk, NotYetCreated, ReadyIsSettled
<1>5. FreshRecords'
  BY <1>2 DEF TypeOK, FreshRecords
<1>6. Library' /\ ClustersHoldMembers'
  BY <1>1 DEF TypeOK, Library, ClustersHoldMembers
<1>7. ReadMembers'
  BY <1>1, <1>2 DEF TypeOK, ReadMembers
<1> QED BY <1>3, <1>4, <1>5, <1>6, <1>7

\* Only members get an embedding here.
LEMMA EmbedPapersStep ==
    ASSUME IInv, NEW j \in Jobs, EmbedPapers(j)
    PROVE  IInv'
<1> USE DEF IInv, EmbedPapers, Goto
<1>1. job[j] = "running" /\ target[j] \in Groups
  BY Alone DEF InJob
<1>2. PICK done \in SUBSET (members[target[j]] \ embedded) : embedded' = embedded \cup done
  OBVIOUS
<1>3. TypeOK'
  BY <1>1, <1>2 DEF TypeOK, InJob
<1>4. /\ Working' /\ OneJob' /\ RequestsAsk' /\ NotYetCreated' /\ ReadyIsSettled'
      /\ FreshRecords'
  BY <1>1 DEF TypeOK, InJob, Working, OneJob, RequestsAsk, NotYetCreated, ReadyIsSettled,
              FreshRecords
<1>5. Library' /\ ClustersHoldMembers' /\ ReadMembers'
  BY <1>1, <1>2 DEF TypeOK, Library, ClustersHoldMembers, ReadMembers
<1> QED BY <1>3, <1>4, <1>5

\* The two reads before the clusters are saved.
LEMMA ReadStep ==
    ASSUME IInv, NEW j \in Jobs, ReadEmbedded(j) \/ CountPapers(j)
    PROVE  IInv'
<1> USE DEF IInv, ReadEmbedded, CountPapers, Goto
<1> DEFINE g == target[j]
<1>1. job[j] = "running" /\ g \in Groups
  BY Alone DEF InJob
<1>2. members[g] \in SUBSET Papers /\ Cardinality(members[g]) \in Nat
  BY <1>1, MembersCount DEF TypeOK
<1>3. TypeOK'
  BY SMTT(20), <1>1, <1>2 DEF TypeOK, InJob
<1>4. /\ Working' /\ OneJob' /\ RequestsAsk' /\ NotYetCreated' /\ ReadyIsSettled'
      /\ FreshRecords' /\ Library' /\ ClustersHoldMembers'
  BY <1>1 DEF TypeOK, InJob, Working, OneJob, RequestsAsk, NotYetCreated, ReadyIsSettled,
              FreshRecords, Library, ClustersHoldMembers
<1>5. ReadMembers'
  BY <1>1 DEF TypeOK, ReadMembers, Library, NotYetCreated
<1> QED BY <1>3, <1>4, <1>5

\* The job ends without touching clusters: nothing tracked, no group, too few
\* embeddings, a failure, a timeout or a crash.
LEMMA EndsWithoutClusters ==
    ASSUME IInv, NEW j \in Jobs,
           \/ GroupNotFound(j) \/ NothingTracked(j) \/ SkipClustering(j)
           \/ JobFails(j) \/ JobTimesOut(j) \/ Crash(j)
    PROVE  IInv'
<1> USE DEF IInv
<1> DEFINE g == target[j]
<1>1. pc[j] \in InJob
  BY DEF GroupNotFound, NothingTracked, SkipClustering, JobFails, JobTimesOut, Crash,
         InJob, Working
<1>2. g \in Groups
  BY <1>1, Alone
<1>3. Close(j) /\ UNCHANGED <<members, rows, clusterOf, library, api, target>>
  BY DEF GroupNotFound, NothingTracked, SkipClustering, JobFails, JobTimesOut, Crash, End
<1>4. job' = [job EXCEPT ![j] = "kept"] \/ job' = [job EXCEPT ![j] = "queued"]
  BY DEF GroupNotFound, NothingTracked, SkipClustering, JobFails, JobTimesOut, Crash, End
<1>5. /\ group' \in [Groups -> {NONE} \cup Row]
      /\ \A x \in Groups : group'[x] = NONE <=> group[x] = NONE
      /\ \A x \in Groups \ {g} : group'[x] = group[x]
  <2>1. CASE UNCHANGED group
    BY <2>1 DEF TypeOK
  <2>2. CASE NothingTracked(j)
    <3>1. NewRow("ready") \in Row
      BY DEF NewRow, Row, Status
    <3> QED BY <2>2, <3>1, <1>2 DEF NothingTracked, TypeOK
  <2>3. CASE SkipClustering(j)
    <3>1. [status |-> "ready", papers |-> total[j], clusters |-> 0] \in Row
      BY DEF TypeOK, Row, Status
    <3> QED BY <2>3, <3>1, <1>2 DEF SkipClustering, TypeOK
  <2>4. CASE SetStatus(g, "failed")
    BY <2>4, <1>2, SetStatusStep DEF Status
  <2> QED BY <2>1, <2>2, <2>3, <2>4 DEF GroupNotFound, JobFails, JobTimesOut, Crash
<1>6. crashes' \in 0..MaxCrashes
  BY CrashAssumption DEF TypeOK, GroupNotFound, NothingTracked, SkipClustering, JobFails,
                         JobTimesOut, Crash
<1>7. outcome' \in [Jobs -> {"none", "ok", "missing", "failed", "unmarked"}]
  BY DEF TypeOK, GroupNotFound, NothingTracked, SkipClustering, JobFails, JobTimesOut,
         Crash, End
<1>8. TypeOK'
  BY <1>3, <1>4, <1>5, <1>6, <1>7 DEF TypeOK, Close, Goto
<1>9. ClustersHoldMembers'
  BY <1>3 DEF ClustersHoldMembers
<1> QED BY <1>1, <1>3, <1>4, <1>5, <1>8, <1>9, EndStep

\* save_clusters: the papers read steps ago are still there, so they are still
\* embedded members.
LEMMA SaveClustersStep ==
    ASSUME IInv, NEW j \in Jobs, SaveClusters(j)
    PROVE  IInv'
<1> USE DEF IInv
<1> DEFINE g == target[j]
<1>1. pc[j] \in InJob /\ group[g] # NONE /\ read[j] \subseteq papers /\ End(j, "ok")
      /\ UNCHANGED <<members, library, api, target, crashes>>
  BY DEF SaveClusters, InJob
<1>2. g \in Groups
  BY <1>1, Alone
<1>3. PICK f \in Clusterings(read[j]) :
        /\ {f[p] : p \in read[j]} = 1..Rows(f)
        /\ rows' = [rows EXCEPT ![g] = Rows(f)]
        /\ clusterOf' = [clusterOf EXCEPT ![g] = f]
        /\ group' = [group EXCEPT ![g] =
                       [status |-> "ready", papers |-> total[j], clusters |-> Rows(f)]]
  BY DEF SaveClusters
<1>4. DOMAIN f = read[j] /\ Rows(f) \in Nat
  BY RowsCount DEF TypeOK
<1> HIDE DEF g
<1>5. /\ clusterOf'[g] = f
      /\ \A x \in Groups \ {g} : clusterOf'[x] = clusterOf[x]
      /\ DOMAIN clusterOf' = Groups
  BY <1>2, <1>3 DEF TypeOK
<1>6. \A p \in DOMAIN f : f[p] \in 1..Rows(f)
  BY <1>3, <1>4
<1>7. \A x \in Groups : /\ DOMAIN clusterOf'[x] \subseteq Papers
                        /\ \A p \in DOMAIN clusterOf'[x] : clusterOf'[x][p] \in 1..rows'[x]
  BY <1>2, <1>3, <1>4, <1>5, <1>6 DEF TypeOK
<1>8. [status |-> "ready", papers |-> total[j], clusters |-> Rows(f)] \in Row
  BY <1>4 DEF TypeOK, Row, Status
<1>9. group' \in [Groups -> {NONE} \cup Row] /\ rows' \in [Groups -> Nat]
  BY <1>2, <1>3, <1>4, <1>8 DEF TypeOK
<1>10. TypeOK'
  BY <1>1, <1>5, <1>7, <1>9 DEF TypeOK, End, Close, Goto
<1>11. read[j] \subseteq members[g] \cap embedded
  BY <1>1, <1>2 DEF ReadMembers, TypeOK, g
<1>12. ClustersHoldMembers'
  BY <1>1, <1>2, <1>4, <1>5, <1>11 DEF ClustersHoldMembers
<1>13. \A x \in Groups : group'[x] = NONE <=> group[x] = NONE
  BY <1>1, <1>2, <1>3, <1>8 DEF TypeOK, g
<1>14. \A x \in Groups \ {target[j]} : group'[x] = group[x]
  BY <1>2, <1>3 DEF TypeOK, g
<1> QED BY <1>1, <1>10, <1>12, <1>13, <1>14, EndStep DEF End

------------------------------------------------------------------------------
(* The theorems.                                                           *)

\* Every step keeps the inductive invariant.
LEMMA NextInv == IInv /\ [Next]_vars => IInv'
<1> SUFFICES ASSUME IInv, [Next]_vars PROVE IInv'
  OBVIOUS
<1>1. CASE UNCHANGED vars
  BY <1>1 DEF vars, IInv, TypeOK, Working, OneJob, Library, FreshRecords, ReadMembers,
              NotYetCreated, RequestsAsk, ReadyIsSettled, ClustersHoldMembers
<1>2. ASSUME NEW g \in Groups, CreateStep(g) \/ DeleteProject(g) \/ Discover(g)
      PROVE  IInv'
  BY <1>2, CreateStepKeeps, CreateCommitStep, DeleteProjectStep, DiscoverStep DEF CreateStep
<1>3. ASSUME NEW q \in Requests, SyncStep(q) PROVE IInv'
  BY <1>3, SyncStepKeeps
<1>4. ASSUME NEW j \in Jobs, JobStep(j) PROVE IInv'
  BY <1>4, StartJobStep, MarkStep, EndsWithoutClusters, ImportStep, AddPapersStep,
     EmbedPapersStep, ReadStep, SaveClustersStep DEF JobStep
<1>5. ASSUME NEW j \in Jobs, JobFault(j) PROVE IInv'
  BY <1>5, EndsWithoutClusters, ExpireResultStep DEF JobFault
<1>6. ASSUME NEW p \in Papers, DeletePaper(p) PROVE IInv'
  BY <1>6, DeletePaperStep
<1> QED BY <1>1, <1>2, <1>3, <1>4, <1>5, <1>6 DEF Next

\* The inductive invariant holds in every reachable state.
THEOREM Invariance == Spec => []IInv
BY InitInv, NextInv, PTL DEF Spec

\* Every variable keeps its type.
THEOREM TypeCorrect == Spec => []TypeOK
<1>1. IInv => TypeOK
  BY DEF IInv
<1> QED BY <1>1, Invariance, PTL

\* For any number of groups, requests, jobs and crashes no second sync is at
\* work behind a READY group: the id of the job keeps its group's jobs apart,
\* and the handlers' late commits never write READY.
THEOREM ReadySettled == Spec => []ReadyIsSettled
<1>1. IInv => ReadyIsSettled
  BY DEF IInv
<1> QED BY <1>1, Invariance, PTL

\* For any library, whatever is deleted or discovered between the read of the
\* embeddings and the save, clusters hold embedded members only.
THEOREM ClustersAreSound == Spec => []ClustersHoldMembers
<1>1. IInv => ClustersHoldMembers
  BY DEF IInv
<1> QED BY <1>1, Invariance, PTL

\* Every change of the number of clusters is the deletion of the group or
\* comes with READY and that number.
LEMMA PublishStep ==
    ASSUME IInv, [Next]_vars, NEW g \in Groups, rows'[g] # rows[g]
    PROVE  \/ group'[g] = NONE
           \/ group'[g].status = "ready" /\ group'[g].clusters = rows'[g]
<1>1. \/ \E x \in Groups : DeleteProject(x)
      \/ \E j \in Jobs : SaveClusters(j)
  BY DEF Next, vars, CreateStep, CreateProject, CreateEnqueue, CreateCommit, CreateAborts,
         Discover, SyncStep, SyncLoad, SyncEnqueue, SyncCommit, DeletePaper, JobStep,
         StartJob, MarkImporting, GroupNotFound, NothingTracked, Import, AddPapers,
         EmbedPapers, MarkClustering, ReadEmbedded, CountPapers, SkipClustering, JobFault,
         JobFails, JobTimesOut, Crash, ExpireResult
<1>2. ASSUME NEW x \in Groups, DeleteProject(x) PROVE group'[g] = NONE
  BY <1>2 DEF DeleteProject, IInv, TypeOK
<1>3. ASSUME NEW j \in Jobs, SaveClusters(j)
      PROVE  group'[g].status = "ready" /\ group'[g].clusters = rows'[g]
  BY <1>3 DEF SaveClusters, IInv, TypeOK
<1> QED BY <1>1, <1>2, <1>3

\* Clusters are published with READY and their count, or not at all.
THEOREM ClustersPublishedTogether == Spec => PublishedTogether
<1>1. IInv /\ [Next]_vars =>
        [\A g \in Groups : rows'[g] # rows[g] =>
            \/ group'[g] = NONE
            \/ group'[g].status = "ready" /\ group'[g].clusters = rows'[g]]_vars
  BY PublishStep
<1> QED BY <1>1, Invariance, PTL DEF Spec, PublishedTogether

------------------------------------------------------------------------------
(* The page: GroupSync implements GroupPage.                               *)

Later == InJob \ {"started", "marked"}

\* What a job knows of the page: it has read every paper that is in a cluster of its
\* group, and has counted those, and those it will put into clusters.
JobPage(j) ==
    /\ pc[j] \in Later => target[j] \in Tracked
    /\ pc[j] \in {"counting", "saving"} => DOMAIN clusterOf[target[j]] \subseteq read[j]
    /\ pc[j] = "saving" =>
         \E C \in SUBSET Papers :
            /\ total[j] = Cardinality(C)
            /\ DOMAIN clusterOf[target[j]] \subseteq C
            /\ group[target[j]] # NONE /\ read[j] \subseteq papers => read[j] \subseteq C

Untracked == \A g \in Groups \ Tracked : DOMAIN clusterOf[g] = {}

PageInv == Untracked /\ \A j \in Jobs : JobPage(j)

\* A paper that is gone stays away, and so does a deleted group.
Forward ==
    /\ papers' \cap stored \subseteq papers
    /\ \A g \in Groups : group'[g] # NONE => group[g] # NONE \/ create[g] # "done"

Still(j) ==
    /\ pc'[j] = pc[j] /\ target'[j] = target[j] /\ read'[j] = read[j] /\ total'[j] = total[j]
    /\ pc[j] \in Later => DOMAIN clusterOf'[target[j]] \subseteq DOMAIN clusterOf[target[j]]

\* A job that does not move keeps what it knows.
LEMMA StillKnows ==
    ASSUME IInv, Forward, NEW j \in Jobs, JobPage(j), Still(j)
    PROVE  JobPage(j)'
<1>1. CASE pc[j] \notin Later
  BY <1>1 DEF JobPage, Still, Later, InJob
<1>2. CASE pc[j] \in Later
  <2>1. target[j] \in Groups /\ read[j] \subseteq stored
    BY <1>2, Alone DEF Later, IInv, ReadMembers, TypeOK
  <2>2. ASSUME group'[target[j]] # NONE, read[j] \subseteq papers'
        PROVE  read[j] = {} \/ (group[target[j]] # NONE /\ read[j] \subseteq papers)
    BY <2>1, <2>2 DEF Forward, IInv, ReadMembers
  <2>3. ASSUME pc[j] = "saving"
        PROVE  \E C \in SUBSET Papers :
                  /\ total'[j] = Cardinality(C)
                  /\ DOMAIN clusterOf'[target'[j]] \subseteq C
                  /\ group'[target'[j]] # NONE /\ read'[j] \subseteq papers' => read'[j] \subseteq C
    <3>1. PICK C \in SUBSET Papers :
            /\ total[j] = Cardinality(C)
            /\ DOMAIN clusterOf[target[j]] \subseteq C
            /\ group[target[j]] # NONE /\ read[j] \subseteq papers => read[j] \subseteq C
      BY <2>3 DEF JobPage
    <3> WITNESS C \in SUBSET Papers
    <3> QED BY <1>2, <2>2, <3>1 DEF Still
  <2> QED BY <1>2, <2>3 DEF JobPage, Still
<1> QED BY <1>1, <1>2

LEMMA PageInvStep ==
    ASSUME IInv, PageInv, Forward,
           \A g \in Groups \ Tracked : DOMAIN clusterOf'[g] \subseteq DOMAIN clusterOf[g],
           \A j \in Jobs : Still(j) \/ pc'[j] \notin Later \/ JobPage(j)'
    PROVE  PageInv'
<1>1. Untracked'
  BY DEF PageInv, Untracked
<1>2. ASSUME NEW j \in Jobs PROVE JobPage(j)'
  BY StillKnows DEF PageInv, JobPage, Later, InJob
<1> QED BY <1>1, <1>2 DEF PageInv

\* The two modules count alike.
LEMMA SameCardinality == \A S : Page!Cardinality(S) = Cardinality(S)
BY DEF Page!Cardinality, Cardinality

\* A status other than READY, or nothing if there is no such group.
LEMMA ShowStep ==
    ASSUME NEW g \in Groups, NEW status \in {"importing", "clustering", "failed"},
           SetStatus(g, status), UNCHANGED <<members, rows, clusterOf, embedded>>
    PROVE  Page!Show(g) \/ UNCHANGED Page!vars
BY DEF SetStatus, Page!Show, Page!Exists, Page!vars

\* What the handlers do: a new group, or one shown as importing.
LEMMA HandlerPage ==
    ASSUME IInv, PageInv,
           \/ \E g \in Groups : CreateStep(g)
           \/ \E q \in Requests : SyncStep(q)
    PROVE  PageInv' /\ (Page!Next \/ UNCHANGED Page!vars)
<1>1. ASSUME UNCHANGED <<members, rows, clusterOf, library, crashes, pc, batch>>,
             \A j \in Jobs : job[j] # "none" => target'[j] = target[j],
             \A g \in Groups : group'[g] # NONE => group[g] # NONE \/ create[g] # "done"
      PROVE  PageInv'
  <2>1. \A j \in Jobs : Still(j) \/ pc'[j] \notin Later
    BY <1>1 DEF IInv, Working, Later, Still
  <2> QED BY <1>1, <2>1, PageInvStep DEF Forward
<1>2. ASSUME NEW g \in Groups, EnqueueRaises(g)
      PROVE  \A j \in Jobs : job[j] # "none" => target'[j] = target[j]
  BY <1>2 DEF EnqueueRaises, Enqueue, IInv, TypeOK
<1>3. ASSUME NEW g \in Groups, CreateStep(g)
      PROVE  PageInv' /\ (Page!Next \/ UNCHANGED Page!vars)
  <2>1. CASE CreateProject(g) \/ CreateAborts(g)
    BY <2>1, <1>1 DEF CreateProject, CreateAborts, Page!vars
  <2>2. CASE CreateEnqueue(g)
    BY <2>2, <1>1, <1>2 DEF CreateEnqueue, EnqueueRaises, Page!vars
  <2>3. CASE CreateCommit(g)
    <3>1. create[g] # "done" /\ group[g] = NONE
      BY <2>3 DEF CreateCommit, IInv, NotYetCreated
    <3>2. \A x \in Groups : group'[x] # NONE => group[x] # NONE \/ create[x] # "done"
      BY <2>3, <3>1 DEF CreateCommit, IInv, TypeOK
    <3>3. PICK status \in {"idle", "importing"} : group' = [group EXCEPT ![g] = NewRow(status)]
      BY <2>3 DEF CreateCommit
    <3>4. Page!Create(g)
      BY <2>3, <3>1, <3>3 DEF CreateCommit, NewRow, Page!Create, Page!Exists
    <3> QED BY <2>3, <3>2, <3>4, <1>1 DEF CreateCommit, Page!Next
  <2> QED BY <1>3, <2>1, <2>2, <2>3 DEF CreateStep
<1>4. ASSUME NEW q \in Requests, SyncStep(q)
      PROVE  PageInv' /\ (Page!Next \/ UNCHANGED Page!vars)
  <2>1. CASE \E g \in Groups : SyncLoad(q, g)
    BY <2>1, <1>1 DEF SyncLoad, Page!vars
  <2>2. CASE SyncEnqueue(q)
    <3>1. asked[q] \in Groups
      BY <2>2 DEF SyncEnqueue, IInv, RequestsAsk
    <3> QED BY <2>2, <3>1, <1>1, <1>2 DEF SyncEnqueue, EnqueueRaises, Page!vars
  <2>3. CASE SyncCommit(q)
    <3>1. asked[q] \in Groups
      BY <2>3 DEF SyncCommit, IInv, RequestsAsk
    <3>2. CASE UNCHANGED group
      BY <2>3, <3>2, <1>1 DEF SyncCommit, Page!vars
    <3>3. CASE SetStatus(asked[q], "importing")
      <4>1. \A x \in Groups : group'[x] = NONE <=> group[x] = NONE
        BY <3>1, <3>3, SetStatusStep DEF IInv, Status
      <4>2. Page!Show(asked[q]) \/ UNCHANGED Page!vars
        BY <2>3, <3>1, <3>3, ShowStep DEF SyncCommit
      <4>3. PageInv'
        BY <2>3, <4>1, <1>1 DEF SyncCommit
      <4> QED BY <3>1, <4>2, <4>3 DEF Page!Next
    <3> QED BY <2>3, <3>2, <3>3 DEF SyncCommit
  <2> QED BY <1>4, <2>1, <2>2, <2>3 DEF SyncStep
<1> QED BY <1>3, <1>4

\* What users and discovery do to the library and the groups.
LEMMA LibraryPage ==
    ASSUME IInv, PageInv,
           \/ \E g \in Groups : DeleteProject(g) \/ Discover(g)
           \/ \E p \in Papers : DeletePaper(p)
    PROVE  PageInv' /\ Page!Next
<1>1. ASSUME UNCHANGED <<queue, pc, batch>>, Forward,
             \A g \in Groups : DOMAIN clusterOf'[g] \subseteq DOMAIN clusterOf[g]
      PROVE  PageInv'
  <2>1. \A j \in Jobs : Still(j) \/ pc'[j] \notin Later
    BY <1>1, Alone DEF Later, Still
  <2> QED BY <1>1, <2>1, PageInvStep
<1>2. ASSUME NEW g \in Groups, DeleteProject(g) PROVE PageInv' /\ Page!Next
  <2>1. \A x \in Groups : DOMAIN clusterOf'[x] \subseteq DOMAIN clusterOf[x]
    BY <1>2 DEF DeleteProject, Empty, IInv, TypeOK
  <2>2. Forward
    BY <1>2 DEF DeleteProject, Forward, IInv, TypeOK
  <2>3. Page!Delete(g)
    BY <1>2 DEF DeleteProject, Empty, Page!Delete, Page!Exists, Page!Nothing
  <2> QED BY <1>1, <1>2, <2>1, <2>2, <2>3 DEF DeleteProject, Page!Next
<1>3. ASSUME NEW g \in Groups, Discover(g) PROVE PageInv' /\ Page!Next
  <2>1. PICK found \in SUBSET (Discoverable \ (stored \ papers)) :
          /\ papers' = papers \cup found
          /\ members' = [members EXCEPT ![g] = @ \cup found]
    BY <1>3 DEF Discover
  <2>2. Forward
    BY <1>3, <2>1 DEF Discover, Forward
  <2>3. found \in SUBSET Papers
    BY PapersAssumption
  <2>4. Page!Add(g)
    BY <1>3, <2>1, <2>3 DEF Discover, Page!Add, Page!Exists
  <2>5. UNCHANGED clusterOf /\ UNCHANGED <<queue, pc, batch>>
    BY <1>3 DEF Discover
  <2>6. Page!Next
    BY <2>4 DEF Page!Next
  <2> QED BY <1>1, <2>2, <2>5, <2>6
<1>4. ASSUME NEW p \in Papers, DeletePaper(p) PROVE PageInv' /\ Page!Next
  <2>1. \A x \in Groups : DOMAIN clusterOf'[x] \subseteq DOMAIN clusterOf[x]
    BY <1>4 DEF DeletePaper
  <2>2. Forward
    BY <1>4 DEF DeletePaper, Forward
  <2>3. Page!Remove(p)
    BY <1>4 DEF DeletePaper, Page!Remove
  <2> QED BY <1>1, <1>4, <2>1, <2>2, <2>3 DEF DeletePaper, Page!Next
<1> QED BY <1>2, <1>3, <1>4

\* When one job moves, the others keep what they know.
LEMMA JobPageStep ==
    ASSUME IInv, PageInv, NEW j \in Jobs, UNCHANGED target, Forward,
           \A k \in Jobs \ {j} :
               pc'[k] = pc[k] /\ read'[k] = read[k] /\ total'[k] = total[k],
           \A g \in Groups : g # target[j] => clusterOf'[g] = clusterOf[g],
           \/ DOMAIN clusterOf'[target[j]] \subseteq DOMAIN clusterOf[target[j]]
           \/ pc[j] \in InJob /\ target[j] \in Tracked,
           pc'[j] \notin Later \/ JobPage(j)'
    PROVE  PageInv'
<1>1. ASSUME NEW k \in Jobs PROVE Still(k) \/ pc'[k] \notin Later \/ JobPage(k)'
  <2>1. CASE k = j \/ pc[k] \notin Later
    BY <2>1 DEF Later
  <2>2. CASE k # j /\ pc[k] \in Later
    <3>1. target[k] \in Groups /\ (target[k] = target[j] => pc[j] \notin InJob)
      BY <2>2, Alone DEF Later, InJob
    <3> QED BY <2>2, <3>1 DEF Still
  <2> QED BY <2>1, <2>2
<1>2. \A g \in Groups \ Tracked : DOMAIN clusterOf'[g] \subseteq DOMAIN clusterOf[g]
  OBVIOUS
<1> QED BY <1>1, <1>2, PageInvStep

\* The steps of a job that nobody sees.
LEMMA QuietPage ==
    ASSUME IInv, IInv', PageInv, NEW j \in Jobs,
           \/ StartJob(j) \/ GroupNotFound(j) \/ Import(j) \/ ReadEmbedded(j) \/ CountPapers(j)
           \/ JobTimesOut(j) \/ Crash(j) \/ ExpireResult(j)
    PROVE  PageInv' /\ UNCHANGED Page!vars
<1>1. UNCHANGED <<content, library, create, target>>
  BY DEF StartJob, GroupNotFound, Import, ReadEmbedded, CountPapers, JobTimesOut, Crash,
         ExpireResult
<1>2. UNCHANGED Page!vars /\ Forward
  BY <1>1 DEF Page!vars, Forward
<1>3. \A k \in Jobs \ {j} : pc'[k] = pc[k] /\ read'[k] = read[k] /\ total'[k] = total[k]
  BY DEF StartJob, GroupNotFound, Import, ReadEmbedded, CountPapers, JobTimesOut, Crash,
         ExpireResult, End, Close, Goto, IInv, TypeOK
<1>4. CASE ExpireResult(j)
  <2>1. \A k \in Jobs : Still(k)
    BY <1>1, <1>4 DEF ExpireResult, Still
  <2> QED BY <1>1, <1>2, <2>1, PageInvStep
<1>5. CASE StartJob(j) \/ GroupNotFound(j) \/ JobTimesOut(j) \/ Crash(j)
  <2>1. pc'[j] \notin Later
    BY <1>5 DEF StartJob, GroupNotFound, JobTimesOut, Crash, End, Close, Goto, IInv, TypeOK,
                Later, InJob
  <2> QED BY <1>1, <1>2, <1>3, <2>1, JobPageStep
<1>6. CASE Import(j)
  <2>1. pc'[j] = "imported" /\ target'[j] \in Tracked
    BY <1>1, <1>6 DEF Import, Goto, IInv, TypeOK
  <2>2. JobPage(j)'
    BY <2>1 DEF JobPage
  <2> QED BY <1>1, <1>2, <1>3, <2>2, JobPageStep
<1>7. CASE ReadEmbedded(j)
  <2>1. /\ pc[j] = "reading" /\ pc'[j] = "counting" /\ target[j] \in Groups
        /\ read'[j] = members[target[j]] \cap embedded
    BY <1>7, Alone DEF ReadEmbedded, Goto, IInv, TypeOK, InJob
  <2>2. target[j] \in Tracked
    BY <2>1 DEF PageInv, JobPage, Later, InJob
  <2>3. DOMAIN clusterOf[target[j]] \subseteq read'[j]
    BY <2>1 DEF IInv, ClustersHoldMembers
  <2>4. JobPage(j)'
    BY <1>1, <2>1, <2>2, <2>3 DEF JobPage
  <2> QED BY <1>1, <1>2, <1>3, <2>4, JobPageStep
<1>8. CASE CountPapers(j)
  <2> DEFINE C == members[target[j]]
  <2>1. /\ pc[j] = "counting" /\ pc'[j] = "saving" /\ target[j] \in Groups
        /\ total'[j] = Cardinality(C) /\ C \in SUBSET Papers /\ UNCHANGED read
    BY <1>8, Alone DEF CountPapers, Goto, IInv, TypeOK, InJob
  <2>2. target[j] \in Tracked /\ DOMAIN clusterOf[target[j]] \subseteq read[j]
    BY <2>1 DEF PageInv, JobPage, Later, InJob
  <2>3. DOMAIN clusterOf[target[j]] \subseteq C
    BY <2>1 DEF IInv, ClustersHoldMembers
  <2>4. group[target[j]] # NONE /\ read[j] \subseteq papers => read[j] \subseteq C
    BY <2>1 DEF IInv, ReadMembers
  <2> HIDE DEF C
  <2>5. JobPage(j)'
    BY <1>1, <2>1, <2>2, <2>3, <2>4 DEF JobPage
  <2> QED BY <1>1, <1>2, <1>3, <2>5, JobPageStep
<1> QED BY <1>2, <1>4, <1>5, <1>6, <1>7, <1>8

\* The job shows that it is under way, or that it has failed.
LEMMA MarkPage ==
    ASSUME IInv, PageInv, NEW j \in Jobs,
           MarkImporting(j) \/ MarkClustering(j) \/ JobFails(j)
    PROVE  PageInv' /\ (Page!Next \/ UNCHANGED Page!vars)
<1>1. target[j] \in Groups
  BY Alone DEF MarkImporting, MarkClustering, JobFails, InJob
<1>2. /\ UNCHANGED <<members, rows, clusterOf, library, create, target>>
      /\ \A k \in Jobs \ {j} : pc'[k] = pc[k] /\ read'[k] = read[k] /\ total'[k] = total[k]
  BY DEF MarkImporting, MarkClustering, JobFails, End, Close, Goto, IInv, TypeOK
<1>3. \/ UNCHANGED group
      \/ \E st \in {"importing", "clustering", "failed"} : SetStatus(target[j], st)
  BY DEF MarkImporting, MarkClustering, JobFails
<1>4. Page!Next \/ UNCHANGED Page!vars
  BY <1>1, <1>2, <1>3, ShowStep DEF Page!Next, Page!vars
<1>5. Forward
  BY <1>1, <1>2, <1>3, SetStatusStep DEF Forward, IInv, Status
<1>6. pc'[j] \notin Later \/ JobPage(j)'
  <2>1. CASE MarkClustering(j)
    <3>1. pc[j] \in Later /\ pc'[j] = "reading" /\ target'[j] = target[j]
      BY <2>1 DEF MarkClustering, Goto, IInv, TypeOK, Later, InJob
    <3> QED BY <3>1 DEF PageInv, JobPage
  <2>2. CASE MarkImporting(j) \/ JobFails(j)
    BY <2>2 DEF MarkImporting, JobFails, End, Close, Goto, IInv, TypeOK, Later, InJob
  <2> QED BY <2>1, <2>2
<1>7. PageInv'
  BY <1>2, <1>5, <1>6, JobPageStep
<1> QED BY <1>4, <1>7

\* The import and the embeddings of its papers.
LEMMA GrowPage ==
    ASSUME IInv, PageInv, NEW j \in Jobs, AddPapers(j) \/ EmbedPapers(j)
    PROVE  PageInv' /\ (Page!Next \/ UNCHANGED Page!vars)
<1>1. target[j] \in Groups /\ pc[j] \in Later
  BY Alone DEF AddPapers, EmbedPapers, InJob, Later
<1>2. /\ UNCHANGED <<group, rows, clusterOf, create, target>>
      /\ \A k \in Jobs \ {j} : pc'[k] = pc[k] /\ read'[k] = read[k] /\ total'[k] = total[k]
      /\ pc'[j] \in {"embedding", "clustering"}
  BY DEF AddPapers, EmbedPapers, Goto, IInv, TypeOK
<1>3. Forward
  BY <1>2 DEF AddPapers, EmbedPapers, Forward, IInv, FreshRecords
<1>4. JobPage(j)'
  BY <1>1, <1>2 DEF PageInv, JobPage
<1>5. PageInv'
  BY <1>2, <1>3, <1>4, JobPageStep
<1>6. CASE AddPapers(j)
  <2>1. fresh[j] \in SUBSET Papers
    BY DEF IInv, TypeOK
  <2>2. CASE group[target[j]] # NONE
    <3>1. Page!Add(target[j])
      BY <1>6, <2>1, <2>2 DEF AddPapers, Page!Add, Page!Exists
    <3> QED BY <1>1, <1>5, <3>1 DEF Page!Next
  <2>3. CASE group[target[j]] = NONE
    <3>1. UNCHANGED members
      BY <1>1, <1>6, <2>3 DEF AddPapers, IInv, TypeOK
    <3> QED BY <1>2, <1>5, <1>6, <3>1 DEF AddPapers, Page!vars
  <2> QED BY <2>2, <2>3
<1>7. CASE EmbedPapers(j)
  <2>1. Page!Embed(target[j])
    BY <1>2, <1>7 DEF EmbedPapers, Page!Embed
  <2> QED BY <1>1, <1>5, <2>1 DEF Page!Next
<1> QED BY <1>6, <1>7

\* A sync without clusters: nothing is tracked, or at most one paper is embedded.
LEMMA SettlePage ==
    ASSUME IInv, PageInv, NEW j \in Jobs, NothingTracked(j) \/ SkipClustering(j)
    PROVE  PageInv' /\ (Page!Next \/ UNCHANGED Page!vars)
<1> DEFINE g == target[j]
           D == DOMAIN clusterOf[g]
<1>1. g \in Groups /\ pc[j] \in InJob
  BY Alone DEF NothingTracked, SkipClustering, InJob
<1>2. /\ UNCHANGED <<members, rows, clusterOf, library, create, target>>
      /\ \A k \in Jobs \ {j} : pc'[k] = pc[k] /\ read'[k] = read[k] /\ total'[k] = total[k]
      /\ pc'[j] \notin Later
  BY DEF NothingTracked, SkipClustering, End, Close, Goto, IInv, TypeOK, Later, InJob
<1>3. \A x \in Groups : group'[x] # NONE => group[x] # NONE
  BY <1>1 DEF NothingTracked, SkipClustering, IInv, TypeOK
<1>4. PageInv'
  BY <1>2, <1>3, JobPageStep DEF Forward
<1>5. CASE NothingTracked(j)
  <2>1. D = {}
    BY <1>1, <1>5 DEF NothingTracked, PageInv, Untracked
  <2>2. Cardinality(D) = 0 /\ Cardinality(Papers) \in Nat
    BY <2>1, FS_EmptySet, FS_CardinalityType, PapersAssumption
  <2>3. 0 \in Cardinality(D)..Cardinality(Papers)
    BY <2>2
  <2>4. group[g] # NONE /\ group' = [group EXCEPT ![g] = Page!Ready(0, 0)]
    BY <1>5 DEF NothingTracked, NewRow, Page!Ready
  <2>5. /\ Page!Cardinality(D) <= 1
        /\ 0 \in Page!Cardinality(D)..Page!Cardinality(Papers)
    BY <2>2, <2>3, SameCardinality
  <2>6. Page!Settle(g)
    BY <1>2, <2>4, <2>5 DEF Page!Settle, Page!Exists
  <2> QED BY <1>1, <1>4, <2>6 DEF Page!Next
<1>6. CASE SkipClustering(j)
  <2>1. pc[j] = "saving" /\ Cardinality(read[j]) < 2 /\ read[j] \in SUBSET Papers
    BY <1>6 DEF SkipClustering, IInv, TypeOK
  <2>2. PICK C \in SUBSET Papers : total[j] = Cardinality(C) /\ D \subseteq C
    BY <2>1 DEF PageInv, JobPage
  <2>3. D \subseteq read[j]
    BY <2>1 DEF PageInv, JobPage
  <2>4. /\ Cardinality(D) <= Cardinality(read[j]) /\ Cardinality(D) <= total[j]
        /\ total[j] <= Cardinality(Papers)
        /\ Cardinality(D) \in Nat /\ Cardinality(read[j]) \in Nat /\ total[j] \in Nat
        /\ Cardinality(Papers) \in Nat
    BY <2>1, <2>2, <2>3, MembersCount, FS_Subset, FS_CardinalityType, PapersAssumption
  <2>5. Cardinality(D) <= 1 /\ total[j] \in Cardinality(D)..Cardinality(Papers)
    BY <2>1, <2>4
  <2>6. CASE group[g] = NONE
    BY <1>2, <1>4, <1>6, <2>6 DEF SkipClustering, Page!vars
  <2>7. CASE group[g] # NONE
    <3>1. group' = [group EXCEPT ![g] = Page!Ready(total[j], 0)]
      BY <1>6, <2>7 DEF SkipClustering, Page!Ready
    <3>2. Page!Settle(g)
      BY <1>2, <2>5, <2>7, <3>1, SameCardinality DEF Page!Settle, Page!Exists
    <3> QED BY <1>1, <1>4, <3>2 DEF Page!Next
  <2> QED BY <2>6, <2>7
<1> QED BY <1>5, <1>6

\* The clusters are published: they are onto their numbers, of papers that are members
\* with an embedding, and no more of them than were counted.
LEMMA PublishPage ==
    ASSUME IInv, PageInv, NEW j \in Jobs, SaveClusters(j)
    PROVE  PageInv' /\ Page!Next
<1> DEFINE g == target[j]
           S == read[j]
<1>1. /\ g \in Groups /\ pc[j] = "saving" /\ pc[j] \in InJob /\ group[g] # NONE
      /\ S \in SUBSET Papers /\ S \subseteq papers /\ Cardinality(S) >= 2
  BY Alone DEF SaveClusters, InJob, IInv, TypeOK
<1>2. PICK f \in Clusterings(S) :
        /\ {f[p] : p \in S} = 1..Rows(f)
        /\ rows' = [rows EXCEPT ![g] = Rows(f)]
        /\ clusterOf' = [clusterOf EXCEPT ![g] = f]
        /\ group' = [group EXCEPT ![g] =
                       [status |-> "ready", papers |-> total[j], clusters |-> Rows(f)]]
  BY DEF SaveClusters
<1>3. /\ UNCHANGED <<members, library, create, target>>
      /\ \A k \in Jobs \ {j} : pc'[k] = pc[k] /\ read'[k] = read[k] /\ total'[k] = total[k]
      /\ pc'[j] \notin Later
  BY DEF SaveClusters, End, Close, Goto, IInv, TypeOK, Later, InJob
<1>4. PageInv'
  <2>1. Forward
    BY <1>1, <1>2, <1>3 DEF Forward, IInv, TypeOK
  <2>2. \A x \in Groups : x # g => clusterOf'[x] = clusterOf[x]
    BY <1>2 DEF IInv, TypeOK
  <2>3. target[j] \in Tracked
    BY <1>1 DEF PageInv, JobPage, Later
  <2> QED BY <1>1, <1>3, <2>1, <2>2, <2>3, JobPageStep
<1>5. S \in SUBSET (members[g] \cap embedded)
  BY <1>1 DEF IInv, ReadMembers
<1>6. total[j] \in Cardinality(S)..Cardinality(Papers)
  <2>1. PICK C \in SUBSET Papers : total[j] = Cardinality(C) /\ S \subseteq C
    BY <1>1 DEF PageInv, JobPage
  <2>2. /\ Cardinality(S) <= Cardinality(C) /\ Cardinality(C) <= Cardinality(Papers)
        /\ Cardinality(S) \in Nat /\ Cardinality(C) \in Nat /\ Cardinality(Papers) \in Nat
    BY <1>1, <2>1, MembersCount, FS_Subset, FS_CardinalityType, PapersAssumption
  <2> QED BY <2>1, <2>2
<1>7. DOMAIN f = S /\ f \in [S -> 1..Rows(f)]
  <2>1. DOMAIN f = S /\ f = [p \in S |-> f[p]]
    BY <1>1 DEF Clusterings
  <2> QED BY <1>2, <2>1
<1>8. Rows(f) \in 1..Cardinality(S)
  <2>1. IsFiniteSet(S) /\ Cardinality(S) \in Nat
    BY <1>1, MembersCount
  <2>2. f \in Surjection(S, 1..Rows(f))
    BY <1>2, <1>7 DEF Surjection
  <2>3. Rows(f) \in Nat
    BY <1>1, RowsCount
  <2>4. Cardinality(1..Rows(f)) <= Cardinality(S)
    BY <2>1, <2>2, FS_Surjection
  <2>5. Cardinality(1..Rows(f)) = Rows(f)
    BY <2>3, FS_Interval
  <2>6. PICK p \in S : TRUE
    BY <1>1, <2>1, FS_EmptySet
  <2>7. 1 <= Rows(f)
    BY <1>7, <2>3, <2>6
  <2> QED BY <2>1, <2>3, <2>4, <2>5, <2>7
<1> HIDE DEF g, S
<1>9. Page!Publish(g)
  <2>1. group' = [group EXCEPT ![g] = Page!Ready(total[j], Rows(f))]
    BY <1>2 DEF Page!Ready
  <2> SUFFICES
        \E T \in SUBSET (members[g] \cap embedded) :
        \E k \in 1..Cardinality(T), n \in Cardinality(T)..Cardinality(Papers) :
        \E h \in [T -> 1..k] :
           /\ {h[p] : p \in T} = 1..k
           /\ clusterOf' = [clusterOf EXCEPT ![g] = h]
           /\ rows' = [rows EXCEPT ![g] = k]
           /\ group' = [group EXCEPT ![g] = Page!Ready(n, k)]
    BY <1>1, <1>3, SameCardinality DEF Page!Publish, Page!Exists
  <2> USE <1>5, <1>6, <1>7, <1>8
  <2> WITNESS S \in SUBSET (members[g] \cap embedded)
  <2> WITNESS Rows(f) \in 1..Cardinality(S), total[j] \in Cardinality(S)..Cardinality(Papers)
  <2> WITNESS f \in [S -> 1..Rows(f)]
  <2> QED BY <1>2, <2>1
<1> QED BY <1>1, <1>4, <1>9 DEF Page!Next, g

LEMMA PageInit == Init => PageInv /\ Page!Init
<1> SUFFICES ASSUME Init PROVE PageInv /\ Page!Init
  OBVIOUS
<1>1. Untracked
  BY DEF Init, Empty, Untracked
<1>2. ASSUME NEW j \in Jobs PROVE JobPage(j)
  BY DEF Init, JobPage, Later, InJob
<1>3. Page!Init
  BY DEF Init, Empty, Page!Init, Page!Nothing
<1> QED BY <1>1, <1>2, <1>3 DEF PageInv

LEMMA PageStep ==
    ASSUME IInv, IInv', PageInv, [Next]_vars
    PROVE  PageInv' /\ [Page!Next]_(Page!vars)
<1>1. CASE UNCHANGED vars
  <2>1. UNCHANGED <<content, library, create, queue, pc, batch>>
    BY <1>1 DEF vars
  <2>2. \A j \in Jobs : Still(j)
    BY <2>1 DEF Still
  <2> QED BY <2>1, <2>2, PageInvStep DEF Forward, Page!vars
<1>2. ASSUME NEW g \in Groups, CreateStep(g) \/ DeleteProject(g) \/ Discover(g)
      PROVE  PageInv' /\ [Page!Next]_(Page!vars)
  BY <1>2, HandlerPage, LibraryPage
<1>3. ASSUME NEW q \in Requests, SyncStep(q) PROVE PageInv' /\ [Page!Next]_(Page!vars)
  BY <1>3, HandlerPage
<1>4. ASSUME NEW j \in Jobs, JobStep(j) \/ JobFault(j)
      PROVE  PageInv' /\ [Page!Next]_(Page!vars)
  BY <1>4, QuietPage, MarkPage, GrowPage, SettlePage, PublishPage DEF JobStep, JobFault
<1>5. ASSUME NEW p \in Papers, DeletePaper(p) PROVE PageInv' /\ [Page!Next]_(Page!vars)
  BY <1>5, LibraryPage
<1> QED BY <1>1, <1>2, <1>3, <1>4, <1>5 DEF Next

\* GroupSync implements GroupPage (modules/projects/router.py, service.py, and
\* jobs/research_groups.py): for any groups, requests, jobs, papers, deletions and crashes,
\* what a user sees of a group changes only by the steps the page is meant to show.
THEOREM PagesAreTrue == Spec => PageIsTrue
<1>1. IInv /\ IInv' /\ PageInv /\ [Next]_vars => PageInv' /\ [Page!Next]_(Page!vars)
  BY PageStep
<1> QED BY PageInit, <1>1, Invariance, PTL DEF Spec, PageIsTrue, Page!Spec

==============================================================================
