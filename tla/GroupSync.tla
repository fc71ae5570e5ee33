------------------------------ MODULE GroupSync ------------------------------
(***************************************************************************)
(* Research groups: the API handlers that create, re-sync and delete a     *)
(* group (modules/projects/router.py), the arq job that imports and        *)
(* clusters its papers (jobs/research_groups.py) and the service both use  *)
(* (modules/projects/service.py).                                          *)
(*                                                                         *)
(* A handler is one transaction, committed after it returns (get_db); the  *)
(* job commits several times.  A handler enqueues the job BEFORE its own   *)
(* transaction commits, so the job may run against the row the handler     *)
(* has not written yet.  The variables from group to embedded are the      *)
(* committed tables.  What the ingestion pipeline does inside the job is   *)
(* the subject of module Ingestion; here it answers with the papers of the *)
(* records whose content nobody has stored: new papers, and where a record *)
(* has changed or another source was first, papers that exist.  A          *)
(* discovery profile (modules/discovery) imports into a group on its own.  *)
(***************************************************************************)
EXTENDS Integers, FiniteSets

CONSTANTS
    Groups,         \* research groups of one organization
    Tracked,        \* groups with an OpenAlex institution or author
    Requests,       \* POST /projects/{id}/sync requests
    Jobs,           \* arq jobs, one per successful enqueue
    Papers,         \* papers (a deleted one that is imported again is another one)
    Published,      \* what OpenAlex lists for a group
    Deletable,      \* papers a user or a retention policy may delete
    Discoverable,   \* papers a discovery profile may find
    MaxCrashes,     \* bound: worker crashes in a behaviour
    NONE            \* no such group, no target

Status  == {"idle", "importing", "clustering", "ready", "failed"}
InJob   == {"started", "marked", "imported", "embedding", "clustering",
            "reading", "counting", "saving"}
Row     == [status : Status, papers : Nat, clusters : Nat]

ASSUME GroupsAssumption == Tracked \subseteq Groups /\ NONE \notin Groups
ASSUME PapersAssumption == IsFiniteSet(Papers) /\ Discoverable \subseteq Papers
ASSUME PublishedAssumption == Published \in [Groups -> SUBSET Papers]
ASSUME RowAssumption == NONE \notin Row
ASSUME CrashAssumption == MaxCrashes \in Nat

VARIABLES
    group,          \* projects: sync_status, paper_count, cluster_count
    members,        \* project_papers
    rows,           \* number of project_clusters rows
    clusterOf,      \* project_cluster_papers: the cluster of a paper
    stored,         \* papers that were ever created
    papers,         \* papers that exist
    embedded,       \* papers with an embedding
    create,         \* the handler that creates the group
    request,        \* where a sync request stands
    asked,          \* the group it is about
    loaded,         \* the sync_status it read
    job,            \* the job in arq's queue; "kept": its result is stored
    target,         \* the group of the job
    crashes,        \* worker crashes so far
    pc,             \* where the session of the job stands
    fresh,          \* papers the pipeline created or matched
    read,           \* papers read for clustering
    total,          \* papers counted
    outcome         \* history: how the job ended

content == <<group, members, rows, clusterOf>>
library == <<stored, papers, embedded>>
api     == <<create, request, asked, loaded>>
queue   == <<job, target, crashes>>
batch   == <<fresh, read, total>>
vars    == <<content, library, api, queue, pc, batch, outcome>>

TypeOK ==
    /\ group \in [Groups -> {NONE} \cup Row]
    /\ members \in [Groups -> SUBSET Papers]
    /\ rows \in [Groups -> Nat]
    /\ \A g \in Groups : /\ DOMAIN clusterOf[g] \subseteq Papers
                         /\ \A p \in DOMAIN clusterOf[g] : clusterOf[g][p] \in 1..rows[g]
    /\ DOMAIN clusterOf = Groups
    /\ stored \subseteq Papers /\ papers \subseteq Papers /\ embedded \subseteq Papers
    /\ create \in [Groups -> {"idle", "flushed", "enqueued", "refused", "done"}]
    /\ request \in [Requests -> {"idle", "loaded", "enqueued", "done"}]
    /\ asked \in [Requests -> Groups \cup {NONE}]
    /\ loaded \in [Requests -> Status]
    /\ job \in [Jobs -> {"none", "queued", "running", "kept", "expired"}]
    /\ target \in [Jobs -> Groups \cup {NONE}]
    /\ crashes \in 0..MaxCrashes
    /\ pc \in [Jobs -> {"idle"} \cup InJob]
    /\ fresh \in [Jobs -> SUBSET Papers]
    /\ read \in [Jobs -> SUBSET Papers]
    /\ total \in [Jobs -> Nat]
    /\ outcome \in [Jobs -> {"none", "ok", "missing", "failed", "unmarked"}]

Empty == [p \in {} |-> 0]

Init ==
    /\ group = [g \in Groups |-> NONE]
    /\ members = [g \in Groups |-> {}]
    /\ rows = [g \in Groups |-> 0]
    /\ clusterOf = [g \in Groups |-> Empty]
    /\ stored = {} /\ papers = {} /\ embedded = {}
    /\ create = [g \in Groups |-> "idle"]
    /\ request = [q \in Requests |-> "idle"]
    /\ asked = [q \in Requests |-> NONE]
    /\ loaded = [q \in Requests |-> "idle"]
    /\ job = [j \in Jobs |-> "none"]
    /\ target = [j \in Jobs |-> NONE]
    /\ crashes = 0
    /\ pc = [j \in Jobs |-> "idle"]
    /\ fresh = [j \in Jobs |-> {}]
    /\ read = [j \in Jobs |-> {}]
    /\ total = [j \in Jobs |-> 0]
    /\ outcome = [j \in Jobs |-> "none"]

------------------------------------------------------------------------------
(* arq: enqueue_job refuses an id whose job or result is in Redis.         *)

Active(g) == {j \in Jobs : target[j] = g /\ job[j] \in {"queued", "running"}}

\* Mutant: the jobs of a group get ids of their own.
AcceptedUnkeyed(g) == TRUE

Accepted(g) == \A j \in Jobs : target[j] = g => job[j] \in {"none", "expired"}

Enqueue(g) ==
    \E j \in Jobs :
        /\ job[j] = "none" /\ Accepted(g)
        /\ job' = [job EXCEPT ![j] = "queued"]
        /\ target' = [target EXCEPT ![j] = g]

\* enqueue_job raises: the id is taken, or Redis fails before or after the
\* job is in the queue.
EnqueueRaises(g) == UNCHANGED <<job, target>> \/ Enqueue(g)

\* keep_result: an hour later the id is free again.
ExpireResult(j) ==
    /\ job[j] = "kept"
    /\ job' = [job EXCEPT ![j] = "expired"]
    /\ UNCHANGED <<content, library, api, target, crashes, pc, batch, outcome>>

------------------------------------------------------------------------------
(* The handlers of modules/projects/router.py.                             *)

NewRow(status) == [status |-> status, papers |-> 0, clusters |-> 0]

\* update_sync_status: nothing happens when the row is not there.
SetStatus(g, status) ==
    group' = IF group[g] = NONE THEN group ELSE [group EXCEPT ![g].status = status]

\* create_project flushes the row, uncommitted.
CreateProject(g) ==
    /\ create[g] = "idle"
    /\ create' = [create EXCEPT ![g] = IF g \in Tracked THEN "flushed" ELSE "refused"]
    /\ UNCHANGED <<content, library, request, asked, loaded, queue, pc, batch, outcome>>

CreateEnqueue(g) ==
    /\ create[g] = "flushed"
    /\ \/ Enqueue(g) /\ create' = [create EXCEPT ![g] = "enqueued"]
       \/ EnqueueRaises(g) /\ create' = [create EXCEPT ![g] = "refused"]
    /\ UNCHANGED <<content, library, request, asked, loaded, crashes, pc, batch, outcome>>

CreateCommit(g) ==
    /\ create[g] \in {"enqueued", "refused"}
    /\ create' = [create EXCEPT ![g] = "done"]
    /\ group' = [group EXCEPT ![g] =
                    NewRow(IF create[g] = "enqueued" THEN "importing" ELSE "idle")]
    /\ UNCHANGED <<members, rows, clusterOf, library, request, asked, loaded, queue, pc,
                   batch, outcome>>

\* get_db rolls back when the handler raises, or the API process dies.
CreateAborts(g) ==
    /\ create[g] \in {"flushed", "enqueued", "refused"}
    /\ create' = [create EXCEPT ![g] = "done"]
    /\ UNCHANGED <<content, library, request, asked, loaded, queue, pc, batch, outcome>>

SyncLoad(q, g) ==
    /\ request[q] = "idle" /\ group[g] # NONE
    /\ request' = [request EXCEPT ![q] = "loaded"]
    /\ asked' = [asked EXCEPT ![q] = g]
    /\ loaded' = [loaded EXCEPT ![q] = group[g].status]
    /\ UNCHANGED <<content, library, create, queue, pc, batch, outcome>>

SyncEnqueue(q) ==
    /\ request[q] = "loaded"
    /\ \/ Enqueue(asked[q]) /\ request' = [request EXCEPT ![q] = "enqueued"]
       \/ EnqueueRaises(asked[q]) /\ request' = [request EXCEPT ![q] = "done"]
    /\ UNCHANGED <<content, library, create, asked, loaded, crashes, pc, batch, outcome>>

\* The ORM writes sync_status only if it differs from the value it loaded; the
\* update of a deleted row raises and the handler rolls back.
SyncCommit(q) ==
    /\ request[q] = "enqueued"
    /\ request' = [request EXCEPT ![q] = "done"]
    /\ IF loaded[q] = "importing" THEN UNCHANGED group ELSE SetStatus(asked[q], "importing")
    /\ UNCHANGED <<members, rows, clusterOf, library, create, asked, loaded, queue, pc,
                   batch, outcome>>

DeleteProject(g) ==
    /\ group[g] # NONE
    /\ group' = [group EXCEPT ![g] = NONE]
    /\ members' = [members EXCEPT ![g] = {}]
    /\ rows' = [rows EXCEPT ![g] = 0]
    /\ clusterOf' = [clusterOf EXCEPT ![g] = Empty]
    /\ UNCHANGED <<library, api, queue, pc, batch, outcome>>

\* PaperService.delete_paper or a retention policy; memberships cascade, the
\* source record stays.  The new record of a paper that was matched locks it.
DeletePaper(p) ==
    /\ p \in papers \cap Deletable
    /\ \A j \in Jobs : pc[j] = "imported" => p \notin fresh[j]
    /\ papers' = papers \ {p}
    /\ embedded' = embedded \ {p}
    /\ members' = [g \in Groups |-> members[g] \ {p}]
    /\ clusterOf' = [g \in Groups |->
                        [x \in DOMAIN clusterOf[g] \ {p} |-> clusterOf[g][x]]]
    /\ UNCHANGED <<group, rows, stored, api, queue, pc, batch, outcome>>

\* DiscoveryService.run_discovery for a profile that targets the group: what
\* it imports is committed with its membership.
Discover(g) ==
    /\ group[g] # NONE
    /\ \E found \in SUBSET (Discoverable \ (stored \ papers)) :
         /\ found # {}
         /\ \A j \in Jobs : pc[j] = "imported" => fresh[j] \cap found \subseteq papers
         /\ stored' = stored \cup found
         /\ papers' = papers \cup found
         /\ members' = [members EXCEPT ![g] = @ \cup found]
    /\ UNCHANGED <<group, rows, clusterOf, embedded, api, queue, pc, batch, outcome>>

------------------------------------------------------------------------------
(* sync_research_group_task.                                               *)

Goto(j, step) == pc' = [pc EXCEPT ![j] = step]

\* The session and the locals of the task are gone.
Close(j) ==
    /\ Goto(j, "idle")
    /\ fresh' = [fresh EXCEPT ![j] = {}]
    /\ read' = [read EXCEPT ![j] = {}]
    /\ total' = [total EXCEPT ![j] = 0]

\* The task returns; arq keeps its result under the id of the job.
End(j, how) ==
    /\ Close(j)
    /\ job' = [job EXCEPT ![j] = "kept"]
    /\ outcome' = [outcome EXCEPT ![j] = how]

StartJob(j) ==
    /\ job[j] = "queued"
    /\ job' = [job EXCEPT ![j] = "running"]
    /\ Goto(j, "started")
    /\ UNCHANGED <<content, library, api, target, crashes, batch, outcome>>

MarkImporting(j) ==
    /\ pc[j] = "started"
    /\ SetStatus(target[j], "importing")
    /\ Goto(j, "marked")
    /\ UNCHANGED <<members, rows, clusterOf, library, api, queue, batch, outcome>>

GroupNotFound(j) ==
    /\ pc[j] = "marked" /\ group[target[j]] = NONE
    /\ End(j, "missing")
    /\ UNCHANGED <<content, library, api, target, crashes>>

NothingTracked(j) ==
    LET g == target[j] IN
    /\ pc[j] = "marked" /\ group[g] # NONE /\ g \notin Tracked
    /\ group' = [group EXCEPT ![g] = NewRow("ready")]
    /\ End(j, "ok")
    /\ UNCHANGED <<members, rows, clusterOf, library, api, target, crashes>>

\* The pipeline creates or matches the papers of what it fetched.  A paper another
\* session has created and not committed makes it wait.
Import(j) ==
    LET g == target[j] IN
    /\ pc[j] = "marked" /\ group[g] # NONE /\ g \in Tracked
    /\ \E found \in SUBSET Published[g] :
         /\ \A k \in Jobs \ {j} : pc[k] = "imported" => fresh[k] \cap found \subseteq papers
         /\ fresh' = [fresh EXCEPT ![j] = found \ (stored \ papers)]
    /\ Goto(j, "imported")
    /\ UNCHANGED <<content, library, api, queue, read, total, outcome>>

\* Records, papers and memberships are committed together.  The foreign key
\* of project_papers refuses the memberships of a deleted group.
AddPapers(j) ==
    LET g == target[j] IN
    /\ pc[j] = "imported"
    /\ group[g] # NONE \/ fresh[j] = {}
    /\ stored' = stored \cup fresh[j]
    /\ papers' = papers \cup fresh[j]
    /\ members' = [members EXCEPT ![g] = @ \cup fresh[j]]
    /\ Goto(j, "embedding")
    /\ UNCHANGED <<group, rows, clusterOf, embedded, api, queue, batch, outcome>>

\* backfill_for_project: some calls of the embedding client fail.
EmbedPapers(j) ==
    /\ pc[j] = "embedding"
    /\ \E done \in SUBSET (members[target[j]] \ embedded) : embedded' = embedded \cup done
    /\ Goto(j, "clustering")
    /\ UNCHANGED <<content, stored, papers, api, queue, batch, outcome>>

MarkClustering(j) ==
    /\ pc[j] = "clustering"
    /\ SetStatus(target[j], "clustering")
    /\ Goto(j, "reading")
    /\ UNCHANGED <<members, rows, clusterOf, library, api, queue, batch, outcome>>

ReadEmbedded(j) ==
    /\ pc[j] = "reading"
    /\ read' = [read EXCEPT ![j] = members[target[j]] \cap embedded]
    /\ Goto(j, "counting")
    /\ UNCHANGED <<content, library, api, queue, fresh, total, outcome>>

CountPapers(j) ==
    /\ pc[j] = "counting"
    /\ total' = [total EXCEPT ![j] = Cardinality(members[target[j]])]
    /\ Goto(j, "saving")
    /\ UNCHANGED <<content, library, api, queue, fresh, read, outcome>>

\* Mutant: the clusters are deleted, their papers are not.
SkipClusteringOrphans(j) ==
    LET g == target[j] IN
    /\ pc[j] = "saving" /\ Cardinality(read[j]) < 2
    /\ group' = IF group[g] = NONE THEN group
                ELSE [group EXCEPT ![g] = [status |-> "ready", papers |-> total[j], clusters |-> 0]]
    /\ rows' = [rows EXCEPT ![g] = 0]
    /\ End(j, "ok")
    /\ UNCHANGED <<members, clusterOf, library, api, target, crashes>>

\* Not enough embeddings: the clusters of an earlier sync stay.
SkipClustering(j) ==
    LET g == target[j] IN
    /\ pc[j] = "saving" /\ Cardinality(read[j]) < 2
    /\ group' = IF group[g] = NONE THEN group
                ELSE [group EXCEPT ![g] = [status |-> "ready", papers |-> total[j], clusters |-> 0]]
    /\ End(j, "ok")
    /\ UNCHANGED <<members, rows, clusterOf, library, api, target, crashes>>

\* cluster_embeddings puts every paper it is given in one non-empty cluster.
Clusterings(S) ==
    UNION {[S -> 1..n] : n \in 1..Cardinality(S)}

Rows(f) == Cardinality({f[p] : p \in DOMAIN f})

\* Mutant: save_clusters commits; the counts and READY follow in a transaction
\* of their own.
SaveClustersEarly(j) ==
    LET g == target[j] IN
    /\ pc[j] = "saving" /\ Cardinality(read[j]) >= 2
    /\ group[g] # NONE /\ read[j] \subseteq papers
    /\ \E f \in Clusterings(read[j]) :
         /\ {f[p] : p \in read[j]} = 1..Rows(f)
         /\ rows' = [rows EXCEPT ![g] = Rows(f)]
         /\ clusterOf' = [clusterOf EXCEPT ![g] = f]
    /\ read' = [read EXCEPT ![j] = {}]
    /\ UNCHANGED <<group, members, library, api, queue, pc, fresh, total, outcome>>

\* Mutant: nothing refuses a paper deleted since it was read.
SaveClustersUnchecked(j) ==
    LET g == target[j] IN
    /\ pc[j] = "saving" /\ Cardinality(read[j]) >= 2
    /\ group[g] # NONE
    /\ \E f \in Clusterings(read[j]) :
         /\ {f[p] : p \in read[j]} = 1..Rows(f)
         /\ rows' = [rows EXCEPT ![g] = Rows(f)]
         /\ clusterOf' = [clusterOf EXCEPT ![g] = f]
         /\ group' = [group EXCEPT ![g] =
                        [status |-> "ready", papers |-> total[j], clusters |-> Rows(f)]]
    /\ End(j, "ok")
    /\ UNCHANGED <<members, library, api, target, crashes>>

\* save_clusters replaces the clusters; the counts and READY are committed with
\* them.  A foreign key refuses a deleted paper or group.
SaveClusters(j) ==
    LET g == target[j] IN
    /\ pc[j] = "saving" /\ Cardinality(read[j]) >= 2
    /\ group[g] # NONE /\ read[j] \subseteq papers
    /\ \E f \in Clusterings(read[j]) :
         /\ {f[p] : p \in read[j]} = 1..Rows(f)
         /\ rows' = [rows EXCEPT ![g] = Rows(f)]
         /\ clusterOf' = [clusterOf EXCEPT ![g] = f]
         /\ group' = [group EXCEPT ![g] =
                        [status |-> "ready", papers |-> total[j], clusters |-> Rows(f)]]
    /\ End(j, "ok")
    /\ UNCHANGED <<members, library, api, target, crashes>>

\* Any statement or client call may raise: rollback, then FAILED in a
\* transaction of its own, which may fail too and is then given up.
JobFails(j) ==
    /\ pc[j] \in InJob
    /\ \/ SetStatus(target[j], "failed") /\ End(j, "failed")
       \/ UNCHANGED group /\ End(j, "unmarked")
    /\ UNCHANGED <<members, rows, clusterOf, library, api, target, crashes>>

\* job_timeout cancels the task: CancelledError is not an Exception.
JobTimesOut(j) ==
    /\ pc[j] \in InJob
    /\ End(j, "unmarked")
    /\ UNCHANGED <<content, library, api, target, crashes>>

\* The worker dies: the transaction is lost and arq runs the job again.
Crash(j) ==
    /\ job[j] = "running" /\ crashes < MaxCrashes
    /\ crashes' = crashes + 1
    /\ job' = [job EXCEPT ![j] = "queued"]
    /\ Close(j)
    /\ UNCHANGED <<content, library, api, target, outcome>>

------------------------------------------------------------------------------
CreateStep(g) == CreateProject(g) \/ CreateEnqueue(g) \/ CreateCommit(g) \/ CreateAborts(g)

SyncStep(q) == (\E g \in Groups : SyncLoad(q, g)) \/ SyncEnqueue(q) \/ SyncCommit(q)

JobStep(j) ==
    \/ StartJob(j) \/ MarkImporting(j) \/ GroupNotFound(j) \/ NothingTracked(j)
    \/ Import(j) \/ AddPapers(j) \/ EmbedPapers(j) \/ MarkClustering(j)
    \/ ReadEmbedded(j) \/ CountPapers(j) \/ SkipClustering(j) \/ SaveClusters(j)

JobFault(j) == JobFails(j) \/ JobTimesOut(j) \/ Crash(j) \/ ExpireResult(j)

Next ==
    \/ \E g \in Groups : CreateStep(g) \/ DeleteProject(g) \/ Discover(g)
    \/ \E q \in Requests : SyncStep(q)
    \/ \E j \in Jobs : JobStep(j) \/ JobFault(j)
    \/ \E p \in Papers : DeletePaper(p)

Spec == Init /\ [][Next]_vars

------------------------------------------------------------------------------
(* Properties.                                                             *)

\* No job of a READY group is at work: the id of the job, the result arq keeps,
\* the handlers that commit late, crashes and redelivery never let a second
\* sync run behind a group that is shown as finished.
ReadyIsSettled ==
    \A g \in Groups : group[g] # NONE /\ group[g].status = "ready" =>
        \A j \in Jobs : target[j] = g => pc[j] \in {"idle", "started"}

\* The clusters hold members with an embedding, although the papers were read
\* several steps before and may have been deleted since.
ClustersHoldMembers ==
    \A g \in Groups : DOMAIN clusterOf[g] \subseteq members[g] \cap embedded

\* The clusters of a group change only with its deletion or in the step that
\* makes it READY with their count: a reader never sees clusters of a sync
\* that has not finished or was abandoned.
PublishedTogether ==
    [][\A g \in Groups : rows'[g] # rows[g] =>
         \/ group'[g] = NONE
         \/ group'[g].status = "ready" /\ group'[g].clusters = rows'[g]]_vars

\* What the pages of groups promise (GroupPage): whatever handlers, jobs, deletions,
\* time-outs and crashes do, a group changes on its page only by one of the steps a
\* user is meant to see; clusters, counts and READY are published in one of them, about
\* papers that are members then, and shown with no fewer papers than are in clusters.
Page == INSTANCE GroupPage

PageIsTrue == Page!Spec

(* What the repository says and the code does not do. *)

Idle(g) ==
    /\ group[g] # NONE /\ create[g] = "done" /\ Active(g) = {}
    /\ \A q \in Requests : asked[q] = g => request[q] = "done"

\* jobs/research_groups.py: "11. Update paper_count, cluster_count, sync_status
\* -> "ready"": when every job of the group ended without a fault and nothing
\* is going on any more, the group is not shown as importing.
SyncSettles ==
    \A g \in Groups :
        /\ Idle(g)
        /\ \A j \in Jobs : target[j] = g => outcome[j] \in {"ok", "missing"}
        => group[g].status \notin {"importing", "clustering"}
==============================================================================
