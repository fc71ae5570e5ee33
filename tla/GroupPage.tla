------------------------------ MODULE GroupPage ------------------------------
(***************************************************************************)
(* What the pages of research groups promise to those who look at them,    *)
(* without handlers, jobs, a queue or crashes (modules/projects/models.py, *)
(* router.py): a status, two counts, the papers of a group and its         *)
(* clusters.  A sync shows that it is under way without touching the rest, *)
(* adds papers, and publishes clusters, counts and READY in one step; what *)
(* is published is about papers the group has at that moment.              *)
(* GroupSync (Page) implements it.                                         *)
(***************************************************************************)
EXTENDS Integers, FiniteSets

CONSTANTS Groups, Papers, NONE

VARIABLES
    group,          \* status and counts
    members,        \* papers of a group
    rows,           \* number of its clusters
    clusterOf,      \* the cluster of a paper
    embedded        \* papers with an embedding

vars == <<group, members, rows, clusterOf, embedded>>

Nothing == [p \in {} |-> 0]

Init ==
    /\ group = [g \in Groups |-> NONE]
    /\ members = [g \in Groups |-> {}]
    /\ rows = [g \in Groups |-> 0]
    /\ clusterOf = [g \in Groups |-> Nothing]
    /\ embedded = {}

Exists(g) == group[g] # NONE

Create(g) ==
    /\ ~Exists(g)
    /\ \E status \in {"idle", "importing"} :
         group' = [group EXCEPT ![g] = [status |-> status, papers |-> 0, clusters |-> 0]]
    /\ UNCHANGED <<members, rows, clusterOf, embedded>>

Show(g) ==
    /\ Exists(g)
    /\ \E status \in {"importing", "clustering", "failed"} :
         group' = [group EXCEPT ![g].status = status]
    /\ UNCHANGED <<members, rows, clusterOf, embedded>>

Add(g) ==
    /\ Exists(g)
    /\ \E found \in SUBSET Papers : members' = [members EXCEPT ![g] = @ \cup found]
    /\ UNCHANGED <<group, rows, clusterOf, embedded>>

Embed(g) ==
    /\ embedded \subseteq embedded' /\ embedded' \subseteq embedded \cup members[g]
    /\ UNCHANGED <<group, members, rows, clusterOf>>

Ready(n, k) == [status |-> "ready", papers |-> n, clusters |-> k]

\* Every cluster has a paper, every paper in one is an embedded member, and the
\* group is shown with at least as many papers as are in clusters.
Publish(g) ==
    /\ Exists(g)
    /\ \E S \in SUBSET (members[g] \cap embedded) :
       \E k \in 1..Cardinality(S), n \in Cardinality(S)..Cardinality(Papers) :
       \E f \in [S -> 1..k] :
         /\ {f[p] : p \in S} = 1..k
         /\ clusterOf' = [clusterOf EXCEPT ![g] = f]
         /\ rows' = [rows EXCEPT ![g] = k]
         /\ group' = [group EXCEPT ![g] = Ready(n, k)]
    /\ UNCHANGED <<members, embedded>>

\* Nothing to cluster: earlier clusters stay, but for one paper at most.
Settle(g) ==
    /\ Exists(g) /\ Cardinality(DOMAIN clusterOf[g]) <= 1
    /\ \E n \in Cardinality(DOMAIN clusterOf[g])..Cardinality(Papers) :
         group' = [group EXCEPT ![g] = Ready(n, 0)]
    /\ UNCHANGED <<members, rows, clusterOf, embedded>>

Delete(g) ==
    /\ Exists(g)
    /\ group' = [group EXCEPT ![g] = NONE]
    /\ members' = [members EXCEPT ![g] = {}]
    /\ rows' = [rows EXCEPT ![g] = 0]
    /\ clusterOf' = [clusterOf EXCEPT ![g] = Nothing]
    /\ UNCHANGED embedded

\* A deleted paper leaves its group and its cluster; the counts stay.
Remove(p) ==
    /\ members' = [g \in Groups |-> members[g] \ {p}]
    /\ clusterOf' = [g \in Groups |-> [x \in DOMAIN clusterOf[g] \ {p} |-> clusterOf[g][x]]]
    /\ embedded' = embedded \ {p}
    /\ UNCHANGED <<group, rows>>

Next ==
    \/ \E g \in Groups : \/ Create(g) \/ Show(g) \/ Add(g) \/ Embed(g)
                         \/ Publish(g) \/ Settle(g) \/ Delete(g)
    \/ \E p \in Papers : Remove(p)

Spec == Init /\ [][Next]_vars
==============================================================================
