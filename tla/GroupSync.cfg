\* A tracked group and one without OpenAlex ids that list the same papers: their
\* creation, a later sync, deletions, a discovery profile, one worker crash.
SPECIFICATION Spec
CONSTANTS
    g1 = g1  g2 = g2  q1 = q1  q2 = q2  j1 = j1  j2 = j2  j3 = j3
    p1 = p1  p2 = p2  p3 = p3
    NONE = NONE
    Groups = {g1, g2}
    Tracked = {g1}
    Requests = {q1}
    Jobs = {j1, j2}
    Papers = {p1, p2}
    Published <- AllPublished
    Deletable = {p1, p2}
    Discoverable = {p1, p2}
    MaxCrashes = 1
SYMMETRY SyncSymmetry
INVARIANTS TypeOK ReadyIsSettled ClustersHoldMembers
PROPERTIES PageIsTrue
CHECK_DEADLOCK FALSE
