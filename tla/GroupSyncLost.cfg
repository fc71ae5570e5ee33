\* The job against the handler that enqueued it.
SPECIFICATION Spec
CONSTANTS
    g1 = g1  g2 = g2  q1 = q1  q2 = q2  j1 = j1  j2 = j2  j3 = j3
    p1 = p1  p2 = p2  p3 = p3
    NONE = NONE
    Groups = {g1}
    Tracked = {g1}
    Requests = {q1}
    Jobs = {j1, j2}
    Papers = {p1, p2}
    Published <- AllPublished
    Deletable = {}
    Discoverable = {}
    MaxCrashes = 0
INVARIANTS SyncSettles
CHECK_DEADLOCK FALSE
