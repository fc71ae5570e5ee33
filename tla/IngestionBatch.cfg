\* One scope ingested in three batches by one API run and two syncs: a record
\* published twice, one that cannot be normalized, one that cannot be resolved,
\* one that PostgreSQL refuses; one worker crash.
SPECIFICATION Spec
CONSTANTS
    a1 = a1  a2 = a2  s1 = s1  s2 = s2
    web = web  lab = lab
    r1 = r1  r2 = r2  r3 = r3  r4 = r4  r5 = r5  r6 = r6
    p1 = p1  p2 = p2  p3 = p3  p4 = p4
    w1 = w1  w2 = w2  w3 = w3
    NONE = NONE
    ApiRuns = {a1}
    SyncRuns = {s1, s2}
    Scopes = {web}
    ScopeOf <- BatchScopeOf
    Records = {r1, r2, r3, r4}
    Feed <- BatchFeed
    Papers = {p1, p2, p3}
    PaperOf <- BatchPaperOf
    Works = {w1, w2, w3}
    WorkOf <- BatchWorkOf
    Malformed = {r2}
    Unresolvable = {r3}
    Poison = {r4}
    Limit = 2
    MaxCrashes = 1
SYMMETRY SyncSymmetry
INVARIANTS CursorCovered
PROPERTIES RedeliveryHarmless AtomicImport
CHECK_DEADLOCK FALSE
