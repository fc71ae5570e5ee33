\* Two jobs of two scopes that publish one common record, two papers in opposite
\* orders, so that each may wait for the other, and a work under two identifiers;
\* papers are deleted; two worker crashes; liveness.
SPECIFICATION FairSpec
CONSTANTS
    a1 = a1  a2 = a2  s1 = s1  s2 = s2
    web = web  lab = lab
    r1 = r1  r2 = r2  r3 = r3  r4 = r4  r5 = r5  r6 = r6
    p1 = p1  p2 = p2  p3 = p3  p4 = p4
    w1 = w1  w2 = w2  w3 = w3
    NONE = NONE
    ApiRuns = {a1}
    SyncRuns = {s1}
    Scopes = {web, lab}
    ScopeOf <- CrossScopeOf
    Records = {r1, r2, r3, r4, r5, r6}
    Feed <- CrossFeed
    Papers = {p1, p2, p3, p4}
    PaperOf <- CrossPaperOf
    Works = {w1, w2, w3}
    WorkOf <- CrossWorkOf
    Malformed = {}
    Unresolvable = {}
    Poison = {}
    Limit = 4
    MaxCrashes = 2
INVARIANTS TypeOK RecordsResolved OneCreator
PROPERTIES EveryJobEnds
CHECK_DEADLOCK FALSE
