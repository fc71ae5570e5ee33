\* A job of two papers: services fail, papers are deleted, the worker crashes once.
SPECIFICATION FairSpec
CONSTANTS
    p1 = p1  p2 = p2  o1 = o1  o2 = o2  d1 = d1  w1 = w1  j1 = j1  q1 = q1  q2 = q2
    NONE = NONE  Default = Default
    Papers = {p1, p2}
    Orgs = {o1}
    OrgOf <- OneOrg
    Dois = {d1}
    DoiOf <- OneDoi
    Weights = {Default, w1}
    Jobs = {j1}
    PapersOf <- OneBatch
    WeightsOf <- Weighted
    Requests = {}
    MaxTries = 2
INVARIANTS TypeOK CompletedIsScored
PROPERTIES BoardIsTrue JobEnds
CHECK_DEADLOCK FALSE
