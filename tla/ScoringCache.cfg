\* Two organizations ask for scores of papers with the same DOI.
SPECIFICATION Spec
CONSTANTS
    p1 = p1  p2 = p2  o1 = o1  o2 = o2  d1 = d1  w1 = w1  j1 = j1  q1 = q1  q2 = q2
    NONE = NONE  Default = Default
    Papers = {p1, p2}
    Orgs = {o1, o2}
    OrgOf <- TwoOrgs
    Dois = {d1}
    DoiOf <- SameDoi
    Weights = {Default, w1}
    Jobs = {}
    PapersOf <- NoBatch
    WeightsOf <- NoBatch
    Requests = {q1, q2}
    MaxTries = 1
SYMMETRY RequestSymmetry
INVARIANTS KnowledgeStaysHome
PROPERTIES CacheCommitsWithScore
CHECK_DEADLOCK FALSE
