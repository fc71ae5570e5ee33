\* Records and Zotero items that share a DOI, a source id or a title, in batches of two.
SPECIFICATION Spec
CONSTANTS
    d1 = d1  x1 = x1  t1 = t1  t2 = t2  u1 = u1  openalex = openalex  manual = manual
    k1 = k1  k2 = k2  z1 = z1  zk1 = zk1  NONE = NONE
    Dois = {d1, x1}
    Bare <- Spelling
    Titles = {t1, t2, u1}
    Normal <- Tidy
    Years = {1}
    Sources = {openalex, manual}
    Keys = {k1, k2, z1, zk1}
    Bundles <- Mixed
    Rows <- Others
    MaxBatch = 2
    Ids = {p1, p2, p3}
SYMMETRY IdSymmetry
INVARIANTS TypeOK KnownStays
PROPERTIES CreatesOnce
