\* Three requests in flight on one submission, five in all.
SPECIFICATION Spec
CONSTANTS
    s1 = s1  s2 = s2  q1 = q1  q2 = q2  q3 = q3  q4 = q4  q5 = q5
    t0 = t0  t1 = t1  t2 = t2
    NONE = NONE
    Subs = {s1}
    Requests = {q1, q2, q3, q4, q5}
    Texts = {t0, t1, t2}
    NoAbstract = {t0}
    Overlap = 3
SYMMETRY RequestSymmetry
INVARIANTS TypeOK LinkedToItsPaper PaperWasReviewed
PROPERTIES ApprovalIsKept
CHECK_DEADLOCK FALSE
