\* Three requests on a paper, a text of one chunk and one of two.
SPECIFICATION FairSpec
CONSTANTS
    p1 = p1  t1 = t1  t2 = t2  q1 = q1  q2 = q2  q3 = q3
    NONE = NONE
    Papers = {p1}
    Texts = {t1, t2}
    Length <- Lengths
    Requests = {q1, q2, q3}
    Edited <- First
INVARIANTS ChunksOfOneText LinkedToTheQuotedChunk NothingOutlivesItsPaper
PROPERTIES RequestsEnd
ACTION_CONSTRAINT InOrder
CHECK_DEADLOCK FALSE
