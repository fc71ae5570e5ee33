\* One account, two requests at a time, three tokens.
SPECIFICATION SessionSpec
CONSTANTS
    u1 = u1  t1 = t1  t2 = t2  t3 = t3  q1 = q1  q2 = q2
    NONE = NONE
    Users = {u1}
    Tokens = {t1, t2, t3}
    Requests = {q1, q2}
    AccessLife = 3
    RefreshLife = 4
    MaxFailed = 2
    LockTime = 2
    Window = 2
    MaxTime = 4
SYMMETRY Symmetries
INVARIANTS SessionTypeOK RevokedIsRefused LockedAtTheLimit
CHECK_DEADLOCK FALSE
