\* Two overlapping requests, three accounts, two invitations.
SPECIFICATION Spec
CONSTANTS
    u1 = u1  u2 = u2  u3 = u3  e1 = e1  e2 = e2  o1 = o1  o2 = o2  i1 = i1  i2 = i2
    q1 = q1  q2 = q2
    NONE = NONE
    Users = {u1, u2, u3}
    Emails = {e1, e2}
    Orgs = {o1, o2}
    Invs = {i1, i2}
    Requests = {q1, q2}
SYMMETRY Symmetries
INVARIANTS TypeOK JoinedByInvitation OffersBounded
PROPERTIES LastAdminLeaves
CHECK_DEADLOCK FALSE
