\* Three alerts, one of them in-app; two reports; two organizations with three policies.
SPECIFICATION FairSpec
CONSTANTS
    a1 = a1  a2 = a2  a3 = a3  r1 = r1  r2 = r2
    o1 = o1  o2 = o2  p1 = p1  p2 = p2  p3 = p3
    NONE = NONE
    Alerts = {a1, a2, a3}
    ByMail = {a1, a2}
    Reports = {r1, r2}
    Orgs = {o1, o2}
    Policies = {p1, p2, p3}
    OrgOf <- Owners
    Inapplicable = {p3}
    Deletes = {p1, p2}
    MaxCuts = 2
INVARIANTS TypeOK SentWasMailed MailedAgainOnlyIfLost
PROPERTIES DeletedIsLogged OrgsAreIndependent
CHECK_DEADLOCK FALSE
