------------------------------ MODULE Membership ------------------------------
(***************************************************************************)
(* The members of an organization (modules/auth): registration, invitation *)
(* by an administrator, joining, roles, deactivation, deletion of one's    *)
(* account.                                                                *)
(*                                                                         *)
(* A request reads its caller (get_current_user), reads and checks what it *)
(* is about, and later writes and commits.  No row is locked in between    *)
(* and the database isolates at READ COMMITTED, so these are three steps;  *)
(* the commit is refused by a unique index, a foreign key or a row that is *)
(* gone.  The ids of users and invitations are never given out twice.      *)
(***************************************************************************)
EXTENDS Accounts, Integers, FiniteSets

CONSTANTS
    Emails,         \* addresses
    Orgs,           \* ids of organizations
    Invs            \* ids of team invitations

Roles  == {"admin", "member"}      \* manager and viewer differ from a member in permissions only
Kinds  == {"register", "accept", "invite", "cancel", "role", "deactivate", "reactivate", "delete"}
User   == [email : Emails, org : Orgs, role : Roles, active : BOOLEAN,
           from : Invs \cup {NONE}]
Invite == [email : Emails, org : Orgs, role : Roles, by : Users,
           status : {"pending", "accepted"}, expired : BOOLEAN]
Ask    == [kind : Kinds \cup {NONE}, caller : Users \cup {NONE}, org : Orgs \cup {NONE},
           email : Emails \cup {NONE}, role : Roles \cup {NONE},
           user : Users \cup {NONE}, inv : Invs \cup {NONE}]

ASSUME NoneAssumption ==
    NONE \notin Users \cup Emails \cup Orgs \cup Invs \cup User \cup Invite \cup Ask \cup Roles \cup Kinds
ASSUME FiniteAssumption == IsFiniteSet(Requests)

VARIABLES
    user,       \* users
    inv,        \* team_invitations
    orgs,       \* organizations
    used,       \* ids of users and invitations given out so far
    phase,      \* where a request stands
    ask         \* who asks for what

rows == <<user, inv, orgs, used>>
vars == <<rows, phase, ask>>

TypeOK ==
    /\ user \in [Users -> User \cup {NONE}]
    /\ inv \in [Invs -> Invite \cup {NONE}]
    /\ orgs \subseteq Orgs /\ used \subseteq Users \cup Invs
    /\ phase \in [Requests -> {"idle", "admitted", "checked"}]
    /\ ask \in [Requests -> Ask \cup {NONE}]

Init ==
    /\ user = [u \in Users |-> NONE]
    /\ inv = [i \in Invs |-> NONE]
    /\ orgs = {} /\ used = {}
    /\ phase = [q \in Requests |-> "idle"]
    /\ ask = [q \in Requests |-> NONE]

-----------------------------------------------------------------------------
(* What the tables say. *)

Exists(u)        == user[u] # NONE
Taken(e)         == \E u \in Users : Exists(u) /\ user[u].email = e
Members(o)       == {u \in Users : Exists(u) /\ user[u].org = o}
AdminsOf(o)      == {u \in Members(o) : user[u].role = "admin"}
ActiveAdmins(o)  == {u \in AdminsOf(o) : user[u].active}
IsPending(i)     == inv[i] # NONE /\ inv[i].status = "pending"
Pending(e, o)    == {i \in Invs : IsPending(i) /\ inv[i].email = e /\ inv[i].org = o}

-----------------------------------------------------------------------------
(* get_current_user and require_admin read the row of the caller. *)

Authenticated(c) == Exists(c) /\ user[c].active

RequireAdmin(c) == Authenticated(c) /\ user[c].role = "admin"

Nothing == [kind |-> NONE, caller |-> NONE, org |-> NONE, email |-> NONE,
            role |-> NONE, user |-> NONE, inv |-> NONE]

Admit(q) ==
    /\ phase[q] = "idle"
    /\ \E c \in Users :
          /\ RequireAdmin(c)
          /\ ask' = [ask EXCEPT ![q] = [Nothing EXCEPT !.caller = c, !.org = user[c].org]]
    /\ phase' = [phase EXCEPT ![q] = "admitted"]
    /\ UNCHANGED rows

-----------------------------------------------------------------------------
(* The checks of the service, on rows read without a lock. *)

CanRegister(a) == ~Taken(a.email)

\* Mutant: a pending invitation does not stop another one.
CanInviteAgain(a) == ~\E u \in Members(a.org) : user[u].email = a.email

\* with two pending invitations scalar_one_or_none raises
CanInvite(a) ==
    /\ ~\E u \in Members(a.org) : user[u].email = a.email
    /\ Pending(a.email, a.org) = {}

\* an expired invitation is marked so in a transaction that is rolled back
ValidPending(i) == IsPending(i) /\ ~inv[i].expired

CanAccept(a) == ValidPending(a.inv) /\ ~Taken(inv[a.inv].email)

CanCancel(a) == IsPending(a.inv) /\ inv[a.inv].org = a.org

\* Mutant: administrators may change their own role.
CanChangeOwnRole(a) ==
    /\ a.user \in Members(a.org)
    /\ user[a.user].role # a.role
    /\ user[a.user].role = "admin" => Cardinality(AdminsOf(a.org)) > 1

\* inactive administrators count
CanChangeRole(a) ==
    /\ a.user \in Members(a.org) /\ a.user # a.caller
    /\ user[a.user].role # a.role
    /\ user[a.user].role = "admin" => Cardinality(AdminsOf(a.org)) > 1

\* The code has no check of the present status: a value that is already there is not written.
CanDeactivate(a) == a.user \in Members(a.org) /\ a.user # a.caller /\ user[a.user].active

CanReactivate(a) == a.user \in Members(a.org) /\ ~user[a.user].active

\* The endpoints: what a request may ask for that its checks permit.
Inviting(n, e, r) == [n EXCEPT !.kind = "invite", !.email = e, !.role = r]

InviteUser(n) == {a \in {Inviting(n, e, r) : e \in Emails, r \in Roles} : CanInvite(a)}

Cancel(n) == {a \in {[n EXCEPT !.kind = "cancel", !.inv = i] : i \in Invs} : CanCancel(a)}

Changing(n, u, r) == [n EXCEPT !.kind = "role", !.user = u, !.role = r]

ChangeRole(n) == {a \in {Changing(n, u, r) : u \in Users, r \in Roles} : CanChangeRole(a)}

Deactivate(n) ==
    {a \in {[n EXCEPT !.kind = "deactivate", !.user = u] : u \in Users} : CanDeactivate(a)}

Reactivate(n) ==
    {a \in {[n EXCEPT !.kind = "reactivate", !.user = u] : u \in Users} : CanReactivate(a)}

AdminAsks(n) == InviteUser(n) \cup Cancel(n) \cup ChangeRole(n) \cup Deactivate(n) \cup Reactivate(n)

SignUp == {a \in {[Nothing EXCEPT !.kind = "register", !.email = e] : e \in Emails} : CanRegister(a)}

AcceptInvite == {a \in {[Nothing EXCEPT !.kind = "accept", !.inv = i] : i \in Invs} : CanAccept(a)}

DeleteOwn == {[Nothing EXCEPT !.kind = "delete", !.caller = c] : c \in {u \in Users : Authenticated(u)}}

\* what a request is about matters from its check on
Check(q) ==
    /\ \/ phase[q] = "admitted" /\ \E a \in AdminAsks(ask[q]) : ask' = [ask EXCEPT ![q] = a]
       \/ /\ phase[q] = "idle"
          /\ \E a \in SignUp \cup AcceptInvite \cup DeleteOwn : ask' = [ask EXCEPT ![q] = a]
    /\ phase' = [phase EXCEPT ![q] = "checked"]
    /\ UNCHANGED rows

-----------------------------------------------------------------------------
(* The writes, each with the commit of its request. *)

Register(a) ==
    /\ a.kind = "register" /\ ~Taken(a.email)
    /\ \E u \in Users \ used, o \in Orgs \ orgs :
          /\ user' = [user EXCEPT ![u] = [email |-> a.email, org |-> o, role |-> "admin",
                                          active |-> TRUE, from |-> NONE]]
          /\ orgs' = orgs \cup {o} /\ used' = used \cup {u}
    /\ UNCHANGED inv

\* the foreign key created_by_id refuses an inviter who is gone
CreateTeamInvitation(a) ==
    /\ a.kind = "invite" /\ Exists(a.caller)
    /\ \E i \in Invs \ used :
          /\ inv' = [inv EXCEPT ![i] = [email |-> a.email, org |-> a.org, role |-> a.role,
                                        by |-> a.caller, status |-> "pending",
                                        expired |-> FALSE]]
          /\ used' = used \cup {i}
    /\ UNCHANGED <<user, orgs>>

\* Mutant: the account is committed, the status is not.
AcceptInvitationOnly(a) ==
    /\ a.kind = "accept" /\ inv[a.inv] # NONE /\ ~Taken(inv[a.inv].email)
    /\ \E u \in Users \ used :
          /\ user' = [user EXCEPT ![u] =
                [email |-> inv[a.inv].email, org |-> inv[a.inv].org, role |-> inv[a.inv].role,
                 active |-> TRUE, from |-> a.inv]]
          /\ used' = used \cup {u}
    /\ UNCHANGED <<inv, orgs>>

\* refused by the unique index of users.email, and when the invitation is gone
AcceptInvitation(a) ==
    /\ a.kind = "accept" /\ inv[a.inv] # NONE /\ ~Taken(inv[a.inv].email)
    /\ \E u \in Users \ used :
          /\ user' = [user EXCEPT ![u] =
                [email |-> inv[a.inv].email, org |-> inv[a.inv].org, role |-> inv[a.inv].role,
                 active |-> TRUE, from |-> a.inv]]
          /\ used' = used \cup {u}
    /\ inv' = [inv EXCEPT ![a.inv].status = "accepted"]
    /\ UNCHANGED orgs

\* Mutant: a cancelled invitation is kept under a status the enumeration lacks.
CancelInvitationMarked(a) ==
    /\ a.kind = "cancel" /\ inv[a.inv] # NONE
    /\ inv' = [inv EXCEPT ![a.inv].status = "cancelled"]
    /\ UNCHANGED <<user, orgs, used>>

\* the DELETE finds the row by its id, whatever its status has become
CancelInvitation(a) ==
    /\ a.kind = "cancel" /\ inv[a.inv] # NONE
    /\ inv' = [inv EXCEPT ![a.inv] = NONE]
    /\ UNCHANGED <<user, orgs, used>>

UpdateUserRole(a) ==
    /\ a.kind = "role" /\ Exists(a.user)
    /\ user' = [user EXCEPT ![a.user].role = a.role]
    /\ UNCHANGED <<inv, orgs, used>>

SetActive(a) ==
    /\ a.kind \in {"deactivate", "reactivate"} /\ Exists(a.user)
    /\ user' = [user EXCEPT ![a.user].active = (a.kind = "reactivate")]
    /\ UNCHANGED <<inv, orgs, used>>

\* the count of administrators compares a column with `is True` and is 0: no check.
\* The invitations of the user go with the user (ON DELETE CASCADE).
DeleteAccount(a) ==
    /\ a.kind = "delete"
    /\ user' = [user EXCEPT ![a.caller] = NONE]
    /\ inv' = [i \in Invs |-> IF inv[i] # NONE /\ inv[i].by = a.caller THEN NONE ELSE inv[i]]
    /\ UNCHANGED <<orgs, used>>

Apply(a) ==
    \/ Register(a) \/ CreateTeamInvitation(a) \/ AcceptInvitation(a) \/ CancelInvitation(a)
    \/ UpdateUserRole(a) \/ SetActive(a) \/ DeleteAccount(a)

Done(q) == phase' = [phase EXCEPT ![q] = "idle"] /\ ask' = [ask EXCEPT ![q] = NONE]

Commit(q) ==
    /\ phase[q] = "checked" /\ Apply(ask[q])
    /\ Done(q)

\* an exception of a check, of the mail service or of the commit: get_db rolls back
Fails(q) ==
    /\ phase[q] # "idle"
    /\ Done(q)
    /\ UNCHANGED rows

InvitationExpires(i) ==
    /\ IsPending(i) /\ ~inv[i].expired
    /\ inv' = [inv EXCEPT ![i].expired = TRUE]
    /\ UNCHANGED <<user, orgs, used, phase, ask>>

Next ==
    \/ \E q \in Requests : Admit(q) \/ Check(q) \/ Commit(q) \/ Fails(q)
    \/ \E i \in Invs : InvitationExpires(i)

Spec == Init /\ [][Next]_vars

-----------------------------------------------------------------------------
(* "Cannot remove the last admin from the organization"                    *)
(* (modules/auth/service.py, 821): an organization loses its last active   *)
(* administrator only when somebody deletes the own account, or when the   *)
(* caller of the request stopped being one while the request was in flight.*)
LastAdminLeaves ==
    [][\A o \in Orgs : ActiveAdmins(o) # {} /\ ActiveAdmins(o)' = {} =>
          \E q \in Requests : /\ phase[q] = "checked" /\ phase'[q] = "idle"
                              /\ \/ ask[q].kind = "delete"
                                 \/ ask[q].caller \notin ActiveAdmins(o)]_vars

(* Accepting an invitation creates the account and uses the invitation up  *)
(* (modules/auth/service.py, 668-680): whatever overlaps, an invitation    *)
(* never has two accounts, nor an account while it can be accepted again,  *)
(* and the account is in the organization that invited this address.       *)
JoinedByInvitation ==
    \A u \in Users : Exists(u) /\ user[u].from # NONE =>
        LET i == user[u].from
        IN  /\ \A v \in Users \ {u} : Exists(v) => user[v].from # i
            /\ inv[i] # NONE => /\ inv[i].status = "accepted"
                                /\ inv[i].email = user[u].email /\ inv[i].org = user[u].org

\* The accounts an address has in an organization, and the requests about to offer it one.
Places(e, o) == {u \in Members(o) : user[u].email = e}

Inviters(e, o) ==
    {q \in Requests : phase[q] = "checked" /\ ask[q].kind = "invite"
                      /\ ask[q].email = e /\ ask[q].org = o}

(* "An invitation has already been sent to this email"                     *)
(* (modules/auth/service.py, 545-549): an address has at most as many      *)
(* places, offers and offers under way in an organization as requests can  *)
(* overlap, so at most one when requests are handled one at a time.        *)
OffersBounded ==
    \A o \in Orgs, e \in Emails :
        Cardinality(Pending(e, o)) + Cardinality(Places(e, o)) + Cardinality(Inviters(e, o))
            <= Cardinality(Requests)
===============================================================================
