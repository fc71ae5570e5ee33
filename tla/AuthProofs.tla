------------------------------ MODULE AuthProofs ------------------------------
(***************************************************************************)
(* Proofs about modules/auth.  The first part is about Membership, for any *)
(* users, addresses, organizations, invitations and overlapping requests:  *)
(* its types, that an invitation has one account, how an organization can  *)
(* lose its last active administrator, and how many offers an address can  *)
(* have.  The second part is about Sessions, for any lives of tokens and   *)
(* keys: a revoked token is refused, and a counter at its limit locks.     *)
(***************************************************************************)
EXTENDS Membership, Sessions, FiniteSetTheorems, TLAPS

(* Membership. *)

\* What a request that has passed its checks is about.
WellFormed(a) ==
    /\ a \in Ask
    /\ a.kind = "register" => a.email \in Emails
    /\ a.kind = "accept" => a.inv \in Invs
    /\ a.kind = "invite" =>
          a.caller \in Users /\ a.org \in Orgs /\ a.email \in Emails /\ a.role \in Roles
    /\ a.kind = "cancel" => a.inv \in Invs
    /\ a.kind \in {"role", "deactivate", "reactivate"} => a.user \in Users
    /\ a.kind = "role" => a.role \in Roles
    /\ a.kind \in {"role", "deactivate"} => a.user # a.caller
    /\ a.kind = "delete" => a.caller \in Users

Admitted(a) == a \in [kind : {NONE}, caller : Users, org : Orgs, email : {NONE}, role : {NONE},
                      user : {NONE}, inv : {NONE}]

Requested ==
    \A q \in Requests : /\ phase[q] = "admitted" => Admitted(ask[q])
                        /\ phase[q] = "checked" => WellFormed(ask[q])

\* Rows have ids that were given out.
IdsUsed ==
    /\ \A u \in Users : Exists(u) =>
          u \in used /\ (user[u].from # NONE => user[u].from \in used)
    /\ \A i \in Invs : inv[i] # NONE => i \in used

IInv == TypeOK /\ Requested /\ IdsUsed /\ JoinedByInvitation

-----------------------------------------------------------------------------
\* Nobody is there at first.
LEMMA InitInv == Init => IInv
BY DEF Init, IInv, TypeOK, Requested, IdsUsed, JoinedByInvitation, Exists

LEMMA NothingType == Nothing \in Ask
BY DEF Nothing, Ask

\* What the endpoints ask for, and what their checks have seen.
LEMMA AdminAsksWellFormed ==
    ASSUME TypeOK, NEW n, Admitted(n), NEW a \in AdminAsks(n) PROVE WellFormed(a)
<1> USE DEF Ask, Admitted, WellFormed, Kinds
<1>1. n \in Ask
  OBVIOUS
<1>2. CASE a \in InviteUser(n)
  <2>1. PICK e \in Emails, r \in Roles : a = Inviting(n, e, r)
    BY <1>2 DEF InviteUser
  <2> QED BY <2>1 DEF Inviting
<1>3. CASE a \in Cancel(n)
  <2>1. PICK i \in Invs : a = [n EXCEPT !.kind = "cancel", !.inv = i]
    BY <1>3 DEF Cancel
  <2> QED BY <2>1
<1>4. CASE a \in ChangeRole(n)
  <2>1. PICK u \in Users, r \in Roles : a = Changing(n, u, r)
    BY <1>4 DEF ChangeRole
  <2>2. a.user # a.caller
    BY <1>4 DEF ChangeRole, CanChangeRole
  <2> QED BY <2>1, <2>2 DEF Changing
<1>5. CASE a \in Deactivate(n)
  <2>1. PICK u \in Users : a = [n EXCEPT !.kind = "deactivate", !.user = u]
    BY <1>5 DEF Deactivate
  <2>2. a.user # a.caller
    BY <1>5 DEF Deactivate, CanDeactivate
  <2> QED BY <2>1, <2>2
<1>6. CASE a \in Reactivate(n)
  <2>1. PICK u \in Users : a = [n EXCEPT !.kind = "reactivate", !.user = u]
    BY <1>6 DEF Reactivate
  <2> QED BY <2>1
<1> QED BY <1>2, <1>3, <1>4, <1>5, <1>6 DEF AdminAsks

LEMMA OwnAsksWellFormed ==
    ASSUME TypeOK, NEW a \in SignUp \cup AcceptInvite \cup DeleteOwn PROVE WellFormed(a)
<1> USE DEF Ask, Nothing, WellFormed, Kinds
<1>1. CASE a \in SignUp
  <2>1. PICK e \in Emails : a = [Nothing EXCEPT !.kind = "register", !.email = e]
    BY <1>1 DEF SignUp
  <2> QED BY <2>1
<1>2. CASE a \in AcceptInvite
  <2>1. PICK i \in Invs : a = [Nothing EXCEPT !.kind = "accept", !.inv = i]
    BY <1>2 DEF AcceptInvite
  <2> QED BY <2>1
<1>3. CASE a \in DeleteOwn
  <2>1. PICK c \in Users : a = [Nothing EXCEPT !.kind = "delete", !.caller = c]
    BY <1>3 DEF DeleteOwn
  <2> QED BY <2>1
<1> QED BY <1>1, <1>2, <1>3

-----------------------------------------------------------------------------
(* A request is admitted, checks, or ends. *)

LEMMA AdmitStep ==
    ASSUME IInv, NEW q \in Requests, Admit(q) PROVE IInv'
<1>1. PICK c \in Users : /\ RequireAdmin(c)
                         /\ ask' = [ask EXCEPT ![q] = [Nothing EXCEPT !.caller = c,
                                                                     !.org = user[c].org]]
  BY DEF Admit
<1>2. user[c].org \in Orgs
  BY <1>1 DEF RequireAdmin, Authenticated, Exists, IInv, TypeOK, User
<1>3. Admitted([Nothing EXCEPT !.caller = c, !.org = user[c].org])
  BY <1>2 DEF Admitted, Nothing
<1>4. [Nothing EXCEPT !.caller = c, !.org = user[c].org] \in Ask
  BY <1>2 DEF Nothing, Ask
<1>5. TypeOK'
  BY <1>1, <1>4 DEF Admit, IInv, TypeOK, rows
<1>6. Requested'
  BY <1>1, <1>3 DEF Admit, IInv, TypeOK, Requested
<1> QED BY <1>5, <1>6 DEF Admit, rows, IInv, IdsUsed, JoinedByInvitation, Exists

LEMMA CheckStep ==
    ASSUME IInv, NEW q \in Requests, Check(q) PROVE IInv'
<1>1. PICK a : WellFormed(a) /\ ask' = [ask EXCEPT ![q] = a]
  BY AdminAsksWellFormed, OwnAsksWellFormed DEF Check, IInv, Requested
<1>2. TypeOK'
  BY <1>1 DEF Check, IInv, TypeOK, rows, WellFormed
<1>3. Requested'
  BY <1>1 DEF Check, IInv, TypeOK, Requested
<1> QED BY <1>2, <1>3 DEF Check, rows, IInv, IdsUsed, JoinedByInvitation, Exists

LEMMA FailsStep ==
    ASSUME IInv, NEW q \in Requests, Fails(q) PROVE IInv'
<1>1. TypeOK' /\ Requested'
  BY DEF Fails, Done, rows, IInv, TypeOK, Requested
<1> QED BY <1>1 DEF Fails, rows, IInv, IdsUsed, JoinedByInvitation, Exists

LEMMA ExpiresStep ==
    ASSUME IInv, NEW i \in Invs, InvitationExpires(i) PROVE IInv'
<1>1. /\ inv[i] \in Invite /\ inv' = [inv EXCEPT ![i].expired = TRUE]
      /\ UNCHANGED <<user, orgs, used, phase, ask>>
  BY DEF InvitationExpires, IsPending, IInv, TypeOK
<1>2. inv' \in [Invs -> Invite \cup {NONE}]
  BY <1>1 DEF IInv, TypeOK, Invite
<1>3. \A j \in Invs : inv'[j] # NONE =>
         /\ inv[j] # NONE /\ inv'[j].status = inv[j].status
         /\ inv'[j].email = inv[j].email /\ inv'[j].org = inv[j].org
  BY <1>1, NoneAssumption DEF IInv, TypeOK, Invite
<1>4. TypeOK' /\ Requested'
  BY <1>1, <1>2 DEF IInv, TypeOK, Requested
<1>5. IdsUsed'
  BY <1>1, <1>3 DEF IInv, IdsUsed, Exists
<1>6. JoinedByInvitation'
  BY <1>1, <1>3 DEF IInv, TypeOK, User, JoinedByInvitation, Exists
<1> QED BY <1>4, <1>5, <1>6 DEF IInv

-----------------------------------------------------------------------------
(* The writes. *)

\* What every write says of the rows that were there before.
Kept ==
    /\ \A u \in Users : Exists(u)' =>
          \/ Exists(u) /\ user'[u].email = user[u].email /\ user'[u].org = user[u].org
                       /\ user'[u].from = user[u].from
          \/ ~Exists(u) /\ u \in used' /\ user'[u].from = NONE
    /\ \A i \in Invs : inv'[i] # NONE =>
          \/ inv[i] # NONE /\ inv'[i].status = inv[i].status
             /\ inv'[i].email = inv[i].email /\ inv'[i].org = inv[i].org
          \/ i \notin used /\ i \in used'
    /\ used \subseteq used'

LEMMA KeptKeeps ==
    ASSUME IInv, Kept PROVE IdsUsed' /\ JoinedByInvitation'
<1>1. IdsUsed'
  BY DEF Kept, IInv, IdsUsed, Exists
<1>2. \A u \in Users : Exists(u)' /\ user'[u].from # NONE =>
         Exists(u) /\ user[u].from \in used /\ user[u].from \in Invs
         /\ user'[u].email = user[u].email /\ user'[u].org = user[u].org
         /\ user'[u].from = user[u].from
  BY DEF Kept, IInv, TypeOK, User, IdsUsed, Exists
<1>3. JoinedByInvitation'
  BY <1>2 DEF Kept, IInv, JoinedByInvitation, Exists
<1> QED BY <1>1, <1>3

LEMMA RegisterKeeps ==
    ASSUME IInv, NEW a, WellFormed(a), Register(a)
    PROVE  Kept /\ user' \in [Users -> User \cup {NONE}] /\ inv' = inv
           /\ orgs' \subseteq Orgs /\ used' \subseteq Users \cup Invs
<1>1. PICK u \in Users \ used, o \in Orgs \ orgs :
          /\ user' = [user EXCEPT ![u] = [email |-> a.email, org |-> o, role |-> "admin",
                                          active |-> TRUE, from |-> NONE]]
          /\ orgs' = orgs \cup {o} /\ used' = used \cup {u}
  BY DEF Register
<1>2. [email |-> a.email, org |-> o, role |-> "admin", active |-> TRUE, from |-> NONE] \in User
  BY DEF Register, WellFormed, User, Roles
<1>3. user' \in [Users -> User \cup {NONE}] /\ inv' = inv
  BY <1>1, <1>2 DEF Register, IInv, TypeOK
<1>4. Kept
  BY <1>1, <1>3 DEF Kept, IInv, TypeOK, IdsUsed, Exists
<1> QED BY <1>1, <1>3, <1>4 DEF IInv, TypeOK

LEMMA InvitationKeeps ==
    ASSUME IInv, NEW a, WellFormed(a), CreateTeamInvitation(a)
    PROVE  Kept /\ inv' \in [Invs -> Invite \cup {NONE}] /\ used' \subseteq Users \cup Invs
<1>1. PICK i \in Invs \ used :
          /\ inv' = [inv EXCEPT ![i] = [email |-> a.email, org |-> a.org, role |-> a.role,
                                        by |-> a.caller, status |-> "pending",
                                        expired |-> FALSE]]
          /\ used' = used \cup {i}
  BY DEF CreateTeamInvitation
<1>2. [email |-> a.email, org |-> a.org, role |-> a.role, by |-> a.caller, status |-> "pending",
       expired |-> FALSE] \in Invite
  BY DEF CreateTeamInvitation, WellFormed, Invite
<1>3. user' = user /\ inv' \in [Invs -> Invite \cup {NONE}]
  BY <1>1, <1>2 DEF CreateTeamInvitation, IInv, TypeOK
<1>4. Kept
  BY <1>1, <1>3 DEF Kept, IInv, TypeOK, IdsUsed, Exists
<1> QED BY <1>1, <1>3, <1>4 DEF IInv, TypeOK

\* The one write that joins: no account has this address, so none has the invitation.
LEMMA AcceptStep ==
    ASSUME IInv, NEW a, WellFormed(a), AcceptInvitation(a)
    PROVE  /\ user' \in [Users -> User \cup {NONE}] /\ inv' \in [Invs -> Invite \cup {NONE}]
           /\ used' \subseteq Users \cup Invs /\ IdsUsed' /\ JoinedByInvitation'
<1> DEFINE i == a.inv
<1>1. i \in Invs /\ inv[i] \in Invite /\ inv[i] # NONE /\ ~Taken(inv[i].email)
  BY DEF AcceptInvitation, WellFormed, IInv, TypeOK
<1>2. PICK u \in Users \ used :
          /\ user' = [user EXCEPT ![u] = [email |-> inv[i].email, org |-> inv[i].org,
                                          role |-> inv[i].role, active |-> TRUE, from |-> i]]
          /\ used' = used \cup {u}
  BY DEF AcceptInvitation
<1>3. inv' = [inv EXCEPT ![i].status = "accepted"]
  BY DEF AcceptInvitation
<1>4. user' \in [Users -> User \cup {NONE}] /\ inv' \in [Invs -> Invite \cup {NONE}]
  BY <1>1, <1>2, <1>3 DEF IInv, TypeOK, User, Invite
<1>5. /\ Exists(u)' /\ user'[u].from = i /\ user'[u].email = inv[i].email /\ user'[u].org = inv[i].org
      /\ \A v \in Users \ {u} : user'[v] = user[v]
      /\ inv'[i] # NONE /\ inv'[i].status = "accepted"
      /\ inv'[i].email = inv[i].email /\ inv'[i].org = inv[i].org
      /\ \A j \in Invs \ {i} : inv'[j] = inv[j]
  <2>1. user'[u] = [email |-> inv[i].email, org |-> inv[i].org, role |-> inv[i].role,
                    active |-> TRUE, from |-> i]
        /\ \A v \in Users \ {u} : user'[v] = user[v]
    BY <1>2 DEF IInv, TypeOK
  <2>2. user'[u] \in User
    BY <1>1, <2>1 DEF User, Invite
  <2>3. inv'[i] = [inv[i] EXCEPT !.status = "accepted"] /\ \A j \in Invs \ {i} : inv'[j] = inv[j]
    BY <1>1, <1>3 DEF IInv, TypeOK
  <2>4. inv'[i] \in Invite /\ inv'[i].status = "accepted"
        /\ inv'[i].email = inv[i].email /\ inv'[i].org = inv[i].org
    BY <1>1, <2>3 DEF Invite
  <2>5. user'[u] # NONE /\ inv'[i] # NONE
    BY <2>2, <2>4, NoneAssumption
  <2> QED BY <2>1, <2>3, <2>4, <2>5 DEF Exists
<1>6. \A v \in Users : Exists(v) => user[v].from # i
  BY <1>1, NoneAssumption DEF IInv, JoinedByInvitation, Taken
<1>7. IdsUsed'
  BY <1>1, <1>2, <1>5 DEF IInv, IdsUsed, Exists
<1>8. JoinedByInvitation'
  <2> SUFFICES ASSUME NEW v \in Users, Exists(v)', user'[v].from # NONE
               PROVE  /\ \A w \in Users \ {v} : Exists(w)' => user'[w].from # user'[v].from
                      /\ inv'[user'[v].from] # NONE =>
                           /\ inv'[user'[v].from].status = "accepted"
                           /\ inv'[user'[v].from].email = user'[v].email
                           /\ inv'[user'[v].from].org = user'[v].org
    BY DEF JoinedByInvitation
  <2>1. CASE v = u
    BY <1>5, <1>6, <2>1 DEF Exists
  <2>2. CASE v # u
    <3>1. Exists(v) /\ user'[v] = user[v] /\ user[v].from \in Invs \ {i}
      BY <1>5, <1>6, <2>2 DEF Exists, IInv, TypeOK, User
    <3> QED BY <1>5, <2>2, <3>1 DEF Exists, IInv, JoinedByInvitation
  <2> QED BY <2>1, <2>2
<1> QED BY <1>2, <1>4, <1>7, <1>8 DEF IInv, TypeOK

\* The writes that change or delete rows.
LEMMA EditKeeps ==
    ASSUME IInv, NEW a, WellFormed(a),
           CancelInvitation(a) \/ UpdateUserRole(a) \/ SetActive(a) \/ DeleteAccount(a)
    PROVE  /\ Kept /\ UNCHANGED used
           /\ user' \in [Users -> User \cup {NONE}] /\ inv' \in [Invs -> Invite \cup {NONE}]
<1>1. CASE CancelInvitation(a)
  <2>1. user' = user /\ used' = used /\ inv' \in [Invs -> Invite \cup {NONE}]
    BY <1>1 DEF CancelInvitation, WellFormed, IInv, TypeOK
  <2>2. \A i \in Invs : inv'[i] # NONE => inv'[i] = inv[i]
    BY <1>1 DEF CancelInvitation, IInv, TypeOK
  <2> QED BY <2>1, <2>2 DEF Kept, Exists, IInv, TypeOK
<1>2. CASE UpdateUserRole(a) \/ SetActive(a)
  <2>1. a.user \in Users /\ user[a.user] \in User /\ inv' = inv /\ used' = used
    BY <1>2 DEF UpdateUserRole, SetActive, WellFormed, Exists, IInv, TypeOK
  <2>2. \/ user' = [user EXCEPT ![a.user].role = a.role] /\ a.role \in Roles
        \/ user' = [user EXCEPT ![a.user].active = (a.kind = "reactivate")]
    BY <1>2 DEF UpdateUserRole, SetActive, WellFormed
  <2>3. user' \in [Users -> User \cup {NONE}]
    <3>1. user \in [Users -> User \cup {NONE}]
      BY DEF IInv, TypeOK
    <3>2. CASE user' = [user EXCEPT ![a.user].role = a.role] /\ a.role \in Roles
      BY <2>1, <3>1, <3>2 DEF User
    <3>3. CASE user' = [user EXCEPT ![a.user].active = (a.kind = "reactivate")]
      <4>1. PICK b \in BOOLEAN : b = (a.kind = "reactivate")
        BY Zenon
      <4>2. user' = [user EXCEPT ![a.user].active = b]
        BY <3>3, <4>1
      <4> QED BY <2>1, <3>1, <4>2 DEF User
    <3> QED BY <2>2, <3>2, <3>3
  <2>4. \A u \in Users : Exists(u)' =>
          Exists(u) /\ user'[u].email = user[u].email /\ user'[u].org = user[u].org
                    /\ user'[u].from = user[u].from
    BY <2>1, <2>2, NoneAssumption DEF Exists, IInv, TypeOK, User
  <2> QED BY <2>1, <2>3, <2>4 DEF Kept, IInv, TypeOK
<1>3. CASE DeleteAccount(a)
  <2>1. /\ user' = [user EXCEPT ![a.caller] = NONE] /\ a.caller \in Users /\ used' = used
        /\ inv' = [i \in Invs |-> IF inv[i] # NONE /\ inv[i].by = a.caller THEN NONE ELSE inv[i]]
    BY <1>3 DEF DeleteAccount, WellFormed
  <2>2. user' \in [Users -> User \cup {NONE}] /\ inv' \in [Invs -> Invite \cup {NONE}]
    BY <2>1 DEF IInv, TypeOK
  <2>3. /\ \A u \in Users : Exists(u)' => Exists(u) /\ user'[u] = user[u]
        /\ \A i \in Invs : inv'[i] # NONE => inv'[i] = inv[i]
    BY <2>1 DEF Exists, IInv, TypeOK
  <2> QED BY <2>1, <2>2, <2>3 DEF Kept
<1> QED BY <1>1, <1>2, <1>3

LEMMA CommitStep ==
    ASSUME IInv, NEW q \in Requests, Commit(q) PROVE IInv'
<1> DEFINE a == ask[q]
<1>1. WellFormed(a) /\ Apply(a) /\ Done(q)
  BY DEF Commit, IInv, Requested
<1>2. /\ user' \in [Users -> User \cup {NONE}] /\ inv' \in [Invs -> Invite \cup {NONE}]
      /\ orgs' \subseteq Orgs /\ used' \subseteq Users \cup Invs /\ IdsUsed' /\ JoinedByInvitation'
  <2>1. CASE Register(a)
    BY <1>1, <2>1, RegisterKeeps, KeptKeeps DEF IInv, TypeOK
  <2>2. CASE CreateTeamInvitation(a)
    BY <1>1, <2>2, InvitationKeeps, KeptKeeps DEF CreateTeamInvitation, IInv, TypeOK
  <2>3. CASE AcceptInvitation(a)
    BY <1>1, <2>3, AcceptStep DEF AcceptInvitation, IInv, TypeOK
  <2>4. CASE CancelInvitation(a) \/ UpdateUserRole(a) \/ SetActive(a) \/ DeleteAccount(a)
    <3>1. orgs' = orgs
      BY <2>4 DEF CancelInvitation, UpdateUserRole, SetActive, DeleteAccount
    <3> QED BY <1>1, <2>4, <3>1, EditKeeps, KeptKeeps DEF IInv, TypeOK
  <2> QED BY <1>1, <2>1, <2>2, <2>3, <2>4 DEF Apply
<1>3. TypeOK' /\ Requested'
  BY <1>1, <1>2 DEF Done, IInv, TypeOK, Requested
<1> QED BY <1>2, <1>3 DEF IInv

LEMMA NextStep ==
    ASSUME IInv, [Next]_vars PROVE IInv'
<1>1. CASE UNCHANGED vars
  BY <1>1 DEF vars, rows, IInv, TypeOK, Requested, IdsUsed, JoinedByInvitation, Exists
<1> QED BY <1>1, AdmitStep, CheckStep, CommitStep, FailsStep, ExpiresStep DEF Next

LEMMA Invariance == Spec => []IInv
<1>1. IInv /\ [Next]_vars => IInv'
  BY NextStep
<1> QED BY InitInv, <1>1, PTL DEF Spec

(* The rows of users and invitations and the requests have their fields,   *)
(* whatever rows were deleted while a request was in flight.               *)
THEOREM TypeCorrect == Spec => []TypeOK
<1>1. IInv => TypeOK
  BY DEF IInv
<1> QED BY Invariance, <1>1, PTL

(* An invitation has one account at most, which cannot be joined by again, *)
(* for any number of overlapping requests: two who accept it have the same *)
(* address, and the unique index of users.email refuses the second.        *)
THEOREM OneAccountPerInvitation == Spec => []JoinedByInvitation
<1>1. IInv => JoinedByInvitation
  BY DEF IInv
<1> QED BY Invariance, <1>1, PTL

-----------------------------------------------------------------------------
\* Another member of the row of a request loses nothing.
LEMMA LastAdminStep ==
    ASSUME IInv, [Next]_vars, NEW o \in Orgs, ActiveAdmins(o) # {}, ActiveAdmins(o)' = {}
    PROVE  \E q \in Requests : /\ phase[q] = "checked" /\ phase'[q] = "idle"
                               /\ \/ ask[q].kind = "delete"
                                  \/ ask[q].caller \notin ActiveAdmins(o)
<1> USE DEF ActiveAdmins, AdminsOf, Members, Exists
<1>1. user' # user
  OBVIOUS
<1>2. PICK q \in Requests : Commit(q)
  BY <1>1 DEF Next, Admit, Check, Fails, InvitationExpires, rows, vars
<1> DEFINE a == ask[q]
<1>3. phase[q] = "checked" /\ phase'[q] = "idle" /\ WellFormed(a) /\ Apply(a)
  BY <1>2 DEF Commit, Done, IInv, TypeOK, Requested
<1>4. CASE Register(a) \/ AcceptInvitation(a)
  <2>1. PICK u \in Users \ used : \A v \in Users \ {u} : user'[v] = user[v]
    BY <1>4 DEF Register, AcceptInvitation, IInv, TypeOK
  <2>2. ~Exists(u)
    BY DEF IInv, IdsUsed
  <2> QED BY <2>1, <2>2
<1>5. CASE CreateTeamInvitation(a) \/ CancelInvitation(a)
  BY <1>1, <1>5 DEF CreateTeamInvitation, CancelInvitation
<1>6. CASE DeleteAccount(a)
  BY <1>3, <1>6 DEF DeleteAccount
<1>7. CASE UpdateUserRole(a) \/ SetActive(a)
  <2>1. a.user \in Users /\ \A v \in Users \ {a.user} : user'[v] = user[v]
    BY <1>3, <1>7 DEF UpdateUserRole, SetActive, WellFormed, IInv, TypeOK
  <2>2. CASE a.kind = "reactivate"
    <3>1. SetActive(a) /\ user[a.user] \in User
      BY <1>7, <2>1, <2>2 DEF UpdateUserRole, SetActive, IInv, TypeOK
    <3>2. user'[a.user] = [user[a.user] EXCEPT !.active = (a.kind = "reactivate")]
      BY <2>1, <3>1 DEF SetActive, IInv, TypeOK
    <3>3. user'[a.user] \in User /\ user'[a.user].org = user[a.user].org
          /\ user'[a.user].role = user[a.user].role /\ user'[a.user].active = TRUE
      BY <2>2, <3>1, <3>2 DEF User
    <3>4. user'[a.user] # NONE
      BY <3>3, NoneAssumption
    <3>5. \A v \in Users : v \in ActiveAdmins(o) => v \in ActiveAdmins(o)'
      BY <2>1, <3>3, <3>4
    <3> QED BY <3>5
  <2>3. CASE a.kind # "reactivate"
    <3>1. a.user # a.caller
      BY <1>3, <1>7, <2>3 DEF UpdateUserRole, SetActive, WellFormed
    <3>2. a.caller \notin ActiveAdmins(o)
      BY <2>1, <3>1
    <3> QED BY <1>3, <3>2
  <2> QED BY <2>2, <2>3
<1> QED BY <1>3, <1>4, <1>5, <1>6, <1>7 DEF Apply

(* An organization loses its last active administrator only through the    *)
(* deletion of an account or a caller who is none any more: in a request   *)
(* of an administrator who still is one, this administrator is left.       *)
THEOREM LastAdminIsKept == Spec => LastAdminLeaves
<1>1. IInv /\ [Next]_vars =>
        [\A o \in Orgs : ActiveAdmins(o) # {} /\ ActiveAdmins(o)' = {} =>
            \E q \in Requests : /\ phase[q] = "checked" /\ phase'[q] = "idle"
                                /\ \/ ask[q].kind = "delete"
                                   \/ ask[q].caller \notin ActiveAdmins(o)]_vars
  BY LastAdminStep
<1> QED BY Invariance, <1>1, PTL DEF Spec, LastAdminLeaves

-----------------------------------------------------------------------------
(* Offers.  A request that accepts an invitation somebody else has used up *)
(* meanwhile brings an account without taking an offer away.               *)

Stale(e, o) ==
    {q \in Requests : /\ phase[q] = "checked" /\ ask[q].kind = "accept"
                      /\ inv[ask[q].inv] # NONE /\ inv[ask[q].inv].status = "accepted"
                      /\ inv[ask[q].inv].email = e /\ inv[ask[q].inv].org = o}

\* Rows and requests are about organizations that exist.
OrgsGiven ==
    /\ \A u \in Users : Exists(u) => user[u].org \in orgs
    /\ \A i \in Invs : inv[i] # NONE => inv[i].org \in orgs
    /\ \A q \in Requests :
          (phase[q] = "admitted" \/ (phase[q] = "checked" /\ ask[q].kind = "invite"))
             => ask[q].org \in orgs

\* The unique index of users.email.
OneAddressEach ==
    \A u, v \in Users : Exists(u) /\ Exists(v) /\ user[u].email = user[v].email => u = v

\* A stale acceptance keeps a place free.
Room(e, o) ==
    LET offers == Cardinality(Pending(e, o)) + Cardinality(Inviters(e, o))
    IN  /\ IsFiniteSet(Pending(e, o)) /\ IsFiniteSet(Places(e, o))
        /\ offers + Cardinality(Places(e, o)) <= Cardinality(Requests)
        /\ Stale(e, o) # {} => offers + 1 <= Cardinality(Requests)

OffersInv == OrgsGiven /\ OneAddressEach /\ \A o \in Orgs, e \in Emails : Room(e, o)

LEMMA OffersInit == Init => OffersInv
<1> SUFFICES ASSUME Init PROVE OffersInv
  OBVIOUS
<1>1. OrgsGiven /\ OneAddressEach
  BY DEF Init, OrgsGiven, OneAddressEach, Exists
<1>2. ASSUME NEW o \in Orgs, NEW e \in Emails PROVE Room(e, o)
  <2>1. Pending(e, o) = {} /\ Places(e, o) = {} /\ Inviters(e, o) = {} /\ Stale(e, o) = {}
    BY DEF Init, Pending, IsPending, Places, Members, Exists, Inviters, Stale
  <2> QED BY <2>1, FS_EmptySet, FS_CardinalityType, FiniteAssumption DEF Room
<1> QED BY <1>1, <1>2 DEF OffersInv

\* Requests are finitely many, and so are those that invite.
LEMMA InvitersFinite ==
    ASSUME NEW e, NEW o
    PROVE  /\ Cardinality(Requests) \in Nat /\ IsFiniteSet(Inviters(e, o))
           /\ Cardinality(Inviters(e, o)) \in Nat
BY FS_Subset, FS_CardinalityType, FiniteAssumption DEF Inviters

\* What only takes away leaves room.
LEMMA RoomShrinks ==
    ASSUME NEW e, NEW o, Room(e, o),
           Pending(e, o)' \subseteq Pending(e, o), Places(e, o)' \subseteq Places(e, o),
           Inviters(e, o)' \subseteq Inviters(e, o), Stale(e, o)' # {} => Stale(e, o) # {}
    PROVE  Room(e, o)'
<1>1. /\ IsFiniteSet(Pending(e, o)') /\ Cardinality(Pending(e, o)') <= Cardinality(Pending(e, o))
      /\ IsFiniteSet(Places(e, o)') /\ Cardinality(Places(e, o)') <= Cardinality(Places(e, o))
      /\ Cardinality(Inviters(e, o)') <= Cardinality(Inviters(e, o))
      /\ IsFiniteSet(Inviters(e, o)')
  BY FS_Subset, InvitersFinite DEF Room
<1>2. /\ Cardinality(Pending(e, o)) \in Nat /\ Cardinality(Pending(e, o)') \in Nat
      /\ Cardinality(Places(e, o)) \in Nat /\ Cardinality(Places(e, o)') \in Nat
      /\ Cardinality(Inviters(e, o)) \in Nat /\ Cardinality(Inviters(e, o)') \in Nat
      /\ Cardinality(Requests) \in Nat
  BY <1>1, FS_CardinalityType, InvitersFinite DEF Room
<1> QED BY <1>1, <1>2 DEF Room

\* One address, one account.
LEMMA OnePlace ==
    ASSUME NEW e, NEW o, NEW u, Places(e, o)' = {u}
    PROVE  IsFiniteSet(Places(e, o)') /\ Cardinality(Places(e, o)') = 1
BY FS_Singleton

\* What a check has just seen.
LEMMA AdminAsksSeen ==
    ASSUME NEW n, Admitted(n), NEW a \in AdminAsks(n)
    PROVE  /\ a.kind # "accept"
           /\ a.kind = "invite" =>
                 /\ a.org = n.org /\ Pending(a.email, a.org) = {} /\ Places(a.email, a.org) = {}
<1> USE DEF Admitted
<1>1. CASE a \in InviteUser(n)
  <2>1. PICK e \in Emails, r \in Roles : a = Inviting(n, e, r)
    BY <1>1 DEF InviteUser
  <2>2. CanInvite(a)
    BY <1>1 DEF InviteUser
  <2>3. a.kind = "invite" /\ a.org = n.org
    BY <2>1 DEF Inviting
  <2> QED BY <2>2, <2>3 DEF CanInvite, Places
<1>2. CASE a \in Cancel(n)
  <2>1. PICK i \in Invs : a = [n EXCEPT !.kind = "cancel", !.inv = i]
    BY <1>2 DEF Cancel
  <2> QED BY <2>1
<1>3. CASE a \in ChangeRole(n)
  <2>1. PICK u \in Users, r \in Roles : a = Changing(n, u, r)
    BY <1>3 DEF ChangeRole
  <2> QED BY <2>1 DEF Changing
<1>4. CASE a \in Deactivate(n) \cup Reactivate(n)
  <2>1. PICK u \in Users : \/ a = [n EXCEPT !.kind = "deactivate", !.user = u]
                           \/ a = [n EXCEPT !.kind = "reactivate", !.user = u]
    BY <1>4 DEF Deactivate, Reactivate
  <2> QED BY <2>1
<1> QED BY <1>1, <1>2, <1>3, <1>4 DEF AdminAsks

LEMMA OwnAsksSeen ==
    ASSUME NEW a \in SignUp \cup AcceptInvite \cup DeleteOwn
    PROVE  /\ a.kind # "invite"
           /\ a.kind = "accept" => inv[a.inv].status = "pending"
<1> USE DEF Nothing
<1>1. CASE a \in SignUp
  <2>1. PICK e \in Emails : a = [Nothing EXCEPT !.kind = "register", !.email = e]
    BY <1>1 DEF SignUp
  <2> QED BY <2>1
<1>2. CASE a \in AcceptInvite
  <2>1. CanAccept(a)
    BY <1>2 DEF AcceptInvite
  <2>2. PICK i \in Invs : a = [Nothing EXCEPT !.kind = "accept", !.inv = i]
    BY <1>2 DEF AcceptInvite
  <2> QED BY <2>1, <2>2 DEF CanAccept, ValidPending, IsPending
<1>3. CASE a \in DeleteOwn
  <2>1. PICK c \in Users : a = [Nothing EXCEPT !.kind = "delete", !.caller = c]
    BY <1>3 DEF DeleteOwn
  <2> QED BY <2>1
<1> QED BY <1>1, <1>2, <1>3

\* An offer is begun only when there is none, by a request that was not inviting.
LEMMA RoomForOne ==
    ASSUME NEW e, NEW o, NEW q \in Requests, q \notin Inviters(e, o),
           UNCHANGED <<Pending(e, o), Places(e, o)>>, Pending(e, o) = {}, Places(e, o) = {},
           Inviters(e, o)' = Inviters(e, o) \cup {q},
           Stale(e, o)' \cap Inviters(e, o)' = {}
    PROVE  Room(e, o)'
<1>1. Cardinality(Pending(e, o)') = 0 /\ Cardinality(Places(e, o)') = 0
      /\ IsFiniteSet(Pending(e, o)') /\ IsFiniteSet(Places(e, o)')
  BY FS_EmptySet
<1>2. Inviters(e, o)' \subseteq Requests /\ Stale(e, o)' \subseteq Requests
  BY DEF Inviters, Stale
<1>3. /\ Cardinality(Requests) \in Nat /\ Cardinality(Inviters(e, o)') \in Nat
      /\ Cardinality(Inviters(e, o)') <= Cardinality(Requests)
  BY <1>2, FS_Subset, FS_CardinalityType, FiniteAssumption
<1>4. ASSUME Stale(e, o)' # {} PROVE Cardinality(Inviters(e, o)') + 1 <= Cardinality(Requests)
  <2>1. PICK r \in Stale(e, o)' : r \in Requests /\ r \notin Inviters(e, o)'
    BY <1>2, <1>4
  <2>2. IsFiniteSet(Inviters(e, o)')
    BY <1>2, FS_Subset, FiniteAssumption
  <2>3. Cardinality(Inviters(e, o)' \cup {r}) = Cardinality(Inviters(e, o)') + 1
    BY <2>1, <2>2, FS_AddElement
  <2>4. Inviters(e, o)' \cup {r} \in SUBSET Requests
    BY <1>2, <2>1
  <2>5. Cardinality(Inviters(e, o)' \cup {r}) <= Cardinality(Requests)
    BY <2>4, FS_Subset, FiniteAssumption
  <2> QED BY <2>3, <2>5
<1> QED BY <1>1, <1>3, <1>4 DEF Room

LEMMA CheckOffers ==
    ASSUME IInv, OffersInv, NEW q \in Requests, Check(q) PROVE OffersInv'
<1>1. PICK a : /\ ask' = [ask EXCEPT ![q] = a]
               /\ a.kind = "invite" => /\ a.org \in orgs /\ Pending(a.email, a.org) = {}
                                       /\ Places(a.email, a.org) = {}
               /\ a.kind = "accept" => inv[a.inv].status = "pending"
  <2>1. CASE phase[q] = "admitted"
    <3>1. Admitted(ask[q]) /\ ask[q].org \in orgs
      BY <2>1 DEF IInv, Requested, OffersInv, OrgsGiven
    <3>2. PICK a \in AdminAsks(ask[q]) : ask' = [ask EXCEPT ![q] = a]
      BY <2>1 DEF Check
    <3> QED BY <3>1, <3>2, AdminAsksSeen
  <2>2. CASE phase[q] = "idle"
    BY <2>2, OwnAsksSeen DEF Check
  <2> QED BY <2>1, <2>2 DEF Check
<1>2. /\ phase' = [phase EXCEPT ![q] = "checked"] /\ phase[q] # "checked"
      /\ UNCHANGED <<user, inv, orgs, used>>
  BY DEF Check, rows
<1>3. /\ \A r \in Requests \ {q} : phase'[r] = phase[r] /\ ask'[r] = ask[r]
      /\ phase'[q] = "checked" /\ ask'[q] = a
  BY <1>1, <1>2 DEF IInv, TypeOK
<1>4. OrgsGiven' /\ OneAddressEach'
  BY <1>1, <1>2, <1>3 DEF OffersInv, OrgsGiven, OneAddressEach, Exists
<1>5. ASSUME NEW o \in Orgs, NEW e \in Emails PROVE Room(e, o)'
  <2>1. Room(e, o) /\ UNCHANGED <<Pending(e, o), Places(e, o)>>
    BY <1>2 DEF OffersInv, Pending, IsPending, Places, Members, Exists
  <2>2. Stale(e, o)' = Stale(e, o)
    BY <1>1, <1>2, <1>3 DEF Stale
  <2>3. CASE a.kind = "invite" /\ a.email = e /\ a.org = o
    <3>1. q \notin Inviters(e, o) /\ Inviters(e, o)' = Inviters(e, o) \cup {q}
      BY <1>2, <1>3, <2>3 DEF Inviters
    <3>2. Stale(e, o)' \cap Inviters(e, o)' = {}
      BY DEF Stale, Inviters
    <3> QED BY <1>1, <2>1, <2>3, <3>1, <3>2, RoomForOne
  <2>4. CASE ~(a.kind = "invite" /\ a.email = e /\ a.org = o)
    <3>1. Inviters(e, o)' = Inviters(e, o)
      BY <1>2, <1>3, <2>4 DEF Inviters
    <3> QED BY <2>1, <2>2, <3>1, RoomShrinks
  <2> QED BY <2>3, <2>4
<1> QED BY <1>4, <1>5 DEF OffersInv

\* The requests after the commit of q, which is over.
LEMMA DoneRequests ==
    ASSUME IInv, NEW q \in Requests, Done(q)
    PROVE  /\ \A r \in Requests \ {q} : phase'[r] = phase[r] /\ ask'[r] = ask[r]
           /\ phase'[q] = "idle"
           /\ \A e, o : Inviters(e, o)' = Inviters(e, o) \ {q}
<1>1. /\ \A r \in Requests \ {q} : phase'[r] = phase[r] /\ ask'[r] = ask[r]
      /\ phase'[q] = "idle"
  BY DEF Done, IInv, TypeOK
<1> QED BY <1>1 DEF Inviters

\* A registration founds an organization that nothing is about yet.
LEMMA RegisterOffers ==
    ASSUME IInv, OffersInv, NEW q \in Requests, Done(q), Register(ask[q]), WellFormed(ask[q])
    PROVE  OffersInv'
<1> DEFINE a == ask[q]
<1>1. PICK u \in Users \ used, f \in Orgs \ orgs :
          /\ user' = [user EXCEPT ![u] = [email |-> a.email, org |-> f, role |-> "admin",
                                          active |-> TRUE, from |-> NONE]]
          /\ orgs' = orgs \cup {f}
  BY DEF Register
<1>2. inv' = inv /\ ~Taken(a.email)
  BY DEF Register
<1>3. /\ \A v \in Users \ {u} : user'[v] = user[v]
      /\ user'[u].email = a.email /\ user'[u].org = f /\ ~Exists(u) /\ Exists(u)'
  <2>1. user'[u] = [email |-> a.email, org |-> f, role |-> "admin", active |-> TRUE, from |-> NONE]
        /\ \A v \in Users \ {u} : user'[v] = user[v]
    BY <1>1 DEF IInv, TypeOK
  <2>2. a.email \in Emails
    BY DEF Register, WellFormed
  <2>3. user'[u] \in User
    BY <2>1, <2>2 DEF User, Roles
  <2>4. user'[u] # NONE
    BY <2>3, NoneAssumption
  <2> QED BY <2>1, <2>4 DEF IInv, IdsUsed, Exists
<1>4. OrgsGiven' /\ OneAddressEach'
  BY <1>1, <1>2, <1>3, DoneRequests
  DEF OffersInv, OrgsGiven, OneAddressEach, Exists, Taken
<1>5. ASSUME NEW o \in Orgs, NEW e \in Emails PROVE Room(e, o)'
  <2>1. Room(e, o) /\ Pending(e, o)' = Pending(e, o) /\ Inviters(e, o)' \subseteq Inviters(e, o)
    BY <1>2, DoneRequests DEF OffersInv, Pending, IsPending
  <2>2. Stale(e, o)' \subseteq Stale(e, o)
    BY <1>2, DoneRequests DEF Stale
  <2>3. CASE a.email # e \/ f # o
    <3>1. Places(e, o)' = Places(e, o)
      BY <1>3, <2>3 DEF Places, Members, Exists
    <3> QED BY <2>1, <2>2, <3>1, RoomShrinks
  <2>4. CASE a.email = e /\ f = o
    <3>1. Places(e, o)' = {u}
      BY <1>2, <1>3, <2>4 DEF Places, Members, Exists, Taken
    <3>2. Pending(e, o)' = {} /\ Stale(e, o)' = {} /\ Inviters(e, o)' = {}
      <4>1. o \notin orgs
        BY <2>4
      <4>2. Pending(e, o) = {} /\ Inviters(e, o) = {}
        BY <4>1 DEF Pending, IsPending, Inviters, OffersInv, OrgsGiven
      <4>3. Stale(e, o) = {}
        <5> SUFFICES ASSUME NEW r \in Stale(e, o) PROVE FALSE
          OBVIOUS
        <5>1. ask[r].inv \in Invs
          BY DEF Stale, IInv, Requested, WellFormed
        <5> QED BY <4>1, <5>1 DEF Stale, OffersInv, OrgsGiven
      <4> QED BY <2>1, <2>2, <4>2, <4>3
    <3>3. Cardinality(Requests) \in Nat /\ Cardinality(Requests) # 0
      BY FS_EmptySet, FS_CardinalityType, FiniteAssumption
    <3>4. IsFiniteSet(Places(e, o)') /\ Cardinality(Places(e, o)') = 1
      BY <3>1, OnePlace
    <3>5. /\ IsFiniteSet(Pending(e, o)') /\ Cardinality(Pending(e, o)') = 0
          /\ Cardinality(Inviters(e, o)') = 0
      BY <3>2, FS_EmptySet
    <3>6. Cardinality(Requests) >= 1
      BY <3>3
    <3> QED BY <3>2, <3>3, <3>4, <3>5, <3>6 DEF Room
  <2> QED BY <2>3, <2>4
<1> QED BY <1>4, <1>5 DEF OffersInv

\* The request that was about to invite makes way for its invitation.
LEMMA InviteOffers ==
    ASSUME IInv, OffersInv, NEW q \in Requests, Done(q), CreateTeamInvitation(ask[q]),
           WellFormed(ask[q]), phase[q] = "checked"
    PROVE  OffersInv'
<1> DEFINE a == ask[q]
<1>1. PICK i \in Invs \ used :
          inv' = [inv EXCEPT ![i] = [email |-> a.email, org |-> a.org, role |-> a.role,
                                     by |-> a.caller, status |-> "pending", expired |-> FALSE]]
  BY DEF CreateTeamInvitation
<1>2. UNCHANGED <<user, orgs>> /\ a.kind = "invite"
  BY DEF CreateTeamInvitation
<1>3. /\ \A j \in Invs \ {i} : inv'[j] = inv[j]
      /\ inv[i] = NONE /\ inv'[i] # NONE
      /\ inv'[i].email = a.email /\ inv'[i].org = a.org /\ inv'[i].status = "pending"
  <2>1. inv'[i] = [email |-> a.email, org |-> a.org, role |-> a.role,
                   by |-> a.caller, status |-> "pending", expired |-> FALSE]
        /\ \A j \in Invs \ {i} : inv'[j] = inv[j]
    BY <1>1 DEF IInv, TypeOK
  <2>2. inv'[i] \in Invite
    BY <1>2, <2>1 DEF Invite, WellFormed
  <2>3. inv'[i] # NONE
    BY <2>2, NoneAssumption
  <2> QED BY <2>1, <2>3 DEF IInv, IdsUsed
<1>4. OrgsGiven' /\ OneAddressEach'
  BY <1>2, <1>3, DoneRequests DEF OffersInv, OrgsGiven, OneAddressEach, Exists
<1>5. ASSUME NEW o \in Orgs, NEW e \in Emails PROVE Room(e, o)'
  <2>1. Room(e, o) /\ Places(e, o)' = Places(e, o)
    BY <1>2 DEF OffersInv, Places, Members, Exists
  <2>2. Stale(e, o)' \subseteq Stale(e, o)
    <3> SUFFICES ASSUME NEW r \in Stale(e, o)' PROVE r \in Stale(e, o)
      OBVIOUS
    <3>1. r \in Requests \ {q} /\ phase[r] = "checked" /\ ask'[r] = ask[r] /\ ask[r].kind = "accept"
      BY DoneRequests DEF Stale
    <3>2. ask[r].inv \in Invs
      BY <3>1 DEF IInv, Requested, WellFormed
    <3> QED BY <1>3, <3>1, <3>2 DEF Stale
  <2>3. CASE a.email # e \/ a.org # o
    <3>1. Pending(e, o)' = Pending(e, o)
      BY <1>3, <2>3 DEF Pending, IsPending
    <3> QED BY <2>1, <2>2, <3>1, DoneRequests, RoomShrinks
  <2>4. CASE a.email = e /\ a.org = o
    <3>1. Pending(e, o)' = Pending(e, o) \cup {i} /\ i \notin Pending(e, o)
      BY <1>3, <2>4 DEF Pending, IsPending
    <3>2. q \in Inviters(e, o) /\ Inviters(e, o)' = Inviters(e, o) \ {q}
      BY <1>2, <2>4, DoneRequests DEF Inviters
    <3>3. /\ Cardinality(Pending(e, o)') = Cardinality(Pending(e, o)) + 1
          /\ IsFiniteSet(Pending(e, o)')
      BY <2>1, <3>1, FS_AddElement DEF Room
    <3>4. Cardinality(Inviters(e, o)') = Cardinality(Inviters(e, o)) - 1
      BY <3>2, FS_RemoveElement, InvitersFinite
    <3>5. /\ Cardinality(Pending(e, o)) \in Nat /\ Cardinality(Inviters(e, o)) \in Nat
          /\ Cardinality(Places(e, o)) \in Nat /\ Cardinality(Requests) \in Nat
      BY <2>1, FS_CardinalityType, InvitersFinite DEF Room
    <3>6. Cardinality(Pending(e, o)') + Cardinality(Inviters(e, o)')
            = Cardinality(Pending(e, o)) + Cardinality(Inviters(e, o))
      BY <3>3, <3>4, <3>5
    <3>7. Stale(e, o)' # {} => Stale(e, o) # {}
      BY <2>2
    <3> QED BY <2>1, <3>3, <3>6, <3>7 DEF Room
  <2> QED BY <2>3, <2>4
<1> QED BY <1>4, <1>5 DEF OffersInv

\* An account takes the place of the offer it comes from, or the one a stale acceptance has kept.
LEMMA AcceptOffers ==
    ASSUME IInv, OffersInv, NEW q \in Requests, Done(q), AcceptInvitation(ask[q]),
           WellFormed(ask[q]), phase[q] = "checked"
    PROVE  OffersInv'
<1> DEFINE i == ask[q].inv
<1>1. /\ i \in Invs /\ inv[i] \in Invite /\ inv[i] # NONE /\ ~Taken(inv[i].email)
      /\ orgs' = orgs /\ ask[q].kind = "accept"
  BY DEF AcceptInvitation, WellFormed, IInv, TypeOK
<1>2. PICK u \in Users \ used :
          user' = [user EXCEPT ![u] = [email |-> inv[i].email, org |-> inv[i].org,
                                       role |-> inv[i].role, active |-> TRUE, from |-> i]]
  BY DEF AcceptInvitation
<1>3. /\ \A v \in Users \ {u} : user'[v] = user[v]
      /\ user'[u].email = inv[i].email /\ user'[u].org = inv[i].org /\ ~Exists(u) /\ Exists(u)'
  <2>1. user'[u] = [email |-> inv[i].email, org |-> inv[i].org, role |-> inv[i].role,
                    active |-> TRUE, from |-> i]
        /\ \A v \in Users \ {u} : user'[v] = user[v]
    BY <1>2 DEF IInv, TypeOK
  <2>2. user'[u] \in User
    BY <1>1, <2>1 DEF User, Invite
  <2>3. user'[u] # NONE
    BY <2>2, NoneAssumption
  <2> QED BY <2>1, <2>3 DEF IInv, IdsUsed, Exists
<1>4. /\ inv'[i].status = "accepted" /\ inv'[i].email = inv[i].email /\ inv'[i].org = inv[i].org
      /\ inv'[i] # NONE /\ \A j \in Invs \ {i} : inv'[j] = inv[j]
  <2>1. inv'[i] = [inv[i] EXCEPT !.status = "accepted"] /\ \A j \in Invs \ {i} : inv'[j] = inv[j]
    BY <1>1 DEF AcceptInvitation, IInv, TypeOK
  <2>2. inv'[i] \in Invite /\ inv'[i].status = "accepted"
        /\ inv'[i].email = inv[i].email /\ inv'[i].org = inv[i].org
    BY <1>1, <2>1 DEF Invite
  <2> QED BY <2>1, <2>2, NoneAssumption
<1>5. OrgsGiven' /\ OneAddressEach'
  BY <1>1, <1>3, <1>4, DoneRequests DEF OffersInv, OrgsGiven, OneAddressEach, Exists, Taken
<1>6. ASSUME NEW o \in Orgs, NEW e \in Emails PROVE Room(e, o)'
  <2>1. Room(e, o) /\ Inviters(e, o)' \subseteq Inviters(e, o)
    BY DoneRequests DEF OffersInv
  <2>2. CASE inv[i].email # e \/ inv[i].org # o
    <3>1. Pending(e, o)' = Pending(e, o) /\ Places(e, o)' = Places(e, o)
      BY <1>1, <1>3, <1>4, <2>2 DEF Pending, IsPending, Places, Members, Exists
    <3>2. Stale(e, o)' \subseteq Stale(e, o)
      <4> SUFFICES ASSUME NEW r \in Stale(e, o)' PROVE r \in Stale(e, o)
        OBVIOUS
      <4>1. r \in Requests \ {q} /\ phase[r] = "checked" /\ ask'[r] = ask[r] /\ ask[r].kind = "accept"
        BY DoneRequests DEF Stale
      <4>2. ask[r].inv \in Invs
        BY <4>1 DEF IInv, Requested, WellFormed
      <4> QED BY <1>4, <2>2, <4>1, <4>2 DEF Stale
    <3> QED BY <2>1, <3>1, <3>2, RoomShrinks
  <2>3. CASE inv[i].email = e /\ inv[i].org = o
    <3>1. Places(e, o)' = {u}
      BY <1>1, <1>3, <2>3 DEF Places, Members, Exists, Taken
    <3>2. Pending(e, o)' = Pending(e, o) \ {i}
      BY <1>1, <1>4, <2>3 DEF Pending, IsPending
    <3>3. /\ Cardinality(Pending(e, o)) \in Nat /\ IsFiniteSet(Pending(e, o)')
          /\ Cardinality(Pending(e, o)') = IF i \in Pending(e, o) THEN Cardinality(Pending(e, o)) - 1
                                                                   ELSE Cardinality(Pending(e, o))
      BY <2>1, <3>2, FS_RemoveElement, FS_CardinalityType DEF Room
    <3>4. /\ Cardinality(Inviters(e, o)') <= Cardinality(Inviters(e, o))
          /\ Cardinality(Inviters(e, o)) \in Nat /\ Cardinality(Inviters(e, o)') \in Nat
          /\ Cardinality(Places(e, o)) \in Nat /\ Cardinality(Requests) \in Nat
      BY <2>1, FS_Subset, FS_CardinalityType, InvitersFinite DEF Room
    <3>5. i \in Pending(e, o) \/ Stale(e, o) # {}
      <4>1. CASE inv[i].status = "pending"
        BY <1>1, <2>3, <4>1 DEF Pending, IsPending
      <4>2. CASE inv[i].status = "accepted"
        <5>1. q \in Stale(e, o)
          BY <1>1, <2>3, <4>2 DEF Stale
        <5> QED BY <5>1
      <4> QED BY <1>1, <4>1, <4>2 DEF Invite
    <3>6. Cardinality(Pending(e, o)') + Cardinality(Inviters(e, o)') + 1 <= Cardinality(Requests)
      <4>1. CASE i \in Pending(e, o)
        BY <2>1, <3>3, <3>4, <4>1 DEF Room
      <4>2. CASE i \notin Pending(e, o)
        BY <2>1, <3>3, <3>4, <3>5, <4>2 DEF Room
      <4> QED BY <4>1, <4>2
    <3>7. IsFiniteSet(Places(e, o)') /\ Cardinality(Places(e, o)') = 1
      BY <3>1, OnePlace
    <3> QED BY <3>3, <3>6, <3>7 DEF Room
  <2> QED BY <2>2, <2>3
<1> QED BY <1>5, <1>6 DEF OffersInv

\* The other writes add neither a place nor an offer.
LEMMA EditOffers ==
    ASSUME IInv, OffersInv, NEW q \in Requests, Done(q), WellFormed(ask[q]),
           CancelInvitation(ask[q]) \/ UpdateUserRole(ask[q]) \/ SetActive(ask[q])
              \/ DeleteAccount(ask[q])
    PROVE  OffersInv'
<1> DEFINE a == ask[q]
<1>1. Kept /\ UNCHANGED <<used, orgs>>
  BY EditKeeps DEF CancelInvitation, UpdateUserRole, SetActive, DeleteAccount
<1>2. \A u \in Users : Exists(u)' =>
         Exists(u) /\ user'[u].email = user[u].email /\ user'[u].org = user[u].org
  <2>1. CASE CancelInvitation(a)
    BY <2>1 DEF CancelInvitation, Exists
  <2>2. CASE UpdateUserRole(a) \/ SetActive(a)
    <3>1. a.user \in Users /\ Exists(a.user)
      BY <2>2 DEF UpdateUserRole, SetActive, WellFormed
    <3>2. \A u \in Users \ {a.user} : user'[u] = user[u]
      BY <2>2 DEF UpdateUserRole, SetActive, IInv, TypeOK
    <3> QED BY <1>1, <3>1, <3>2 DEF Kept, Exists
  <2>3. CASE DeleteAccount(a)
    BY <2>3 DEF DeleteAccount, WellFormed, Exists, IInv, TypeOK
  <2> QED BY <2>1, <2>2, <2>3
<1>3. \A i \in Invs : inv'[i] # NONE =>
         inv[i] # NONE /\ inv'[i].status = inv[i].status
         /\ inv'[i].email = inv[i].email /\ inv'[i].org = inv[i].org
  BY <1>1 DEF Kept
<1>4. OrgsGiven' /\ OneAddressEach'
  BY <1>1, <1>2, <1>3, DoneRequests DEF OffersInv, OrgsGiven, OneAddressEach
<1>5. ASSUME NEW o \in Orgs, NEW e \in Emails PROVE Room(e, o)'
  <2>1. Room(e, o) /\ Inviters(e, o)' \subseteq Inviters(e, o)
    BY DoneRequests DEF OffersInv
  <2>2. Pending(e, o)' \subseteq Pending(e, o) /\ Places(e, o)' \subseteq Places(e, o)
    BY <1>2, <1>3 DEF Pending, IsPending, Places, Members
  <2>3. Stale(e, o)' \subseteq Stale(e, o)
    <3> SUFFICES ASSUME NEW r \in Stale(e, o)' PROVE r \in Stale(e, o)
      OBVIOUS
    <3>1. r \in Requests \ {q} /\ phase[r] = "checked" /\ ask'[r] = ask[r] /\ ask[r].kind = "accept"
      BY DoneRequests DEF Stale
    <3>2. ask[r].inv \in Invs
      BY <3>1 DEF IInv, Requested, WellFormed
    <3> QED BY <1>3, <3>1, <3>2 DEF Stale
  <2> QED BY <2>1, <2>2, <2>3, RoomShrinks
<1> QED BY <1>4, <1>5 DEF OffersInv

LEMMA OffersStep ==
    ASSUME IInv, OffersInv, [Next]_vars PROVE OffersInv'
<1>1. ASSUME NEW q \in Requests, Admit(q) PROVE OffersInv'
  <2>1. PICK c \in Users : /\ Exists(c)
                           /\ ask' = [ask EXCEPT ![q] = [Nothing EXCEPT !.caller = c,
                                                                       !.org = user[c].org]]
    BY <1>1 DEF Admit, RequireAdmin, Authenticated
  <2>2. /\ \A r \in Requests \ {q} : phase'[r] = phase[r] /\ ask'[r] = ask[r]
        /\ phase[q] = "idle" /\ phase'[q] = "admitted" /\ ask'[q].org = user[c].org
        /\ UNCHANGED <<user, inv, orgs, used>>
    BY <1>1, <2>1 DEF Admit, rows, Nothing, IInv, TypeOK
  <2>3. OrgsGiven' /\ OneAddressEach'
    BY <2>1, <2>2 DEF OffersInv, OrgsGiven, OneAddressEach, Exists
  <2>4. ASSUME NEW o \in Orgs, NEW e \in Emails PROVE Room(e, o)'
    <3>1. Room(e, o) /\ UNCHANGED <<Pending(e, o), Places(e, o)>>
      BY <2>2 DEF OffersInv, Pending, IsPending, Places, Members, Exists
    <3>2. Inviters(e, o)' = Inviters(e, o) /\ Stale(e, o)' = Stale(e, o)
      BY <2>2 DEF Inviters, Stale
    <3> QED BY <3>1, <3>2, RoomShrinks
  <2> QED BY <2>3, <2>4 DEF OffersInv
<1>2. ASSUME NEW q \in Requests, Commit(q) PROVE OffersInv'
  <2>1. phase[q] = "checked" /\ Apply(ask[q]) /\ Done(q) /\ WellFormed(ask[q])
    BY <1>2 DEF Commit, IInv, Requested
  <2> QED BY <2>1, RegisterOffers, InviteOffers, AcceptOffers, EditOffers DEF Apply
<1>3. ASSUME NEW q \in Requests, Fails(q) PROVE OffersInv'
  <2>1. Done(q) /\ UNCHANGED <<user, inv, orgs, used>>
    BY <1>3 DEF Fails, rows
  <2>2. OrgsGiven' /\ OneAddressEach'
    BY <2>1, DoneRequests DEF OffersInv, OrgsGiven, OneAddressEach, Exists
  <2>3. ASSUME NEW o \in Orgs, NEW e \in Emails PROVE Room(e, o)'
    <3>1. Room(e, o) /\ UNCHANGED <<Pending(e, o), Places(e, o)>>
      BY <2>1 DEF OffersInv, Pending, IsPending, Places, Members, Exists
    <3>2. Inviters(e, o)' \subseteq Inviters(e, o) /\ Stale(e, o)' \subseteq Stale(e, o)
      BY <2>1, DoneRequests DEF Stale
    <3> QED BY <3>1, <3>2, RoomShrinks
  <2> QED BY <2>2, <2>3 DEF OffersInv
<1>4. ASSUME NEW i \in Invs, InvitationExpires(i) PROVE OffersInv'
  <2>1. UNCHANGED <<user, orgs, phase, ask>>
    BY <1>4 DEF InvitationExpires
  <2>2. inv[i] \in Invite /\ inv' = [inv EXCEPT ![i].expired = TRUE]
    BY <1>4 DEF InvitationExpires, IsPending, IInv, TypeOK
  <2>3. inv'[i] \in Invite
    BY <2>2 DEF IInv, TypeOK, Invite
  <2>4. \A j \in Invs : (inv'[j] # NONE <=> inv[j] # NONE) /\ (inv[j] # NONE =>
           /\ inv'[j].status = inv[j].status
           /\ inv'[j].email = inv[j].email /\ inv'[j].org = inv[j].org)
    BY <2>2, <2>3, NoneAssumption DEF IInv, TypeOK, Invite
  <2>5. OrgsGiven' /\ OneAddressEach'
    BY <2>1, <2>4 DEF OffersInv, OrgsGiven, OneAddressEach, Exists
  <2>6. ASSUME NEW o \in Orgs, NEW e \in Emails PROVE Room(e, o)'
    <3>1. Room(e, o) /\ Pending(e, o)' = Pending(e, o)
      BY <2>4 DEF OffersInv, Pending, IsPending
    <3>2. Places(e, o)' = Places(e, o) /\ Inviters(e, o)' = Inviters(e, o)
      BY <2>1 DEF Places, Members, Exists, Inviters
    <3>3. Stale(e, o)' \subseteq Stale(e, o)
      <4> SUFFICES ASSUME NEW r \in Stale(e, o)' PROVE r \in Stale(e, o)
        OBVIOUS
      <4>1. r \in Requests /\ phase[r] = "checked" /\ ask'[r] = ask[r] /\ ask[r].kind = "accept"
        BY <2>1 DEF Stale
      <4>2. ask[r].inv \in Invs
        BY <4>1 DEF IInv, Requested, WellFormed
      <4> QED BY <2>4, <4>1, <4>2 DEF Stale
    <3> QED BY <3>1, <3>2, <3>3, RoomShrinks
  <2> QED BY <2>5, <2>6 DEF OffersInv
<1>5. CASE UNCHANGED vars
  <2>1. UNCHANGED <<user, inv, orgs, phase, ask>>
    BY <1>5 DEF vars, rows
  <2> QED BY <2>1 DEF OffersInv, OrgsGiven, OneAddressEach, Room, Exists, Pending, IsPending,
                      Places, Members, Inviters, Stale
<1> QED BY <1>1, <1>2, <1>3, <1>4, <1>5, CheckOffers DEF Next

(* However many requests overlap, an address has no more places, offers    *)
(* and offers under way in an organization than there are requests: an     *)
(* offer is begun only when there is none, so each but one is owed to      *)
(* another request that had looked before; and one who accepts an          *)
(* invitation that is used up has kept a place free all along.             *)
THEOREM OffersStayBounded == Spec => []OffersBounded
<1>1. IInv /\ OffersInv /\ [Next]_vars => OffersInv'
  BY OffersStep
<1>2. IInv /\ OffersInv => OffersBounded
  <2> SUFFICES ASSUME OffersInv, NEW o \in Orgs, NEW e \in Emails
               PROVE  Cardinality(Pending(e, o)) + Cardinality(Places(e, o))
                        + Cardinality(Inviters(e, o)) <= Cardinality(Requests)
    BY DEF OffersBounded
  <2>1. Room(e, o)
    BY DEF OffersInv
  <2>2. /\ Cardinality(Pending(e, o)) \in Nat /\ Cardinality(Places(e, o)) \in Nat
        /\ Cardinality(Inviters(e, o)) \in Nat /\ Cardinality(Requests) \in Nat
    BY <2>1, FS_CardinalityType, InvitersFinite DEF Room
  <2> QED BY <2>1, <2>2 DEF Room
<1> QED BY Invariance, OffersInit, <1>1, <1>2, PTL DEF Spec

-----------------------------------------------------------------------------
(* Sessions.  A token lives RefreshLife seconds at most, and so does the   *)
(* key that revokes it, which is never older.                              *)

AboutUsers == \A q \in Requests : stage[q] # "idle" => about[q] \in Users

Lifetimes ==
    \A t \in Tokens : token[t] # NONE =>
        /\ token[t].iat <= now /\ now <= token[t].exp
        /\ token[t].exp <= token[t].iat + RefreshLife

\* A token that was logged out has a key until the second before its client loses the token.
HasKey(t)  == now + 1 < token[t].exp => blacklist[t] \in {token[t].exp - 1, token[t].exp}
LoggedOut == \A t \in out : token[t] # NONE /\ HasKey(t)

\* The key of a user says when the tokens were last invalidated, until all of those have expired.
KeyOutlives ==
    \A u \in Users :
        \/ /\ invalid[u] = [before |-> ended[u], expires |-> ended[u] + RefreshLife]
           /\ now < ended[u] + RefreshLife
        \/ /\ invalid[u] = NoKey
           /\ ended[u] = 0 \/ ended[u] + RefreshLife <= now

Recording(q, u) == about[q] = u /\ stage[q] \in {"counted", "locking"}

Reached(q, u) == Recording(q, u) /\ count[q] >= MaxFailed

\* A counter at its limit does not outlive the lockout: one who has reached the limit is about
\* to lock the account, or somebody did, in this second if a request is still at work.
CounterSafe(u) ==
    /\ failed[u].expires <= now + Window
    /\ failed[u].n >= MaxFailed =>
          /\ now < failed[u].expires \/ \E q \in Requests : stage[q] = "counted" /\ Reached(q, u)
          /\ \/ \E q \in Requests : Reached(q, u)
             \/ /\ now < failed[u].expires /\ failed[u].expires <= lockout[u]
                /\ (\E q \in Requests : Recording(q, u)) => now + Window <= lockout[u]

RevocationInv == SessionTypeOK /\ AboutUsers /\ Lifetimes /\ LoggedOut /\ KeyOutlives

SessionInv == RevocationInv /\ \A u \in Users : CounterSafe(u)

-----------------------------------------------------------------------------
LEMMA SessionInitInv == SessionInit => SessionInv
<1> SUFFICES ASSUME SessionInit PROVE SessionInv
  OBVIOUS
<1>1. SessionTypeOK
  BY BoundAssumption DEF SessionInit, SessionTypeOK, Stages, NoKey, NoCounter
<1>2. AboutUsers /\ Lifetimes /\ LoggedOut /\ KeyOutlives
  BY DEF SessionInit, AboutUsers, Lifetimes, LoggedOut, KeyOutlives
<1>3. ASSUME NEW u \in Users PROVE CounterSafe(u)
  <2>1. failed[u].n = 0 /\ failed[u].expires = 0 /\ now = 0
    BY DEF SessionInit, NoCounter
  <2>2. ~(failed[u].n >= MaxFailed) /\ failed[u].expires <= now + Window
    BY <2>1, LockAssumption
  <2> QED BY <2>2 DEF CounterSafe
<1> QED BY <1>1, <1>2, <1>3 DEF SessionInv, RevocationInv

(* What a step does to the requests. *)

RequestsType ==
    /\ stage \in [Requests -> Stages]
    /\ about \in [Requests -> Users \cup {NONE}]
    /\ count \in [Requests -> Nat]
    /\ change \in [Requests -> {NONE, "password", "reset", "deactivate"}]

\* Only q has moved.
Moved(q) ==
    /\ RequestsType' /\ AboutUsers'
    /\ \A r \in Requests \ {q} :
          stage'[r] = stage[r] /\ about'[r] = about[r] /\ count'[r] = count[r]

\* q has moved, and not to or from the recording of a failed attempt.
MovedQuietly(q) ==
    /\ Moved(q)
    /\ stage[q] \notin {"counted", "locking"} /\ stage'[q] \notin {"counted", "locking"}

LEMMA StartMoves ==
    ASSUME RevocationInv, NEW q \in Requests, NEW u \in Users, NEW p \in Stages,
           NEW c \in {NONE, "password", "reset", "deactivate"}, Start(q, p, u, c)
    PROVE  Moved(q) /\ stage[q] = "idle" /\ stage'[q] = p
BY DEF RevocationInv, SessionTypeOK, AboutUsers, RequestsType, Moved, Start, GoTo

LEMMA GoToMoves ==
    ASSUME RevocationInv, NEW q \in Requests, NEW p \in Stages, stage[q] # "idle",
           GoTo(q, p), UNCHANGED <<about, change>>, count' \in [Requests -> Nat],
           \A r \in Requests \ {q} : count'[r] = count[r]
    PROVE  Moved(q) /\ stage'[q] = p /\ about'[q] = about[q]
BY DEF RevocationInv, SessionTypeOK, AboutUsers, RequestsType, Moved, GoTo

LEMMA EndsMoves ==
    ASSUME RevocationInv, NEW q \in Requests, Ends(q)
    PROVE  Moved(q) /\ stage'[q] = "idle"
BY DEF RevocationInv, SessionTypeOK, AboutUsers, RequestsType, Moved, GoTo, Ends, Stages

\* Nothing happens to the counter of a user about whom no request records an attempt.
LEMMA CounterKept ==
    ASSUME NEW u \in Users, CounterSafe(u), UNCHANGED <<now, failed[u], lockout[u]>>,
           \A r \in Requests : Recording(r, u) \/ Recording(r, u)' =>
              stage'[r] = stage[r] /\ about'[r] = about[r] /\ count'[r] = count[r]
    PROVE  CounterSafe(u)'
BY DEF CounterSafe, Recording, Reached

LEMMA CountersKept ==
    ASSUME NEW q \in Requests, MovedQuietly(q), UNCHANGED <<now, failed, lockout>>,
           NEW u \in Users, CounterSafe(u)
    PROVE  CounterSafe(u)'
<1>1. \A r \in Requests : Recording(r, u) \/ Recording(r, u)' =>
         stage'[r] = stage[r] /\ about'[r] = about[r] /\ count'[r] = count[r]
  BY DEF MovedQuietly, Moved, Recording
<1> QED BY <1>1, CounterKept

\* Tokens, their keys and the time are as before.
LEMMA RevocationKept ==
    ASSUME RevocationInv, UNCHANGED <<now, ended, out, blacklist, invalid, token>>
    PROVE  Lifetimes' /\ LoggedOut' /\ KeyOutlives'
BY DEF RevocationInv, Lifetimes, LoggedOut, HasKey, KeyOutlives

-----------------------------------------------------------------------------
(* The steps of a request between its reads and its writes. *)

LEMMA QuietMove ==
    ASSUME SessionInv, NEW q \in Requests, MovedQuietly(q),
           UNCHANGED <<clock, redis, token>>, active' \subseteq Users, resets' \subseteq Users
    PROVE  SessionInv'
<1>1. SessionTypeOK' /\ AboutUsers'
  BY DEF MovedQuietly, Moved, RequestsType, SessionInv, RevocationInv, SessionTypeOK, clock, redis
<1>2. Lifetimes' /\ LoggedOut' /\ KeyOutlives'
  BY RevocationKept DEF SessionInv, clock, redis
<1>3. ASSUME NEW u \in Users PROVE CounterSafe(u)'
  BY CountersKept DEF SessionInv, clock, redis
<1> QED BY <1>1, <1>2, <1>3 DEF SessionInv, RevocationInv

LEMMA BeginStep ==
    ASSUME SessionInv, NEW q \in Requests,
           \/ \E u \in Users : Login(q, u) \/ ResetPassword(q, u) \/ DeactivateUser(q, u)
           \/ \E t \in Tokens : Refresh(q, t) \/ ChangePassword(q, t)
    PROVE  SessionInv'
<1>1. ASSUME NEW t \in Tokens, Refresh(q, t) \/ ChangePassword(q, t) PROVE token[t].user \in Users
  BY <1>1 DEF Refresh, ChangePassword, GetCurrentUser, Valid,
              SessionInv, RevocationInv, SessionTypeOK, Token
<1>2. PICK u \in Users, p \in {"open", "ending", "renewing"},
           c \in {NONE, "password", "reset", "deactivate"} : Start(q, p, u, c)
  BY <1>1 DEF Login, ResetPassword, DeactivateUser, Refresh, ChangePassword
<1>3. MovedQuietly(q)
  BY <1>2, StartMoves DEF MovedQuietly, Stages, SessionInv
<1>4. UNCHANGED <<clock, redis, tables, token>>
  BY DEF Login, ResetPassword, DeactivateUser, Refresh, ChangePassword
<1> QED BY <1>3, <1>4, QuietMove DEF tables, SessionInv, RevocationInv, SessionTypeOK

LEMMA GoOnStep ==
    ASSUME SessionInv, NEW q \in Requests,
           WrongPassword(q) \/ RightPassword(q) \/ ReadUser(q) \/ RollsBack(q) \/ CommitChange(q)
    PROVE  SessionInv'
<1>1. stage[q] \notin {"idle", "counted", "locking"}
  BY DEF WrongPassword, RightPassword, ReadUser, RollsBack, CommitChange
<1>2. \/ Ends(q)
      \/ \E p \in {"failed", "welcome", "issuing"} :
            GoTo(q, p) /\ UNCHANGED <<about, count, change>>
  BY DEF WrongPassword, RightPassword, ReadUser, RollsBack, CommitChange
<1>3. MovedQuietly(q)
  <2>1. CASE Ends(q)
    BY <1>1, <2>1, EndsMoves DEF MovedQuietly, SessionInv
  <2>2. ASSUME NEW p \in {"failed", "welcome", "issuing"},
               GoTo(q, p), UNCHANGED <<about, count, change>>
        PROVE  MovedQuietly(q)
    <3>1. p \in Stages /\ count' \in [Requests -> Nat]
      BY <2>2 DEF Stages, SessionInv, RevocationInv, SessionTypeOK
    <3> QED BY <1>1, <2>2, <3>1, GoToMoves DEF MovedQuietly, SessionInv
  <2> QED BY <1>2, <2>1, <2>2
<1>4. UNCHANGED <<clock, redis, token>> /\ active' \subseteq Users /\ resets' \subseteq Users
  BY DEF WrongPassword, RightPassword, ReadUser, RollsBack, CommitChange, tables,
         SessionInv, RevocationInv, SessionTypeOK
<1> QED BY <1>3, <1>4, QuietMove

-----------------------------------------------------------------------------
(* Failed attempts. *)

LEMMA CountAttemptStep ==
    ASSUME SessionInv, NEW q \in Requests, CountAttempt(q) PROVE SessionInv'
<1> DEFINE u == about[q]
           n == failed[u].n + 1
<1>1. /\ stage[q] = "failed" /\ u \in Users /\ failed[u].n \in Nat /\ failed[u].expires \in Nat
      /\ UNCHANGED <<clock, blacklist, invalid, lockout, tables, token, about, change>>
  BY DEF CountAttempt, SessionInv, RevocationInv, AboutUsers, SessionTypeOK
<1>2. /\ GoTo(q, "counted") /\ count' = [count EXCEPT ![q] = n]
      /\ failed' = [failed EXCEPT ![u] = [n |-> n, expires |-> IF n = 1 THEN 0
                                                                ELSE failed[u].expires]]
  BY DEF CountAttempt
<1>3. /\ count' \in [Requests -> Nat] /\ count'[q] = n
      /\ \A r \in Requests \ {q} : count'[r] = count[r]
  BY <1>1, <1>2 DEF SessionInv, RevocationInv, SessionTypeOK
<1>4. Moved(q) /\ stage'[q] = "counted" /\ about'[q] = u
  <2>1. "counted" \in Stages
    BY DEF Stages
  <2> QED BY <1>1, <1>2, <1>3, <2>1, GoToMoves DEF SessionInv
<1>5. /\ failed' \in [Users -> [n : Nat, expires : Nat]]
      /\ failed'[u].n = n /\ failed'[u].expires = IF n = 1 THEN 0 ELSE failed[u].expires
      /\ \A v \in Users \ {u} : failed'[v] = failed[v]
  <2> DEFINE e == IF n = 1 THEN 0 ELSE failed[u].expires
  <2>1. failed' = [failed EXCEPT ![u] = [n |-> n, expires |-> e]] /\ e \in Nat /\ n \in Nat
    BY <1>1, <1>2
  <2> HIDE DEF e, n
  <2>2. failed' \in [Users -> [n : Nat, expires : Nat]]
        /\ failed'[u].n = n /\ failed'[u].expires = e
        /\ \A v \in Users \ {u} : failed'[v] = failed[v]
    BY <1>1, <2>1 DEF SessionInv, RevocationInv, SessionTypeOK
  <2> QED BY <2>2 DEF e
<1>6. SessionTypeOK' /\ AboutUsers'
  BY <1>1, <1>4, <1>5 DEF Moved, RequestsType, SessionInv, RevocationInv, SessionTypeOK,
                          clock, tables
<1>7. Lifetimes' /\ LoggedOut' /\ KeyOutlives'
  BY <1>1, RevocationKept DEF SessionInv, clock
<1>8. ASSUME NEW v \in Users PROVE CounterSafe(v)'
  <2>1. CASE v # u
    <3>1. UNCHANGED <<now, failed[v], lockout[v]>>
      BY <1>1, <1>5, <2>1 DEF clock
    <3>2. \A r \in Requests : Recording(r, v) \/ Recording(r, v)' =>
             stage'[r] = stage[r] /\ about'[r] = about[r] /\ count'[r] = count[r]
      BY <1>1, <1>4, <2>1 DEF Moved, Recording
    <3> QED BY <3>1, <3>2, CounterKept DEF SessionInv
  <2>2. CASE v = u
    <3>1. failed[u].expires <= now + Window /\ now \in Nat /\ Window \in Nat
      BY <1>1, LockAssumption, BoundAssumption
      DEF SessionInv, CounterSafe, RevocationInv, SessionTypeOK
    <3>2. failed'[v].expires <= now' + Window
      BY <1>1, <1>5, <2>2, <3>1 DEF clock
    <3>3. failed'[v].n >= MaxFailed => Reached(q, v)' /\ stage'[q] = "counted"
      BY <1>3, <1>4, <1>5, <2>2 DEF Reached, Recording
    <3> QED BY <3>2, <3>3 DEF CounterSafe
  <2> QED BY <2>1, <2>2
<1> QED BY <1>6, <1>7, <1>8 DEF SessionInv, RevocationInv

\* The window begins anew; the lockout of this second lasts at least as long.
LEMMA SetWindowStep ==
    ASSUME SessionInv, NEW q \in Requests, SetWindow(q) PROVE SessionInv'
<1>0. PICK u \in Users : u = about[q]
  BY DEF SetWindow, SessionInv, RevocationInv, AboutUsers
<1>1. /\ stage[q] = "counted" /\ failed[u].n \in Nat /\ failed[u].expires \in Nat
      /\ UNCHANGED <<clock, blacklist, invalid, lockout, tables, token>>
  BY DEF SetWindow, SessionInv, RevocationInv, SessionTypeOK
<1>2. now \in Nat /\ Window \in Nat \ {0} /\ MaxFailed \in Nat \ {0}
  BY LockAssumption, BoundAssumption DEF SessionInv, RevocationInv, SessionTypeOK
<1>3. /\ failed' \in [Users -> [n : Nat, expires : Nat]]
      /\ failed'[u].n = failed[u].n
      /\ failed'[u].expires = IF failed[u].n = 0 THEN failed[u].expires ELSE now + Window
      /\ \A v \in Users \ {u} : failed'[v] = failed[v]
  <2> DEFINE e == IF failed[u].n = 0 THEN failed[u].expires ELSE now + Window
  <2>1. failed' = [failed EXCEPT ![u].expires = e] /\ e \in Nat
    BY <1>0, <1>1, <1>2 DEF SetWindow
  <2> HIDE DEF e
  <2>2. failed' \in [Users -> [n : Nat, expires : Nat]]
        /\ failed'[u].n = failed[u].n /\ failed'[u].expires = e
        /\ \A v \in Users \ {u} : failed'[v] = failed[v]
    BY <1>1, <2>1 DEF SessionInv, RevocationInv, SessionTypeOK
  <2> QED BY <2>2 DEF e
<1>4. /\ Moved(q)
      /\ \/ /\ count[q] >= MaxFailed /\ stage'[q] = "locking"
            /\ about'[q] = u /\ count'[q] = count[q]
         \/ ~(count[q] >= MaxFailed) /\ stage'[q] = "idle"
  <2>1. CASE count[q] >= MaxFailed
    <3>1. GoTo(q, "locking") /\ UNCHANGED <<about, count, change>> /\ "locking" \in Stages
      BY <2>1 DEF SetWindow, Stages
    <3>2. count' \in [Requests -> Nat]
      BY <3>1 DEF SessionInv, RevocationInv, SessionTypeOK
    <3> QED BY <1>0, <1>1, <2>1, <3>1, <3>2, GoToMoves DEF SessionInv
  <2>2. CASE ~(count[q] >= MaxFailed)
    BY <2>2, EndsMoves DEF SetWindow, SessionInv
  <2> QED BY <2>1, <2>2
<1>5. SessionTypeOK' /\ AboutUsers'
  BY <1>1, <1>3, <1>4 DEF Moved, RequestsType, SessionInv, RevocationInv, SessionTypeOK,
                          clock, tables
<1>6. Lifetimes' /\ LoggedOut' /\ KeyOutlives'
  BY <1>1, RevocationKept DEF SessionInv, clock
<1>7. ASSUME NEW v \in Users PROVE CounterSafe(v)'
  <2>1. CASE v # u
    <3>1. UNCHANGED <<now, failed[v], lockout[v]>>
      BY <1>1, <1>3, <2>1 DEF clock
    <3>2. \A r \in Requests : Recording(r, v) \/ Recording(r, v)' =>
             stage'[r] = stage[r] /\ about'[r] = about[r] /\ count'[r] = count[r]
      BY <1>0, <1>1, <1>4, <2>1 DEF Moved, Recording
    <3> QED BY <3>1, <3>2, CounterKept DEF SessionInv
  <2>2. CASE v = u
    <3>1. CounterSafe(u) /\ UNCHANGED <<now, lockout>>
      BY <1>1 DEF SessionInv, clock
    <3>2. failed'[u].expires <= now' + Window
      BY <1>1, <1>2, <1>3, <3>1 DEF CounterSafe
    <3>3. ASSUME failed'[u].n >= MaxFailed
          PROVE  /\ now' < failed'[u].expires
                 /\ \/ \E r \in Requests : Reached(r, u)'
                    \/ /\ failed'[u].expires <= lockout'[u]
                       /\ (\E r \in Requests : Recording(r, u)') => now' + Window <= lockout'[u]
      <4>1. failed'[u].expires = now + Window /\ now' < failed'[u].expires
        BY <1>1, <1>2, <1>3, <3>1, <3>3
      <4>2. CASE \E r \in Requests : Reached(r, u)
        <5>1. PICK r \in Requests : Reached(r, u)
          BY <4>2
        <5>2. Reached(r, u)'
          BY <1>0, <1>1, <1>4, <5>1 DEF Moved, Reached, Recording
        <5> QED BY <4>1, <5>2
      <4>3. CASE now + Window <= lockout[u]
        BY <3>1, <4>1, <4>3
      <4>4. Recording(q, u)
        BY <1>0, <1>1 DEF Recording
      <4> QED BY <1>3, <3>1, <3>3, <4>2, <4>3, <4>4 DEF CounterSafe
    <3> QED BY <2>2, <3>2, <3>3 DEF CounterSafe
  <2> QED BY <2>1, <2>2
<1> QED BY <1>5, <1>6, <1>7 DEF SessionInv, RevocationInv

LEMMA LockStep ==
    ASSUME SessionInv, NEW q \in Requests, Lock(q) PROVE SessionInv'
<1>0. PICK u \in Users : u = about[q]
  BY DEF Lock, SessionInv, RevocationInv, AboutUsers
<1>1. /\ stage[q] = "locking"
      /\ UNCHANGED <<clock, blacklist, invalid, failed, tables, token>>
  BY DEF Lock
<1>2. now \in Nat /\ Window \in Nat \ {0} /\ LockTime \in Nat /\ Window <= LockTime
  BY LockAssumption, BoundAssumption DEF SessionInv, RevocationInv, SessionTypeOK
<1>3. /\ lockout' \in [Users -> Nat] /\ lockout'[u] = now + LockTime
      /\ \A v \in Users \ {u} : lockout'[v] = lockout[v]
  BY <1>0, <1>2 DEF Lock, SessionInv, RevocationInv, SessionTypeOK
<1>4. Moved(q) /\ stage'[q] = "idle"
  BY EndsMoves DEF Lock, SessionInv
<1>5. SessionTypeOK' /\ AboutUsers'
  BY <1>1, <1>3, <1>4 DEF Moved, RequestsType, SessionInv, RevocationInv, SessionTypeOK,
                          clock, tables
<1>6. Lifetimes' /\ LoggedOut' /\ KeyOutlives'
  BY <1>1, RevocationKept DEF SessionInv, clock
<1>7. ASSUME NEW v \in Users PROVE CounterSafe(v)'
  <2>1. CASE v # u
    <3>1. UNCHANGED <<now, failed[v], lockout[v]>>
      BY <1>1, <1>3, <2>1 DEF clock
    <3>2. \A r \in Requests : Recording(r, v) \/ Recording(r, v)' =>
             stage'[r] = stage[r] /\ about'[r] = about[r] /\ count'[r] = count[r]
      BY <1>0, <1>1, <1>4, <2>1 DEF Moved, Recording
    <3> QED BY <3>1, <3>2, CounterKept DEF SessionInv
  <2>2. CASE v = u
    <3>1. CounterSafe(u) /\ UNCHANGED <<now, failed>> /\ failed[u].expires \in Nat
      BY <1>1 DEF SessionInv, RevocationInv, SessionTypeOK, clock
    <3>2. failed'[u].expires <= lockout'[u] /\ now' + Window <= lockout'[u]
      BY <1>2, <1>3, <3>1 DEF CounterSafe
    <3>3. CASE now < failed[u].expires
      BY <2>2, <3>1, <3>2, <3>3 DEF CounterSafe
    <3>4. CASE \E r \in Requests : stage[r] = "counted" /\ Reached(r, u)
      <4>1. PICK r \in Requests : stage[r] = "counted" /\ Reached(r, u)
        BY <3>4
      <4>2. stage'[r] = "counted" /\ Reached(r, u)'
        BY <1>0, <1>1, <1>4, <4>1 DEF Moved, Reached, Recording
      <4> QED BY <2>2, <3>1, <4>2 DEF CounterSafe
    <3>5. CASE ~(failed[u].n >= MaxFailed)
      BY <2>2, <3>1, <3>5 DEF CounterSafe
    <3> QED BY <3>1, <3>3, <3>4, <3>5 DEF CounterSafe
  <2> QED BY <2>1, <2>2
<1> QED BY <1>5, <1>6, <1>7 DEF SessionInv, RevocationInv

\* A counter that is deleted is under its limit.
LEMMA CounterGone ==
    ASSUME SessionInv, NEW u \in Users, failed'[u] = NoCounter, now' \in Nat
    PROVE  CounterSafe(u)'
<1>1. failed'[u].n = 0 /\ failed'[u].expires = 0
  BY DEF NoCounter
<1>2. ~(failed'[u].n >= MaxFailed)
  BY <1>1, LockAssumption
<1>3. failed'[u].expires <= now' + Window
  <2>1. PICK n \in Nat : n = now'
    OBVIOUS
  <2>2. 0 <= n + Window
    BY LockAssumption
  <2> QED BY <1>1, <2>1, <2>2
<1> QED BY <1>2, <1>3 DEF CounterSafe

LEMMA RecordSuccessStep ==
    ASSUME SessionInv, NEW q \in Requests, RecordSuccessfulLogin(q) PROVE SessionInv'
<1>0. PICK u \in Users : u = about[q]
  BY DEF RecordSuccessfulLogin, SessionInv, RevocationInv, AboutUsers
<1>1. /\ stage[q] = "welcome" /\ GoTo(q, "issuing") /\ UNCHANGED <<about, count, change>>
      /\ UNCHANGED <<clock, blacklist, invalid, lockout, tables, token>>
      /\ failed' = [failed EXCEPT ![u] = NoCounter]
  BY <1>0 DEF RecordSuccessfulLogin
<1>2. /\ failed' \in [Users -> [n : Nat, expires : Nat]] /\ failed'[u] = NoCounter
      /\ \A v \in Users \ {u} : failed'[v] = failed[v]
  BY <1>1 DEF NoCounter, SessionInv, RevocationInv, SessionTypeOK
<1>3. MovedQuietly(q)
  <2>1. "issuing" \in Stages /\ count' \in [Requests -> Nat]
    BY <1>1 DEF Stages, SessionInv, RevocationInv, SessionTypeOK
  <2> QED BY <1>1, <2>1, GoToMoves DEF MovedQuietly, SessionInv
<1>4. SessionTypeOK' /\ AboutUsers'
  BY <1>1, <1>2, <1>3 DEF MovedQuietly, Moved, RequestsType, SessionInv, RevocationInv,
                          SessionTypeOK, clock, tables
<1>5. Lifetimes' /\ LoggedOut' /\ KeyOutlives'
  BY <1>1, RevocationKept DEF SessionInv, clock
<1>6. ASSUME NEW v \in Users PROVE CounterSafe(v)'
  <2>1. CASE v = u
    BY <1>2, <1>4, <2>1, CounterGone DEF SessionTypeOK
  <2>2. CASE v # u
    <3>1. UNCHANGED <<now, failed[v], lockout[v]>>
      BY <1>1, <1>2, <2>2 DEF clock
    <3>2. \A r \in Requests : Recording(r, v) \/ Recording(r, v)' =>
             stage'[r] = stage[r] /\ about'[r] = about[r] /\ count'[r] = count[r]
      BY <1>3 DEF MovedQuietly, Moved, Recording
    <3> QED BY <3>1, <3>2, CounterKept DEF SessionInv
  <2> QED BY <2>1, <2>2
<1> QED BY <1>4, <1>5, <1>6 DEF SessionInv, RevocationInv

-----------------------------------------------------------------------------
(* Tokens and what revokes them. *)

LEMMA CreateTokensStep ==
    ASSUME SessionInv, NEW q \in Requests, CreateTokens(q) PROVE SessionInv'
<1>0. PICK u \in Users : u = about[q]
  BY DEF CreateTokens, SessionInv, RevocationInv, AboutUsers
<1>1. PICK a \in Tokens, r \in Tokens :
          /\ token[a] = NONE /\ token[r] = NONE /\ a # r
          /\ token' = [token EXCEPT ![a] = NewToken(u, "access"), ![r] = NewToken(u, "refresh")]
  BY <1>0 DEF CreateTokens
<1>2. stage[q] = "issuing" /\ UNCHANGED <<clock, redis, tables>>
  BY DEF CreateTokens
<1>3. MovedQuietly(q)
  BY <1>2, EndsMoves DEF CreateTokens, MovedQuietly, SessionInv
<1>4. now \in Nat /\ AccessLife \in Nat /\ RefreshLife \in Nat /\ AccessLife <= RefreshLife
  BY LivesAssumption, BoundAssumption DEF SessionInv, RevocationInv, SessionTypeOK
<1>5. ASSUME NEW k \in {"access", "refresh"}
      PROVE  /\ NewToken(u, k) \in Token /\ NewToken(u, k).iat = now
             /\ now <= NewToken(u, k).exp /\ NewToken(u, k).exp <= now + RefreshLife
  BY <1>4 DEF NewToken, Token
<1>6. token' \in [Tokens -> Token \cup {NONE}]
      /\ \A t \in Tokens : \/ token'[t] = token[t] /\ t \notin {a, r}
                           \/ /\ t \in {a, r} /\ token'[t] \in Token
                              /\ token'[t].iat = now /\ now <= token'[t].exp
                              /\ token'[t].exp <= now + RefreshLife
  <2>1. token \in [Tokens -> Token \cup {NONE}]
    BY DEF SessionInv, RevocationInv, SessionTypeOK
  <2>2. token' \in [Tokens -> Token \cup {NONE}]
    BY <1>1, <1>5, <2>1
  <2>3. token'[a] = NewToken(u, "access") /\ token'[r] = NewToken(u, "refresh")
        /\ \A t \in Tokens \ {a, r} : token'[t] = token[t]
    BY <1>1, <2>1
  <2> QED BY <1>5, <2>2, <2>3
<1>7. SessionTypeOK' /\ AboutUsers'
  BY <1>2, <1>3, <1>6 DEF MovedQuietly, Moved, RequestsType, SessionInv, RevocationInv,
                          SessionTypeOK, clock, redis, tables
<1>8. Lifetimes'
  BY <1>2, <1>4, <1>6 DEF SessionInv, RevocationInv, Lifetimes, clock
<1>9. LoggedOut'
  <2>1. \A t \in out : t \in Tokens \ {a, r}
    BY <1>1 DEF SessionInv, RevocationInv, SessionTypeOK, LoggedOut, HasKey
  <2> QED BY <1>2, <1>6, <2>1 DEF SessionInv, RevocationInv, LoggedOut, HasKey, clock, redis
<1>10. KeyOutlives'
  BY <1>2 DEF SessionInv, RevocationInv, KeyOutlives, clock, redis
<1>11. ASSUME NEW v \in Users PROVE CounterSafe(v)'
  BY <1>2, <1>3, CountersKept DEF SessionInv, clock, redis
<1> QED BY <1>7, <1>8, <1>9, <1>10, <1>11 DEF SessionInv, RevocationInv

LEMMA InvalidateStep ==
    ASSUME SessionInv, NEW q \in Requests, InvalidateUserTokens(q) PROVE SessionInv'
<1>0. PICK u \in Users : u = about[q]
  BY DEF InvalidateUserTokens, SessionInv, RevocationInv, AboutUsers
<1>1. /\ stage[q] = "ending" /\ GoTo(q, "committing") /\ UNCHANGED <<about, count, change>>
      /\ UNCHANGED <<now, out, blacklist, failed, lockout, tables, token>>
      /\ invalid' = [invalid EXCEPT ![u] = [before |-> now, expires |-> now + RefreshLife]]
      /\ ended' = [ended EXCEPT ![u] = now]
  BY <1>0 DEF InvalidateUserTokens
<1>2. now \in Nat /\ RefreshLife \in Nat \ {0}
  BY LivesAssumption, BoundAssumption DEF SessionInv, RevocationInv, SessionTypeOK
<1>3. MovedQuietly(q)
  <2>1. "committing" \in Stages /\ count' \in [Requests -> Nat]
    BY <1>1 DEF Stages, SessionInv, RevocationInv, SessionTypeOK
  <2> QED BY <1>1, <2>1, GoToMoves DEF MovedQuietly, SessionInv
<1>4. SessionTypeOK' /\ AboutUsers'
  <2>1. invalid' \in [Users -> [before : Nat, expires : Nat]] /\ ended' \in [Users -> Nat]
    BY <1>1, <1>2 DEF SessionInv, RevocationInv, SessionTypeOK
  <2> QED BY <1>1, <1>3, <2>1 DEF MovedQuietly, Moved, RequestsType, SessionInv, RevocationInv,
                                  SessionTypeOK, tables
<1>5. Lifetimes' /\ LoggedOut'
  BY <1>1 DEF SessionInv, RevocationInv, Lifetimes, LoggedOut, HasKey
<1>6. KeyOutlives'
  <2>1. /\ invalid'[u] = [before |-> now, expires |-> now + RefreshLife] /\ ended'[u] = now
        /\ \A v \in Users \ {u} : invalid'[v] = invalid[v] /\ ended'[v] = ended[v]
    BY <1>1 DEF SessionInv, RevocationInv, SessionTypeOK
  <2>2. now' < ended'[u] + RefreshLife
    BY <1>1, <1>2, <2>1
  <2> QED BY <1>1, <2>1, <2>2 DEF SessionInv, RevocationInv, KeyOutlives
<1>7. ASSUME NEW v \in Users PROVE CounterSafe(v)'
  BY <1>1, <1>3, CountersKept DEF SessionInv
<1> QED BY <1>4, <1>5, <1>6, <1>7 DEF SessionInv, RevocationInv

LEMMA LogoutStep ==
    ASSUME SessionInv, NEW t \in Tokens, Logout(t) PROVE SessionInv'
<1>1. /\ token[t] \in Token /\ token[t] # NONE
      /\ UNCHANGED <<now, ended, invalid, failed, lockout, tables, token, req>>
      /\ out' = out \cup {t}
  BY DEF Logout, GetCurrentUser, Valid, SessionInv, RevocationInv, SessionTypeOK
<1>2. token[t].exp \in Nat /\ now \in Nat
  BY <1>1, BoundAssumption DEF Token, SessionInv, RevocationInv, SessionTypeOK
<1>3. /\ blacklist' \in [Tokens -> Nat]
      /\ now + 1 < token[t].exp => blacklist'[t] \in {token[t].exp - 1, token[t].exp}
      /\ \A s \in Tokens \ {t} : blacklist'[s] = blacklist[s]
  <2>1. PICK lag \in {0, 1} :
           blacklist' = IF token[t].exp - lag > now
                          THEN [blacklist EXCEPT ![t] = token[t].exp - lag] ELSE blacklist
    BY DEF Logout
  <2>2. blacklist \in [Tokens -> Nat]
    BY DEF SessionInv, RevocationInv, SessionTypeOK
  <2>3. CASE token[t].exp - lag > now
    BY <1>2, <2>1, <2>2, <2>3
  <2>4. CASE ~(token[t].exp - lag > now)
    BY <1>2, <2>1, <2>2, <2>4
  <2> QED BY <2>3, <2>4
<1>4. SessionTypeOK' /\ AboutUsers'
  BY <1>1, <1>3 DEF SessionInv, RevocationInv, SessionTypeOK, AboutUsers, tables, req
<1>5. Lifetimes' /\ KeyOutlives'
  BY <1>1 DEF SessionInv, RevocationInv, Lifetimes, KeyOutlives
<1>6. LoggedOut'
  BY <1>1, <1>2, <1>3 DEF SessionInv, RevocationInv, SessionTypeOK, LoggedOut, HasKey
<1>7. ASSUME NEW v \in Users PROVE CounterSafe(v)'
  BY <1>1 DEF SessionInv, CounterSafe, Recording, Reached, req
<1> QED BY <1>4, <1>5, <1>6, <1>7 DEF SessionInv, RevocationInv

LEMMA RowStep ==
    ASSUME SessionInv, NEW u \in Users,
           InitiatePasswordReset(u) \/ ResetExpires(u) \/ ReactivateUser(u)
    PROVE  SessionInv'
<1>1. /\ UNCHANGED <<clock, redis, token, req>>
      /\ active' \subseteq Users /\ resets' \subseteq Users
  BY DEF InitiatePasswordReset, ResetExpires, ReactivateUser,
         SessionInv, RevocationInv, SessionTypeOK
<1>2. SessionTypeOK' /\ AboutUsers'
  BY <1>1 DEF SessionInv, RevocationInv, SessionTypeOK, AboutUsers, clock, redis, req
<1>3. Lifetimes' /\ LoggedOut' /\ KeyOutlives'
  BY <1>1, RevocationKept DEF SessionInv, clock, redis
<1>4. ASSUME NEW v \in Users PROVE CounterSafe(v)'
  BY <1>1 DEF SessionInv, CounterSafe, Recording, Reached, clock, redis, req
<1> QED BY <1>2, <1>3, <1>4 DEF SessionInv, RevocationInv

LEMMA UnlockStep ==
    ASSUME SessionInv, NEW u \in Users, UnlockAccount(u) PROVE SessionInv'
<1>1. /\ lockout' = [lockout EXCEPT ![u] = 0] /\ failed' = [failed EXCEPT ![u] = NoCounter]
      /\ UNCHANGED <<clock, blacklist, invalid, tables, token, req>>
  BY DEF UnlockAccount
<1>2. /\ lockout' \in [Users -> Nat] /\ failed' \in [Users -> [n : Nat, expires : Nat]]
      /\ failed'[u] = NoCounter
      /\ \A v \in Users \ {u} : failed'[v] = failed[v] /\ lockout'[v] = lockout[v]
  BY <1>1 DEF NoCounter, SessionInv, RevocationInv, SessionTypeOK
<1>3. SessionTypeOK' /\ AboutUsers'
  BY <1>1, <1>2 DEF SessionInv, RevocationInv, SessionTypeOK, AboutUsers, clock, tables, req
<1>4. Lifetimes' /\ LoggedOut' /\ KeyOutlives'
  BY <1>1, RevocationKept DEF SessionInv, clock
<1>5. ASSUME NEW v \in Users PROVE CounterSafe(v)'
  <2>1. CASE v = u
    BY <1>2, <1>3, <2>1, CounterGone DEF SessionTypeOK
  <2>2. CASE v # u
    <3>1. UNCHANGED <<now, failed[v], lockout[v], stage, about, count>>
      BY <1>1, <1>2, <2>2 DEF clock, req
    <3> QED BY <3>1, CounterKept DEF SessionInv
  <2> QED BY <2>1, <2>2
<1> QED BY <1>3, <1>4, <1>5 DEF SessionInv, RevocationInv

-----------------------------------------------------------------------------
(* A second passes: keys and tokens expire. *)

LEMMA TickStep ==
    ASSUME SessionInv, Tick PROVE SessionInv'
<1>1. /\ now < MaxTime /\ now' = now + 1 /\ now \in Nat /\ now' \in 0 .. MaxTime
      /\ \A q \in Requests : stage[q] \notin {"counted", "locking"}
      /\ UNCHANGED <<ended, tables, req>>
  BY BoundAssumption DEF Tick, SessionInv, RevocationInv, SessionTypeOK
<1>2. /\ \A t \in Tokens : blacklist'[t] = IF blacklist[t] = now + 1 THEN 0 ELSE blacklist[t]
      /\ \A u \in Users : lockout'[u] = IF lockout[u] = now + 1 THEN 0 ELSE lockout[u]
      /\ blacklist' \in [Tokens -> Nat] /\ lockout' \in [Users -> Nat]
  BY DEF Tick, SessionInv, RevocationInv, SessionTypeOK
<1>3. /\ \A u \in Users : invalid'[u] = IF invalid[u].expires = now + 1 THEN NoKey ELSE invalid[u]
      /\ invalid' \in [Users -> [before : Nat, expires : Nat]]
  BY DEF Tick, NoKey, SessionInv, RevocationInv, SessionTypeOK
<1>4. /\ \A u \in Users : failed'[u] = IF failed[u].expires = now + 1 THEN NoCounter ELSE failed[u]
      /\ failed' \in [Users -> [n : Nat, expires : Nat]]
  BY DEF Tick, NoCounter, SessionInv, RevocationInv, SessionTypeOK
<1>5. /\ \A t \in Tokens :
            token'[t] = IF token[t] # NONE /\ token[t].exp = now THEN NONE ELSE token[t]
      /\ token' \in [Tokens -> Token \cup {NONE}]
  BY DEF Tick, SessionInv, RevocationInv, SessionTypeOK
<1>6. out' = {t \in out : token[t].exp # now}
  BY DEF Tick
<1>7. SessionTypeOK' /\ AboutUsers'
  BY <1>1, <1>2, <1>3, <1>4, <1>5, <1>6
  DEF SessionInv, RevocationInv, SessionTypeOK, AboutUsers, tables, req
<1>8. Lifetimes'
  <2> SUFFICES ASSUME NEW t \in Tokens, token'[t] # NONE
               PROVE  /\ token'[t].iat <= now' /\ now' <= token'[t].exp
                      /\ token'[t].exp <= token'[t].iat + RefreshLife
    BY DEF Lifetimes
  <2>1. token'[t] = token[t] /\ token[t].exp # now /\ token[t] # NONE
    BY <1>5
  <2>2. token[t] \in Token
    BY <2>1 DEF SessionInv, RevocationInv, SessionTypeOK
  <2> QED BY <1>1, <2>1, <2>2 DEF SessionInv, RevocationInv, Lifetimes, Token
<1>9. LoggedOut'
  <2> SUFFICES ASSUME NEW t \in out'
               PROVE  token'[t] # NONE /\ HasKey(t)'
    BY DEF LoggedOut
  <2>1. t \in out /\ t \in Tokens /\ token[t] # NONE /\ token[t].exp # now
    BY <1>6 DEF SessionInv, RevocationInv, SessionTypeOK, LoggedOut
  <2>2. token'[t] = token[t] /\ token[t] \in Token
    BY <1>5, <2>1 DEF SessionInv, RevocationInv, SessionTypeOK
  <2>3. ASSUME now' + 1 < token[t].exp
        PROVE  blacklist[t] \in {token[t].exp - 1, token[t].exp} /\ blacklist[t] # now + 1
    <3>1. token[t].exp \in Nat /\ now \in Nat /\ now' = now + 1
      BY <1>1, <2>2 DEF Token
    <3>2. HasKey(t)
      BY <2>1 DEF SessionInv, RevocationInv, LoggedOut
    <3> QED BY <2>3, <3>1, <3>2 DEF HasKey
  <2> QED BY <1>2, <2>1, <2>2, <2>3 DEF HasKey
<1>10. KeyOutlives'
  <2> SUFFICES ASSUME NEW u \in Users
               PROVE  \/ /\ invalid'[u] = [before |-> ended[u], expires |-> ended[u] + RefreshLife]
                         /\ now' < ended[u] + RefreshLife
                      \/ /\ invalid'[u] = NoKey
                         /\ ended[u] = 0 \/ ended[u] + RefreshLife <= now'
    BY <1>1 DEF KeyOutlives
  <2>1. ended[u] \in Nat /\ RefreshLife \in Nat
    BY LivesAssumption DEF SessionInv, RevocationInv, SessionTypeOK
  <2>2. CASE /\ invalid[u] = [before |-> ended[u], expires |-> ended[u] + RefreshLife]
             /\ now < ended[u] + RefreshLife
    <3>1. invalid[u].expires = ended[u] + RefreshLife
      BY <2>2
    <3> QED BY <1>1, <1>3, <2>1, <2>2, <3>1
  <2>3. CASE invalid[u] = NoKey /\ (ended[u] = 0 \/ ended[u] + RefreshLife <= now)
    <3>1. invalid'[u] = NoKey
      BY <1>3, <2>3
    <3> QED BY <1>1, <2>1, <2>3, <3>1
  <2> QED BY <2>2, <2>3 DEF SessionInv, RevocationInv, KeyOutlives
<1>11. ASSUME NEW u \in Users PROVE CounterSafe(u)'
  <2>1. CounterSafe(u) /\ failed[u].expires \in Nat /\ failed[u].n \in Nat /\ lockout[u] \in Nat
    BY DEF SessionInv, RevocationInv, SessionTypeOK
  <2>2. \A q \in Requests : ~Recording(q, u) /\ ~Recording(q, u)'
    BY <1>1 DEF Recording, req
  <2>3. CASE failed[u].expires = now + 1
    BY <1>1, <1>4, <2>3, CounterGone
  <2>4. CASE failed[u].expires # now + 1
    <3>1. failed'[u] = failed[u]
      BY <1>4, <2>4
    <3>2. failed'[u].expires <= now' + Window
      BY <1>1, <2>1, <3>1, LockAssumption DEF CounterSafe
    <3>3. ASSUME failed'[u].n >= MaxFailed
          PROVE  now' < failed'[u].expires /\ failed'[u].expires <= lockout'[u]
      <4>1. now < failed[u].expires /\ failed[u].expires <= lockout[u]
        BY <2>1, <2>2, <3>1, <3>3 DEF CounterSafe, Reached
      <4>2. lockout'[u] = lockout[u] /\ now' < failed[u].expires
        BY <1>1, <1>2, <2>1, <2>4, <4>1
      <4> QED BY <3>1, <4>1, <4>2
    <3> QED BY <2>2, <3>2, <3>3 DEF CounterSafe
  <2> QED BY <2>3, <2>4
<1> QED BY <1>7, <1>8, <1>9, <1>10, <1>11 DEF SessionInv, RevocationInv

LEMMA SessionStep ==
    ASSUME SessionInv, [SessionNext]_sessionVars PROVE SessionInv'
<1>1. CASE UNCHANGED sessionVars
  <2>1. UNCHANGED <<clock, redis, tables, token, req>>
    BY <1>1 DEF sessionVars
  <2>2. SessionTypeOK' /\ AboutUsers'
    BY <2>1 DEF SessionInv, RevocationInv, SessionTypeOK, AboutUsers, clock, redis, tables, req
  <2>3. Lifetimes' /\ LoggedOut' /\ KeyOutlives'
    BY <2>1, RevocationKept DEF SessionInv, clock, redis
  <2>4. ASSUME NEW v \in Users PROVE CounterSafe(v)'
    BY <2>1 DEF SessionInv, CounterSafe, Recording, Reached, clock, redis, req
  <2> QED BY <2>2, <2>3, <2>4 DEF SessionInv, RevocationInv
<1>2. CASE SessionNext
  BY <1>2, BeginStep, GoOnStep, CountAttemptStep, SetWindowStep, LockStep, RecordSuccessStep,
     CreateTokensStep, InvalidateStep, LogoutStep, RowStep, UnlockStep, TickStep
  DEF SessionNext
<1> QED BY <1>1, <1>2

LEMMA SessionInvariance == SessionSpec => []SessionInv
<1>1. SessionInv /\ [SessionNext]_sessionVars => SessionInv'
  BY SessionStep
<1> QED BY SessionInitInv, <1>1, PTL DEF SessionSpec

(* Tokens, keys, counters and requests have their types, for any lives of  *)
(* tokens and keys.                                                        *)
THEOREM SessionTypeCorrect == SessionSpec => []SessionTypeOK
<1>1. SessionInv => SessionTypeOK
  BY DEF SessionInv, RevocationInv
<1> QED BY SessionInvariance, <1>1, PTL

(* A token issued before all sessions of its user were ended is refused    *)
(* until it expires, whatever requests overlap: the key is overwritten     *)
(* only by one that says more, and it expires after the last token it is   *)
(* about.  A token that was logged out is refused until the second before  *)
(* the one in which it expires, for its own key may lapse that early.      *)
THEOREM RevokedStaysRefused == SessionSpec => []RevokedIsRefused
<1>1. ASSUME SessionInv PROVE RevokedIsRefused
  <2> SUFFICES ASSUME NEW t \in Tokens, token[t] # NONE
               PROVE  /\ token[t].iat < ended[token[t].user] => ~Valid(t)
                      /\ t \in out /\ now + 1 < token[t].exp => ~Valid(t)
    BY DEF RevokedIsRefused
  <2> DEFINE u == token[t].user
  <2>1. /\ token[t] \in Token /\ u \in Users /\ token[t].iat \in Nat /\ token[t].exp \in Nat
        /\ now \in Nat /\ ended[u] \in Nat /\ RefreshLife \in Nat
    BY <1>1, LivesAssumption, BoundAssumption
    DEF SessionInv, RevocationInv, SessionTypeOK, Token
  <2>2. /\ now <= token[t].exp /\ token[t].exp <= token[t].iat + RefreshLife
    BY <1>1 DEF SessionInv, RevocationInv, Lifetimes
  <2>3. ASSUME token[t].iat < ended[u] PROVE ~Valid(t)
    <3>1. ~(ended[u] = 0 \/ ended[u] + RefreshLife <= now)
      BY <2>1, <2>2, <2>3
    <3>2. \/ invalid[u] = [before |-> ended[u], expires |-> ended[u] + RefreshLife]
          \/ ended[u] = 0 \/ ended[u] + RefreshLife <= now
      BY <1>1, <2>1 DEF SessionInv, RevocationInv, KeyOutlives
    <3>3. invalid[u].before = ended[u]
      BY <3>1, <3>2
    <3> QED BY <2>3, <3>3 DEF Valid, IsInvalidForUser
  <2>4. ASSUME t \in out, now + 1 < token[t].exp PROVE ~Valid(t)
    <3>1. blacklist[t] \in {token[t].exp - 1, token[t].exp}
      BY <1>1, <2>4 DEF SessionInv, RevocationInv, LoggedOut, HasKey
    <3>2. blacklist[t] # 0
      BY <2>1, <2>4, <3>1
    <3> QED BY <3>2 DEF Valid, IsBlacklisted
  <2> QED BY <2>3, <2>4
<1> QED BY SessionInvariance, <1>1, PTL

(* A counter stands at its limit only behind a lockout or a request that   *)
(* is about to make one, for any number of overlapping attempts: who finds *)
(* the limit reached without having reached it came before the lockout of  *)
(* the same second.                                                        *)
THEOREM LimitMeansLocked == SessionSpec => []LockedAtTheLimit
<1>1. ASSUME SessionInv PROVE LockedAtTheLimit
  <2> SUFFICES ASSUME NEW u \in Users, failed[u].n >= MaxFailed
               PROVE  \/ IsLockedOut(u)
                      \/ \E q \in Requests : about[q] = u /\ stage[q] \in {"counted", "locking"}
    BY DEF LockedAtTheLimit
  <2>1. now \in Nat /\ failed[u].expires \in Nat /\ lockout[u] \in Nat
    BY <1>1, BoundAssumption DEF SessionInv, RevocationInv, SessionTypeOK
  <2> QED BY <1>1, <2>1 DEF SessionInv, CounterSafe, Reached, Recording, IsLockedOut
<1> QED BY SessionInvariance, <1>1, PTL
===============================================================================
