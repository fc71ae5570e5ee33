----------------------------- MODULE MCMembership -----------------------------
(* Instance of Membership for TLC. *)
EXTENDS Membership, TLC

CONSTANTS u1, u2, u3, e1, e2, o1, o2, i1, i2, q1, q2

Symmetries == Permutations(Users) \cup Permutations(Emails) \cup Permutations(Orgs)
              \cup Permutations(Invs) \cup Permutations(Requests)
===============================================================================
