------------------------------ MODULE MCSessions ------------------------------
(* Instance of Sessions for TLC. *)
EXTENDS Sessions, TLC

CONSTANTS u1, t1, t2, t3, q1, q2

Symmetries == Permutations(Tokens) \cup Permutations(Requests)
===============================================================================
