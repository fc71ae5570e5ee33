------------------------------- MODULE MCNightly -------------------------------
(* Instance of Nightly for TLC. *)
EXTENDS Nightly, TLC

CONSTANTS a1, a2, a3, r1, r2, o1, o2, p1, p2, p3

\* o2 has a policy that can be applied and one that cannot
Owners == (p1 :> o1) @@ (p2 :> o2) @@ (p3 :> o2)
===============================================================================
