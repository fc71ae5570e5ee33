------------------------------- MODULE MCReader -------------------------------
(* Instance of Reader for TLC. *)
EXTENDS Reader, TLC

CONSTANTS p1, t1, t2, q1, q2, q3

Lengths == (t1 :> 1) @@ (t2 :> 2)
First   == {<<NONE, 0>>}

(* Requests are alike: they are named in the order in which they start,    *)
(* which loses no behaviour up to their names.                             *)
Order == <<q1, q2, q3>>
InOrder == \A i \in 1 .. 2 : phase'[Order[i]] = "idle" => phase'[Order[i + 1]] = "idle"
===============================================================================
