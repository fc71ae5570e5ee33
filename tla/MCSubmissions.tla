---------------------------- MODULE MCSubmissions ----------------------------
(* Instances of Submissions for TLC. *)
EXTENDS Submissions, TLC

CONSTANTS s1, s2, q1, q2, q3, q4, q5, t0, t1, t2

\* Requests and complete texts have no identity of their own.
RequestSymmetry == Permutations(Requests) \cup Permutations(Texts \ NoAbstract)
==============================================================================
