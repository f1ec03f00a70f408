------------------------------- MODULE MCMessages -------------------------------
(* Model values and symmetry for the run of Messages.                             *)
EXTENDS Messages, TLC
CONSTANTS s1, s2, q1, q2, q3
TwoSends      == {s1, s2}
ThreeRequests == {q1, q2, q3}
Symmetric     == Permutations(Sends)
================================================================================
