----------------------------- MODULE MCCollections -----------------------------
(* Model values and symmetry for the run of Collections.                         *)
EXTENDS Collections, TLC
CONSTANTS a1, a2
TwoActors == {a1, a2}
ActorSymmetry == Permutations(Actors)
================================================================================
