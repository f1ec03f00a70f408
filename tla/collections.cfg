\* Two requests at a time over three collections and one file.
SPECIFICATION Spec
CONSTANTS
  a1 = a1
  a2 = a2
  Actors <- TwoActors
  Collections = {1, 2, 3}
  Top = 0
  Absent = 9
  Files = {f1}
  Batch = 1
INVARIANTS TypeOK GoneAreAnnounced
PROPERTY OnlyStaleMovesCloseCycles
SYMMETRY ActorSymmetry
CHECK_DEADLOCK FALSE
