SPECIFICATION Spec
CONSTANTS
  c1 = c1
  c2 = c2
  consumer = consumer
  r1 = r1
  r2 = r2
  Callers = {c1, c2, consumer}
  Consumer = consumer
  Requests = {r1, r2}
  Keys <- MCKeys
  NoKey = NoKey
  Amounts = {1, 2, 3}
  Limit = 2
  MaxIds = 3
  MaxCuts = 1
INVARIANTS TypeOK RepliesAreStored  NoLostCharge
PROPERTY CallsAreIdempotent
SYMMETRY MCSymmetry
CHECK_DEADLOCK FALSE
