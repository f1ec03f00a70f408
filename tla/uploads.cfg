\* Two requests and the sweeper, a retried createUpload, one cut.
SPECIFICATION Spec
CONSTANTS
  o1 = o1
  o2 = o2
  sweeper = sweeper
  f1 = f1
  f2 = f2
  key = key
  Requests <- TwoRequests
  Sweeper <- sweeper
  Files <- TwoFiles
  RequestIds = {key}
  RequestOf <- RetriedRequest
  MaxCuts = 1
  MaxExpiries = 0
SYMMETRY RequestSymmetry
INVARIANTS TypeOK CompletedHasObject ChargedHasRow ReleasedAtMostOnce
CHECK_DEADLOCK FALSE
