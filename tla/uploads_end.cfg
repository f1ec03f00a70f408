\* One upload that its client may abandon: the sweeper ends it.
SPECIFICATION FairSpec
CONSTANTS
  o1 = o1
  o2 = o2
  sweeper = sweeper
  f1 = f1
  f2 = f2
  key = key
  Requests <- TwoRequests
  Sweeper <- sweeper
  Files <- OneFile
  RequestIds = {key}
  RequestOf <- RetriedRequest
  MaxCuts = 2
  MaxExpiries = 1
PROPERTY UploadsEnd
CHECK_DEADLOCK FALSE
