\* One delivery at a time, one run with retries: the outcome always arrives.
SPECIFICATION FairSpec
CONSTANTS
  h1 = h1
  h2 = h2
  Handlers <- OneHandler
  Kinds <- AllKinds
  Faults <- SceneFaults
  MaxRuns = 1
  MaxAttempts = 2
  MaxQueue = 2
  MaxInterrupts = 1
  MaxCrashes = 0
PROPERTIES ForwardOnly Settles
CHECK_DEADLOCK FALSE
