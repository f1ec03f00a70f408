\* Two deliveries at a time: the forward-only rule is not kept.
SPECIFICATION Spec
CONSTANTS
  h1 = h1
  h2 = h2
  Handlers <- TwoHandlers
  Kinds <- Video
  Faults <- SceneFaults
  MaxRuns = 1
  MaxAttempts = 1
  MaxQueue = 2
  MaxInterrupts = 0
  MaxCrashes = 0
PROPERTY ForwardOnly
CHECK_DEADLOCK FALSE
