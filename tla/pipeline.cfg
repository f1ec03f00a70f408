\* Two deliveries at a time, every fault; a calm second run of the same file.
SPECIFICATION Spec
CONSTANTS
  h1 = h1
  h2 = h2
  Handlers <- TwoHandlers
  Kinds <- AllKinds
  Faults <- AllFaults
  MaxRuns = 2
  MaxAttempts = 1
  MaxQueue = 2
  MaxInterrupts = 1
  MaxCrashes = 1
SYMMETRY HandlerSymmetry
CONSTRAINTS OneMishap CalmSecondRun
INVARIANTS TypeOK StatusFitsStage OutcomeWasReached ScenesWaitForTranscript
PROPERTY FreshWritesMoveForward
CHECK_DEADLOCK FALSE
