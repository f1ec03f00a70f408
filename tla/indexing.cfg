SPECIFICATION Spec
CONSTANTS
  MaxRuns = 2
  MaxAttempts = 2
  Deletions = {"file", "user"}
  MaxCrashes = 1
INVARIANTS TypeOK DeletedLeavesNothing DeletedHasNoScenes IndexedScenesExist
PROPERTY DeletionEndsInNothing
CHECK_DEADLOCK FALSE
