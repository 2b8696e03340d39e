CONSTANTS
  NumTasks = 3
  AppendTasks <- MCAppendTasks
  NotFoundIsFine <- MCNotFoundIsFine
  Requested = 7
  MinConcurrency = 1
  MaxConcurrency = 2
SPECIFICATION Spec
INVARIANTS InFlightBounded SnapshotTellsTheTruth
PROPERTIES SnapshotFrozen CollectReturns InterruptedTasksAreRecorded ImplementsCollection
CHECK_DEADLOCK FALSE
