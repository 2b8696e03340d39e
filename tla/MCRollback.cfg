CONSTANTS
  Reports <- MCReports
  Clusters <- MCClusters
  InsightValues <- MCInsightValues
  UpdateValues <- MCUpdateValues
  Targets <- MCTargets
  MaxFaults = 2
  MaxInsights = 2
  MaxUpdates = 2
  Window = 4
  MaxAge = 2
  FutureSkew = 1
SPECIFICATION Spec
INVARIANTS StopIsConfirmed ConfirmedStopHolds ReadinessIsEarned VerdictReachesTheShell
CHECK_DEADLOCK FALSE
