SPECIFICATION Spec
CONSTANTS
  Accounts <- MCAccounts
  Catalog <- MCCatalog
  Clusters <- MCClusters
  Options <- MCOptions
  MaxFaults = 2
INVARIANTS
  AwsSilenceIsEarned
  NoFalseIncompatibility
  PlanPassIsEarned
  ManifestsAreProjected
  ReadyIsEarned
PROPERTY PlanEnds
CHECK_DEADLOCK FALSE
