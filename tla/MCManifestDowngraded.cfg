SPECIFICATION Spec
CONSTANTS
  Accounts <- MCAccounts
  Catalog <- MCCatalog
  Clusters <- MCClusters
  Options <- MCOptions
  MaxFaults = 0
INVARIANT ManifestBlockersStayBlockers
CHECK_DEADLOCK FALSE
