SPECIFICATION Spec
CONSTANTS
  Accounts <- MCAccounts
  Catalog <- MCCatalog
  Clusters <- MCClusters
  Options <- MCOptions
  MaxFaults = 0
INVARIANT AddonsHoldEveryAddon
CHECK_DEADLOCK FALSE
