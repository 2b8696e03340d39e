CONSTANTS
  Categories <- MCCategories
  RuleIDs = {"API-001", "PDB-001", "WH-002", "EKS-NG-001"}
  Objects = {"o1"}
  Policies <- TwoPolicies
  MaxOddities = 2
  MaxChanges = 1
SPECIFICATION Spec
INVARIANTS ResolvedIsGone PassIsEarned NewBlockerIsNew RepairNeverFails
CHECK_DEADLOCK FALSE
