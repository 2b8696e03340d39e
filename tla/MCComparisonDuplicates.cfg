CONSTANTS
  Categories <- MCCategories
  RuleIDs = {"DRAIN-001", "NODE-003"}
  Objects = {"o1"}
  Policies <- OnlyDefault
  MaxOddities = 0
  MaxChanges = 1
SPECIFICATION Spec
INVARIANT ScansCanBeCompared
CHECK_DEADLOCK FALSE
