CONSTANTS
  Categories <- MCCategories
  MaxFindings = 6
SPECIFICATION ReportSpec
INVARIANTS ReadinessAgreesWithResult ContinueIsEarned
PROPERTY FindingMoreNeverHelps
CHECK_DEADLOCK FALSE
