CONSTANTS
  s1 = s1
  s2 = s2
  Services <- TwoServices
  RefLists <- AdmissionLists
  MaxChanges = 2
SYMMETRY ServiceSymmetry
SPECIFICATION Spec
INVARIANTS EvaluatedFindingsAreReal EvaluatedSilenceIsEarned
CHECK_DEADLOCK FALSE
