CONSTANTS
  Universe <- MCUniverse
  MaxErrors = 2
  Clusters <- MCClusters
SPECIFICATION RegistrySpec
INVARIANTS EvaluatedOnLiveEvidence DismissedOnlyIfNothingToRead
INVARIANTS LostEvidenceInventsNothing ShortageIsReal
INVARIANTS EveryRuleIsRecorded LostFindingsAreConfessed CleanIsEarned
PROPERTY LosingEvidenceNeverHelps
CHECK_DEADLOCK FALSE
