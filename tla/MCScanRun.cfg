CONSTANTS
  Categories <- MCCategories
  ScanFindings <- MCScanFindings
  Leftovers <- SomeLeftovers
  MaxSignals = 1
SPECIFICATION Spec
INVARIANTS GreenIsEarned InterruptIsConfessed ArtefactsAreWhole ServedIsThisScan
PROPERTIES ScanEnds ProbeDoesNotLeak InterruptEndsWait
CHECK_DEADLOCK FALSE
