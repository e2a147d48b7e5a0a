SPECIFICATION Spec
CONSTANTS
  r1 = r1
  r2 = r2
  r3 = r3
  None = None
  Requests <- MCRequests
  Cap <- MCCap
  Caps <- MCCaps
  Shared <- MCShared
  Sorted <- MCSorted
  Declared <- MCDeclared
  Batches <- MCBatches
  Reports <- MCReports
  OthersRun = TRUE
  MaxDeaths = 1
  MaxNotices = 1
INVARIANTS SlotsAccounted LineIsHeld LimitsAreEffective AnswersAreTrue
PROPERTIES NobodyIsPassedOver CanaryIsAlone
SYMMETRY Alike
CHECK_DEADLOCK FALSE
