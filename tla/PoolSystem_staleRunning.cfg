SPECIFICATION FairSpec
CONSTANTS
  r1 = r1
  r2 = r2
  r3 = r3
  None = None
  Requests <- TwoRequests
  Cap <- TwoCap
  Caps <- MCCaps
  Shared <- MCShared
  Sorted <- MCSorted
  Declared <- MCDeclared
  Batches <- MCBatches
  Reports <- MCReports
  OthersRun = FALSE
  MaxDeaths = 1
  MaxNotices = 1
PROPERTIES DeathIsTold
CHECK_DEADLOCK FALSE
