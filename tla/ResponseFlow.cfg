CONSTANTS
  q1 = q1  q2 = q2  s1 = s1  t1 = t1
  Requests = {q1, q2}
  Streams = {s1}
  Owner <- OneOwner
  Threads = {t1}
  Output <- OneOutput
  MaxUnits = 2
  CoalesceMax = 2
  ChunkMax = 1
  Logs <- OneLog
  Cancellable = {q2}
  TerminatedCapacity = 1
  RecentCapacity = 1
  HoldLimit = 1
  Displacement = 1
  MaxRepeats = 1
CHECK_DEADLOCK FALSE
SPECIFICATION FairSpec
INVARIANTS FlowKeepsRules CoalescingIsLossless
PROPERTIES IsOrderedFlow TerminalArrives
