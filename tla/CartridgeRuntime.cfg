CONSTANTS
  a = a  b = b  all = all
  r1 = r1  r2 = r2
  Main = Main  Reporter = Reporter  NoRequest = NoRequest
  Requests = {r1, r2}
  PoolNames = {a, b, all}
  Chain <- TwoCaps
  Limits <- OneLimit
  Work <- AllWork
  InputEnds = {r1}
  Cancellable = {r1}
  MayDisconnect = TRUE
SPECIFICATION FairSpec
INVARIANTS SlotsAccounted NobodyLeftInLine TerminalIsClaimants
PROPERTIES NeverStartsAnswered IsSlots EveryRequestEnds
