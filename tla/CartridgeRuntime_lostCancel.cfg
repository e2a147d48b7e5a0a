CONSTANTS
  a = a  b = b  all = all
  r1 = r1  r2 = r2
  Main = Main  Reporter = Reporter  NoRequest = NoRequest
  Requests = {r1, r2}
  PoolNames = {a, b, all}
  Chain <- OneCap
  Limits <- OneLimit
  Work <- NoWork
  InputEnds = {}
  Cancellable = {r1}
  MayDisconnect = FALSE
SPECIFICATION Spec
INVARIANTS NoCancelLost
