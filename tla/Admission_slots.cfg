CONSTANTS
  a = a  b = b  all = all
  r1 = r1  r2 = r2  r3 = r3
  Requests = {r1, r2, r3}
  PoolNames = {a, b, all}
  Chain <- TwoCaps
  Cancellable = {r2}
  Advertisements <- BothMaps
SPECIFICATION FairSpec
INVARIANTS SlotsAccounted NobodySleepsOnItsTurn
PROPERTIES IsSlots NoWaiterForgotten CancelIsHeard
