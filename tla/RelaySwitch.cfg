CONSTANTS
  m1 = m1  m2 = m2  e1 = e1  p1 = p1
  Engine = Engine  NoMaster = NoMaster
  Masters = {m1, m2}
  Requests = {e1, p1}
  Parent <- OneCall
  Serves <- Servers
  Cancellable = {e1}
  RecentCapacity = 2
  InitialCredit = 1
  MaxGrants = 1
  MaxEvents = 2
  MaxQueue = 2
CHECK_DEADLOCK FALSE
SPECIFICATION FairSpec
INVARIANTS PermitsAccounted EndsOnce CascadeIsComplete NoFalseAlarm LedgerIsTheWindow
PROPERTIES EveryEntryEnds
