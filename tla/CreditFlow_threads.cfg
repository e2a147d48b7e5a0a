CONSTANTS
  Senders = {t1, t2}
  SenderWindow = 3
  ReceiverWindow = 1
  Sizes <- WholeItems
  MaxItems = 5
SPECIFICATION FairSpec
INVARIANTS NoLostWakeup BackPressure
PROPERTIES SendersNeverHang
