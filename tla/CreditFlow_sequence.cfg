CONSTANTS
  Senders = {t1}
  SenderWindow = 2
  ReceiverWindow = 4
  Sizes <- SplitItems
  MaxItems = 4
SPECIFICATION FairSpec
INVARIANTS CreditConserved NoCreditViolation NeverStalled
PROPERTIES StreamCompletes IsBoundedChannel
