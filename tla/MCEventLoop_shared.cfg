SPECIFICATION FairSpec
CONSTANTS
  NumPorts = 1
  RxSize = 1
  TxSize = 1
  RxBudget = 1
  TxBudget = 1
  MaxEvents = 16
  QueueBound = 1
  Active <- AllKinds
PROPERTIES
  NetlinkServed
CHECK_DEADLOCK FALSE
