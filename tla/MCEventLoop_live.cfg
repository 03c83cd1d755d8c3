SPECIFICATION FairSpec
CONSTANTS
  NumPorts = 1
  RxSize = 4
  TxSize = 3
  RxBudget = 2
  TxBudget = 3
  MaxEvents = 16
  QueueBound = 1
  Active <- Interrupts
PROPERTIES
  RxServed
  TxServed
CHECK_DEADLOCK FALSE
