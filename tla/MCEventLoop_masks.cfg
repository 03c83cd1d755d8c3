SPECIFICATION Spec
CONSTANTS
  NumPorts = 1
  RxSize = 2
  TxSize = 1
  RxBudget = 1
  TxBudget = 1
  MaxEvents = 16
  QueueBound = 1
  Active <- AllKinds
INVARIANTS
  TypeOK
  MaskedIsServed
  NoLostWakeup
CHECK_DEADLOCK FALSE
