SPECIFICATION Spec
CONSTANTS
  NumPorts = 2
  NumDesc <- TwoEach
  Budget <- OneEach
  BufCount = 1
  Egress <- AllPorts
INVARIANTS
  TypeOK
  NoSlotLeak
  PublishedBeforeSleep
