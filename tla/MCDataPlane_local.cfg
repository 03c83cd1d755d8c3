SPECIFICATION Spec
CONSTANTS
  NumPorts = 1
  NumDesc <- ThreeEach
  Budget <- TwoEach
  BufCount = 3
  Egress <- NoPort
INVARIANTS
  RingOrder
  NoStaleDone
  SlotExclusive
PROPERTIES
  NicDescStable
