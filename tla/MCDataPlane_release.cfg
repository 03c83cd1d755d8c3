SPECIFICATION Spec
CONSTANTS
  NumPorts = 1
  NumDesc <- ThreeEach
  Budget <- TwoEach
  BufCount = 2
  Egress <- AllPorts
PROPERTIES
  TxCleanReleasesUnused
