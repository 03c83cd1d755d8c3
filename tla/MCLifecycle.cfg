SPECIFICATION Spec
CONSTANTS
  Device = {d0, d1}
  Proc = {p, q}
  None = None
  Freed = Freed
  NumCores = 2
  NumPorts = 2
  RxLen = 1
  TxLen = 1
  BlockLen = 4
  Block = {0, 1, 3, 4}
  BarAddr = 8
  BarLen = 4
  MaxMishap = 1
INVARIANTS
  OneOwner
  IdleIsDown
  ThreadBacked
  NicTargetsMapped
  InterruptsHeard
  AreasOrdered
  RingsApart
  NothingLeaks
  FaultHasCause
  WaitIsAnswered
SYMMETRY Symmetry
