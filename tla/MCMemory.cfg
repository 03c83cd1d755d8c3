SPECIFICATION Spec
CONSTANTS
  ArenaSize = 9
  Requests <- MCRequests
  MaxFail = 2
INVARIANTS
  NoOverlap
  BuddyPresent
  
  FullyCoalesced
  FitIsFound
