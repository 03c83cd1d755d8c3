SPECIFICATION Spec
CONSTANTS
  First = 1
  Stride = 2
  AddrLen = 5
  Route <- MCRoute
  MaxFail = 1
CHECK_DEADLOCK FALSE
INVARIANTS
  LookupLongest
  RefcountExact
  NoEmptyTable
  RefusedAsMeant
PROPERTIES
  Refines
  RouteMeant
  FailedUpdateHarmless
