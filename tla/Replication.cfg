SPECIFICATION FairSpec
CONSTANTS
  Keys = {k1, k2, k3}
  Plans <- AllPlans
  DEFAULT_PAGE_SIZE = 2
  MAX_PAGE_SIZE = 2
  ClientPageSize = 2
  Unset = Unset
  NaN = NaN
  MaxErrorCount = 1
  StrictMode = TRUE
  MaxClock = 4
  MaxWrites = 1
  MaxFaults = 1
INVARIANTS WalksAreComplete UniqueCountIsExact
PROPERTY EveryRunEnds
CHECK_DEADLOCK FALSE
