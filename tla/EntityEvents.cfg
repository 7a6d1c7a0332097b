\* Three writes on two records, each backend, one fault.
CONSTANTS
  Backends = {"postgres", "sqlite", "mongodb"}
  Requests = {r1, r2}
  Keys = {k1, k2}
  Passes = {p1}
  MaxWrites = 3
  MaxFaults = 1
SPECIFICATION FairSpec
INVARIANTS EveryChangeIsAnnounced NothingIsMissed
PROPERTIES EveryChangeIsSeen
CHECK_DEADLOCK FALSE
