\* Two writers on a Mongo backend with compaction.
CONSTANTS
  Backends = {"mongodb"}
  Requests = {r1, r2}
  Keys = {k1, k2}
  Passes = {p1, p2}
  MaxWrites = 3
  MaxFaults = 0
SPECIFICATION Spec
INVARIANT CompactionIsSafe

CHECK_DEADLOCK FALSE
