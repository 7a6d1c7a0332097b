SPECIFICATION Reads
CONSTANTS
  Null = Null
  Absent = Absent
  Thrown = Thrown
  Collections = {"M"}
  Atoms <- MCAtoms
  Seeds <- MCSeeds
  Table <- MCTable
  Idle <- MCIdle
  MaxOperators = 2
  Nothing = Nothing
  Unset = Unset
  DEFAULT_PAGE_SIZE = 2
  MAX_PAGE_SIZE = 3
  MAX_EXPAND_DEPTH = 3
  Backends = {"postgres", "sqlite", "mongodb"}
  Metadata <- MCMetadata
  Databases <- MCDatabases
  Requests <- MCRequests
INVARIANTS FiltersAreReadBack SqlKeepsTheMeaning OnlyNullsDiffer EmbeddedAreTheRelated WalkIsWhole
\* A walk ends, and a filter stops growing.
CHECK_DEADLOCK FALSE
