SPECIFICATION CoreSpec
CONSTANTS
  Values = {1, 3, 5}
  StandardValues = {1}
  Clock = 2
  Instant <- Written
  SubsetMax = 1
  SampleTop = 2
  PageSize = 1
  MaxPages = 2
  Environments <- AllEnvironments
  Servers <- AllServers
  TopAsked = 2
  WalkBound = 3
  WalkPages = 2
INVARIANTS NoFalsePass FailureIsTheServers
CHECK_DEADLOCK FALSE
