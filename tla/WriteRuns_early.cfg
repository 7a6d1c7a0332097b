CONSTANTS
  Runs <- MCRuns
  Fresh = {f1, f2, f3}
  Theirs = {t1}
  Missing = missing
  None = none
  MaxPolls = 2
  MaxOthers = 2
CHECK_DEADLOCK FALSE
SPECIFICATION Spec
INVARIANT EarlyEndLeavesNothing
