\* Every endorsement, with at most two flags set at once.
SPECIFICATION FairSpec
CONSTANTS
  Endorsements = {"dd", "core", "add-edit", "entity-event", "rcf"}
  MaxFlags = 2
INVARIANTS ReportAgreesWithResult CertifiedMeansTested
PROPERTIES EveryRunReports
\* A finished run stops.
CHECK_DEADLOCK FALSE
