\* Two requests that share a token provider: expiry, two revocations or refused refreshes.
CONSTANTS
  r1 = r1
  r2 = r2
  Requests = {r1, r2}
  Methods <- CreateAndAny
  Statuses = {200, 503}
  Ttls <- UnstatedShortOrPast
  NotStated = NotStated
  DefaultTtl = 2
  RefreshNum = 1
  RefreshDen = 2
  Second = 1
  BaseMs = 1
  MaxBackoffMs = 1
  DefaultRetryWaitMs = 1
  RetryableStatuses = Unrestricted
  Unrestricted = Unrestricted
  MaxRetries = 1
  TimeoutMs = 1
  MaxFaults = 2
SPECIFICATION TimerFairSpec
INVARIANTS RevocationIsSurvived
PROPERTIES NeverSendsExpired OnlyTheEndpointHangs
CHECK_DEADLOCK FALSE
