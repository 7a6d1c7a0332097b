\* The whole session: two calls on one key, pacing, breaker, retries and deadline.
CONSTANTS
  Calls = {c1, c2}
  Keys = {k}
  Methods = {"GET", "POST"}
  Statuses = {200, 401, 429, 500}
  RetryAfters <- SomeHeaders
  Unrestricted = Unrestricted
  NoTotal = NoTotal
  RetryableStatuses = Unrestricted
  TotalTimeoutMs = 6
  Threshold = 1
  CooldownMs = 1
  TokenMs = 1
  Burst = 1
  Second = 1
  BaseMs = 1
  MaxBackoffMs = 2
  DefaultRetryWaitMs = 2
  MaxRetries = 1
  TimeoutMs = 1
  MaxRetryWaitMs = 3
  FreeClock = 2
SPECIFICATION FairSpec
INVARIANTS TypeOK AtMostOnce FailedFastMeansNotApplied TripsExactlyAtThreshold PacingRespected
PROPERTIES ImplementsContract EveryCallSettles
CHECK_DEADLOCK FALSE
