\* Two callers, one retry each, and a breaker that opens at the first failure.
CONSTANTS
  Callers = {c1, c2}
  Retries = 1
  Backoff = 1
  RatioNum = 1
  RatioDen = 2
  ConsecutiveLimit = 1
  Cooldown = 1
  MaxTotal = 3
  MaxFaults = 4
SPECIFICATION Spec
INVARIANTS OpenShieldsBackend
PROPERTIES ImplementsBreaker Recovers
CHECK_DEADLOCK FALSE
