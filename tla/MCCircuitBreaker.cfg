\* The 50% threshold, four failures in a row, results past the sample size.
CONSTANTS
  RatioNum = 1
  RatioDen = 2
  ConsecutiveLimit = 4
  Cooldown = 1
  MaxTotal = 11
  MaxFaults = 6
  MaxInFlight = 2
SPECIFICATION Spec
INVARIANTS CountsMatchResults ClosedIffNeverTripped CooldownRespected
CHECK_DEADLOCK FALSE
