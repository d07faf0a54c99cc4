\* Burst 2, one token every two ticks, twelve refusals within reach.
CONSTANTS
  Burst = 2
  Rate = 1
  TicksPerSecond = 2
  MaxTicks = 8
  MaxCalls = 13
SPECIFICATION LimiterSpec
INVARIANTS WindowBound BucketMatchesHistory
PROPERTIES ImplementsContract
CHECK_DEADLOCK FALSE
