\* Two telemetry loops and three calls of Init; profiles longer than the cooldown.
CONSTANTS
  Loops = {l1, l2}
  MaxInits = 3
  Cooldown = 2
  Duration = 3
SPECIFICATION ProfilerSpec
INVARIANTS RuntimeProfileOwned
PROPERTIES ReadyAgainUnlessFailed
CHECK_DEADLOCK FALSE
