\* One generation, one close.
CONSTANTS
  Callers = {c1}
  Configs = {{"async", "otlp", "telemetry"}}
  ChanSize = 1
  QueueSize = 1
  MaxInits = 1
  MaxCloses = 1
  MaxLines = 1
SPECIFICATION Spec
INVARIANTS CloseTerminates
CHECK_DEADLOCK FALSE
