\* Two generations in every order of two configurations, and two closes.
CONSTANTS
  Callers = {c1}
  Configs = {{"async", "otlp", "limit"}, {"file", "telemetry"}}
  ChanSize = 1
  QueueSize = 1
  MaxInits = 2
  MaxCloses = 2
  MaxLines = 2
SPECIFICATION Spec
INVARIANTS TypeOK CloseFlushes CloseStopsCurrent ExportedWhereLogged
PROPERTIES ImplementsSink FirstCloseReturns
CHECK_DEADLOCK FALSE
