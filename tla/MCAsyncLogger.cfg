\* Two goroutines that log two lines each, two that close, two slots.
CONSTANTS
  Producers = {p1, p2}
  Closers = {c1, c2}
  RequestedSize = 2
  WriterIsCloser = TRUE
  MaxEntries = 2
SPECIFICATION Spec
INVARIANTS QueueConservation OnlyLateEntriesStranded TeardownOrder
PROPERTIES ImplementsSink CloseReturns
CHECK_DEADLOCK FALSE
