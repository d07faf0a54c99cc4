\* Two requests at the same time.
CONSTANTS
  Goroutines = {g1, g2}
  Names = {"a"}
  Incoming = {}
  MaxSpans = 2
  MaxDepth = 1
  MaxResumed = 0
SPECIFICATION Spec
INVARIANTS InfoCarriesOwnTrace
CHECK_DEADLOCK FALSE
