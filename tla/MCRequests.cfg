\* Two goroutines, both tracers, every place of the recovery middleware.
CONSTANTS
  Goroutines = {g1, g2}
  Names = {"a"}
  Incoming = {101, 102}
  Dashed = {102}
  WideIncoming = {101}
  Responders = {g1}
  MaxPayload = 1
  MaxSent = 2
  MaxSpans = 3
  MaxDepth = 2
  MaxResumed = 1
SPECIFICATION PipelineSpec
INVARIANTS PipelineTypeOK DepthMatchesOpen RegistryMatchesOpen OutboundCarriesOwn PanicEntryTrace ResponseReported
CHECK_DEADLOCK FALSE
