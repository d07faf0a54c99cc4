\* Two recorders of four calls; reservoirs of three samples, which overflow;
\* durations of half a millisecond and of 2 and a half; two values of gauges.
CONSTANTS
  Recorders = {g1, g2}
  Labels = {"l"}
  Durations = {1, 5}
  GaugeValues = {1, 2}
  PartsPerMs = 2
  MaxSamples = 3
  Limits = {0, 1}
  MaxCalls = 4
SPECIFICATION Spec
INVARIANTS WindowIsRecent HistogramMatchesPercentiles BridgeTallies GaugesSettle
PROPERTIES HistogramGrows
CHECK_DEADLOCK FALSE
