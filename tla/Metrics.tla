------------------------------- MODULE Metrics -------------------------------
(***************************************************************************)
(* The metrics engine: InMemoryMetrics and its latency reservoirs          *)
(* (observability/metrics.go), used directly or behind otelMetrics         *)
(* (observability/otel_bridge.go), which records each call locally and     *)
(* passes it on to an OpenTelemetry instrument.  InMemoryMetrics has one   *)
(* mutex, so a local record and a snapshot are one step each; the bridge   *)
(* goes through several locks, one step each.                              *)
(*                                                                         *)
(* One counter, one latency and one gauge stand for all names.  A metric   *)
(* key is its label set.  Durations are in parts of a millisecond;         *)
(* snapshots (GetSummary) and what the /metrics handler makes of them      *)
(* (observability/exporter.go), which change nothing, are operators, and   *)
(* the text formats are left out.                                          *)
(***************************************************************************)
EXTENDS Integers, Sequences, FiniteSets, SequencesExt

CONSTANTS
  Recorders,   (* goroutines that record metrics                            *)
  Labels,      (* the label sets used, the empty one aside                  *)
  Durations,   (* the durations recorded                                    *)
  GaugeValues, (* the values gauges are set to; 0 stands for no gauge yet   *)
  PartsPerMs,  (* parts of a millisecond                                    *)
  MaxSamples,  (* capacity of a reservoir, 2000 in addSampleToReservoir     *)
  Limits,      (* bucket limits in milliseconds                             *)
  MaxCalls     (* bound: calls of the engine                                *)

ASSUME MetricsAssumption ==
  /\ "none" \notin Labels
  /\ Durations \subseteq Nat
  /\ GaugeValues \subseteq Nat \ {0}
  /\ PartsPerMs \in Nat \ {0}
  /\ MaxSamples \in Nat \ {0}
  /\ Limits \subseteq Nat
  /\ MaxCalls \in Nat

VARIABLES
  bridge,         (* EnableOTel: whether the engine is otelMetrics          *)
  counters,       (* InMemoryMetrics.counters                               *)
  latencyTotals,  (* InMemoryMetrics.latencyTotals                          *)
  latencyCounts,  (* InMemoryMetrics.latencyCounts                          *)
  reservoirs,     (* the samples of InMemoryMetrics.latencyReservoirs       *)
  gauges,         (* InMemoryMetrics.gauges                                 *)
  instruments,    (* the kinds otelMetrics has an instrument for            *)
  call,           (* call[g]: the call of otelMetrics g is in               *)
  forwarded,      (* what reached the OpenTelemetry instruments             *)
  otelGauges,     (* the value each OpenTelemetry gauge last received       *)
  asked,          (* history: the calls made                                *)
  plain,          (* history: those of otelMetrics that take no labels:     *)
                  (* IncCounter, RecordLatency and SetGauge                 *)
  unforwarded,    (* history: the calls without an instrument               *)
  observed,       (* history: the durations recorded locally, in order      *)
  contenders      (* history: the value of the latest call that set gauge k *)
                  (* and those of the calls under way when it began         *)

local == <<counters, latencyTotals, latencyCounts, reservoirs, gauges, observed>>
vars  == <<bridge, local, instruments, call, forwarded, otelGauges, asked,
           plain, unforwarded, contenders>>

Kinds == {"counter", "latency", "gauge"}
NoLabels == "none"
Keys == Labels \union {NoLabels}
Idle == [step |-> "idle", kind |-> "counter", key |-> NoLabels, val |-> 0]
Tallies == [Kinds -> [Keys -> Nat]]
Zero == [kind \in Kinds |-> [k \in Keys |-> 0]]
CallsMade == FoldFunction(LAMBDA f, n : n + FoldFunction(+, 0, f), 0, asked)

Milliseconds(d) == d \div PartsPerMs

(* The goroutines in a call of the kind on key k, at one of the steps.      *)
Inside(steps, kind, k) ==
  {g \in Recorders : /\ call[g].step \in steps
                     /\ call[g].kind = kind
                     /\ call[g].key = k}

AllSteps == {"again", "instrument", "forward"}

-----------------------------------------------------------------------------
Init ==
  /\ bridge \in BOOLEAN
  /\ counters = [k \in Keys |-> 0]
  /\ latencyTotals = [k \in Keys |-> 0]
  /\ latencyCounts = [k \in Keys |-> 0]
  /\ reservoirs = [k \in Keys |-> <<>>]
  /\ gauges = [k \in Keys |-> 0]
  /\ instruments = {}
  /\ call = [g \in Recorders |-> Idle]
  /\ forwarded = Zero
  /\ otelGauges = [k \in Keys |-> 0]
  /\ asked = Zero
  /\ plain = [kind \in Kinds |-> 0]
  /\ unforwarded = Zero
  /\ observed = [k \in Keys |-> <<>>]
  /\ contenders = [k \in Keys |-> {}]

IncCounter(k) ==
  /\ counters' = [counters EXCEPT ![k] = @ + 1]
  /\ UNCHANGED <<latencyTotals, latencyCounts, reservoirs, gauges, observed>>

(* Mutant of Added: the newest sample goes.                                 *)
AddedOverNewest(s, val) ==
  Append(IF Len(s) >= MaxSamples THEN Front(s) ELSE s, val)

(* Mutant of Added: a sample goes before the reservoir is full.             *)
AddedEarly(s, val) == Append(IF Len(s) >= MaxSamples - 1 THEN Tail(s) ELSE s, val)

(* latencyReservoir.Add: a full reservoir loses its oldest sample.          *)
Added(s, val) == Append(IF Len(s) >= MaxSamples THEN Tail(s) ELSE s, val)

RecordLatency(k, d) ==
  /\ latencyTotals' = [latencyTotals EXCEPT ![k] = @ + d]
  /\ latencyCounts' = [latencyCounts EXCEPT ![k] = @ + 1]
  /\ reservoirs' = [reservoirs EXCEPT ![k] = Added(@, Milliseconds(d))]
  /\ observed' = [observed EXCEPT ![k] = Append(@, d)]
  /\ UNCHANGED <<counters, gauges>>

SetGauge(k, v) ==
  /\ gauges' = [gauges EXCEPT ![k] = v]
  /\ UNCHANGED <<counters, latencyTotals, latencyCounts, reservoirs, observed>>

RecordLocally(kind, k, v) ==
  \/ kind = "counter" /\ IncCounter(k)
  \/ kind = "latency" /\ RecordLatency(k, v)
  \/ kind = "gauge" /\ SetGauge(k, v)

(* The values of the calls under way that set gauge k.                      *)
Pending(k) == {call[g].val : g \in Inside(AllSteps, "gauge", k)}

(* A call of the engine, up to its local record.  An empty set of labels    *)
(* makes the same key as no labels (formatMetricKey).  The bridge's         *)
(* IncCounter, RecordLatency and SetGauge record the call, and hand it to   *)
(* the variants that take labels, which record it again, under the same     *)
(* key; so a gauge is written a second time, with its value of before.      *)
(* Those variants, called directly, record a call once, also without labels.*)
Record(g, kind, k, v) ==
  /\ call[g] = Idle
  /\ CallsMade < MaxCalls
  /\ asked' = [asked EXCEPT ![kind][k] = @ + 1]
  /\ RecordLocally(kind, k, v)
  /\ contenders' = IF kind # "gauge" THEN contenders
                   ELSE [contenders EXCEPT ![k] = {v} \union Pending(k)]
  /\ \/ ~bridge /\ UNCHANGED <<call, plain>>
     \/ /\ bridge /\ k = NoLabels
        /\ call' = [call EXCEPT ![g] =
             [step |-> "again", kind |-> kind, key |-> k, val |-> v]]
        /\ plain' = [plain EXCEPT ![kind] = @ + 1]
     \/ /\ bridge
        /\ call' = [call EXCEPT ![g] =
             [step |-> "instrument", kind |-> kind, key |-> k, val |-> v]]
        /\ UNCHANGED plain
  /\ UNCHANGED <<bridge, instruments, forwarded, otelGauges, unforwarded>>

(* Mutant of RecordAgain: the second record is left out.                    *)
RecordAgainNot(g) ==
  /\ call[g].step = "again"
  /\ call' = [call EXCEPT ![g].step = "instrument"]
  /\ UNCHANGED <<bridge, local, instruments, forwarded, otelGauges, asked,
                 plain, unforwarded, contenders>>

RecordAgain(g) ==
  /\ call[g].step = "again"
  /\ RecordLocally(call[g].kind, call[g].key, call[g].val)
  /\ call' = [call EXCEPT ![g].step = "instrument"]
  /\ UNCHANGED <<bridge, instruments, forwarded, otelGauges, asked,
                 plain, unforwarded, contenders>>

(* Mutant of Instrument: a new instrument is filed, and not used at once.   *)
InstrumentOnlyFiled(g) ==
  LET c == call[g] IN
  /\ c.step = "instrument"
  /\ instruments' = instruments \union {c.kind}
  /\ call' = [call EXCEPT ![g] = IF c.kind \in instruments
                                 THEN [@ EXCEPT !.step = "forward"]
                                 ELSE Idle]
  /\ UNCHANGED <<bridge, local, forwarded, otelGauges, asked, plain, unforwarded,
                 contenders>>

(* The instrument is looked up, or created, which can fail.                 *)
Instrument(g) ==
  LET c == call[g] IN
  /\ c.step = "instrument"
  /\ \/ /\ instruments' = instruments \union {c.kind}
        /\ call' = [call EXCEPT ![g].step = "forward"]
        /\ UNCHANGED unforwarded
     \/ /\ c.kind \notin instruments
        /\ call' = [call EXCEPT ![g] = Idle]
        /\ unforwarded' = [unforwarded EXCEPT ![c.kind][c.key] = @ + 1]
        /\ UNCHANGED instruments
  /\ UNCHANGED <<bridge, local, forwarded, otelGauges, asked, plain, contenders>>

(* Int64Counter.Add, Float64Histogram.Record or Float64Gauge.Record.        *)
Forward(g) ==
  LET c == call[g] IN
  /\ c.step = "forward"
  /\ forwarded' = [forwarded EXCEPT ![c.kind][c.key] = @ + 1]
  /\ otelGauges' = IF c.kind # "gauge" THEN otelGauges
                   ELSE [otelGauges EXCEPT ![c.key] = c.val]
  /\ call' = [call EXCEPT ![g] = Idle]
  /\ UNCHANGED <<bridge, local, instruments, asked, plain, unforwarded, contenders>>

Next ==
  \E g \in Recorders :
    \/ \E k \in Keys : Record(g, "counter", k, 0)
    \/ \E k \in Keys, d \in Durations : Record(g, "latency", k, d)
    \/ \E k \in Keys, v \in GaugeValues : Record(g, "gauge", k, v)
    \/ RecordAgain(g)
    \/ Instrument(g)
    \/ Forward(g)

Spec == Init /\ [][Next]_vars

-----------------------------------------------------------------------------
(* GetSummary                                                               *)

(* sort.Float64s: the samples in ascending order.                           *)
Sorted(samples) ==
  LET order == CHOOSE q \in [DOMAIN samples -> DOMAIN samples] :
                 \A i, j \in DOMAIN samples :
                   i < j => q[i] # q[j] /\ samples[q[i]] <= samples[q[j]]
  IN  [i \in DOMAIN samples |-> samples[order[i]]]

(* Mutant of Percentile: the index of the code, taken to count from 1.      *)
PercentileFromOne(sorted, p) ==
  LET idx == (Len(sorted) * p) \div 100
  IN  IF idx > 0 THEN sorted[idx] ELSE 0

(* extractPercentile on sorted samples, p in percent.                       *)
Percentile(sorted, p) ==
  LET idx == (Len(sorted) * p) \div 100
  IN  IF idx < Len(sorted) THEN sorted[idx + 1] ELSE 0

(* Buckets: the samples within a limit.                                     *)
Bucket(samples, limit) ==
  Cardinality({i \in DOMAIN samples : samples[i] <= limit})

(* writeHistograms: what /metrics shows of a latency.  The count is the     *)
(* "+Inf" bucket; the sum is the average over all observations, which       *)
(* copyLatenciesToSummary takes in whole milliseconds, times that count.    *)
Exposed(k) ==
  [buckets |-> [limit \in Limits |-> Bucket(reservoirs[k], limit)],
   count   |-> Len(reservoirs[k]),
   sum     |-> IF latencyCounts[k] = 0 THEN 0
               ELSE (Milliseconds(latencyTotals[k]) * Len(reservoirs[k]))
                      \div latencyCounts[k]]

-----------------------------------------------------------------------------
TypeOK ==
  /\ bridge \in BOOLEAN
  /\ counters \in [Keys -> Nat]
  /\ latencyTotals \in [Keys -> Nat]
  /\ latencyCounts \in [Keys -> Nat]
  /\ reservoirs \in [Keys -> Seq(Nat)]
  /\ \A k \in Keys : Len(reservoirs[k]) <= MaxSamples
  /\ instruments \subseteq Kinds
  /\ gauges \in [Keys -> GaugeValues \union {0}]
  /\ otelGauges \in [Keys -> GaugeValues \union {0}]
  /\ contenders \in [Keys -> SUBSET GaugeValues]
  /\ call \in [Recorders -> [step : AllSteps \union {"idle"},
                             kind : Kinds, key : Keys,
                             val : Durations \union GaugeValues \union {0}]]
  /\ plain \in [Kinds -> Nat]
  /\ forwarded \in Tallies /\ asked \in Tallies /\ unforwarded \in Tallies
  /\ observed \in [Keys -> Seq(Durations)]

(* PartialSums(s)[n]: the sum of the first n samples.                       *)
PartialSums(s) ==
  LET sums[n \in 0..Len(s)] == IF n = 0 THEN 0 ELSE sums[n - 1] + s[n]
  IN  sums

Sum(s) == PartialSums(s)[Len(s)]

(* latencyReservoir (README section 13): a reservoir is the sliding window  *)
(* of the latest observations, whoever records, and as long as none has     *)
(* left it the exported sum is that of the samples, but for the part of a   *)
(* millisecond that each sample was cut by.                                 *)
WindowIsRecent ==
  \A k \in Keys :
    LET n == Len(observed[k])
        s == reservoirs[k]
    IN  /\ latencyCounts[k] = n
        /\ Len(s) = IF n < MaxSamples THEN n ELSE MaxSamples
        /\ \A i \in 1..Len(s) : s[i] = Milliseconds(observed[k][n - Len(s) + i])
        /\ n <= MaxSamples =>
             Milliseconds(latencyTotals[k]) \in Sum(s)..(Sum(s) + Len(s))

(* GetSummary: the percentiles, found by sorting, and the buckets, found by *)
(* counting, tell the same story: a percentile is within a limit exactly    *)
(* when more than that share of the samples are.                            *)
HistogramMatchesPercentiles ==
  \A k \in Keys : reservoirs[k] # <<>> =>
    LET sorted == Sorted(reservoirs[k])
    IN  \A p \in {50, 90, 99}, limit \in Limits :
          Percentile(sorted, p) <= limit
            <=> 100 * Bucket(reservoirs[k], limit) > p * Len(reservoirs[k])

Recorded(kind, k) == IF kind = "counter" THEN counters[k] ELSE latencyCounts[k]

(* otel_bridge.go: every call reaches its instrument exactly once, unless   *)
(* there is none.  In the local engine it counts once when it was made with *)
(* a set of labels, be it empty, and twice when it was made with IncCounter *)
(* or RecordLatency of the bridge: there /metrics shows double the counts   *)
(* that OpenTelemetry has.                                                  *)
BridgeTallies ==
  \A kind \in Kinds, k \in Keys :
    /\ kind # "gauge" =>
         Recorded(kind, k) =
           asked[kind][k] + (IF k = NoLabels THEN plain[kind] ELSE 0)
             - Cardinality(Inside({"again"}, kind, k))
    /\ bridge =>
         forwarded[kind][k] = asked[kind][k] - unforwarded[kind][k]
           - Cardinality(Inside(AllSteps, kind, k))

(* SetGauge: when no call that sets a gauge is under way, both engines show *)
(* the value of the latest call, or of one that was under way when it began;*)
(* a call that had returned by then never comes back.  They                 *)
(* need not show the same one: the second local record of the bridge        *)
(* (otel_bridge.go:153) can bring a value back that another call replaced,  *)
(* and nothing orders the records of OpenTelemetry.                         *)
GaugesSettle ==
  \A k \in Keys :
    (asked["gauge"][k] > 0 /\ Inside(AllSteps, "gauge", k) = {}) =>
      /\ gauges[k] \in contenders[k]
      /\ (bridge /\ unforwarded["gauge"][k] = 0) =>
           otelGauges[k] \in contenders[k]

(* exporter.go writeHistograms: until the window is full, the buckets, the  *)
(* count and the sum that /metrics shows never fall, as those of a          *)
(* Prometheus histogram may not.  Afterwards they do: the count stays at    *)
(* the size of the window, a bucket falls as its samples leave, and the sum *)
(* follows the average.                                                     *)
HistogramGrows ==
  [][\A k \in Keys : Len(reservoirs[k]) < MaxSamples =>
       LET before == Exposed(k)
           after  == Exposed(k)'
       IN  /\ after.count >= before.count
           /\ after.sum >= before.sum
           /\ \A limit \in Limits :
                after.buckets[limit] >= before.buckets[limit]]_vars
=============================================================================
