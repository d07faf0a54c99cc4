# Orkai Observability in TLA+

Orkai Observability (`src/`) is a Go package that an application links in to
get structured logs, metrics, traces, profiles and outbound HTTP calls with
retries and a circuit breaker. Behind a small facade it runs several
goroutines, shares state between all the goroutines of the application, and has
queues, a token bucket, a breaker, a rotating file and a process-wide stack.
This directory specifies those parts in TLA+, model-checks them with TLC, and
proves some of their properties with TLAPS.

1. [The system](#1-the-system)
2. [Modules](#2-modules)
3. [Runs](#3-runs)
4. [Fairness](#4-fairness)
5. [Proofs](#5-proofs)
6. [Where the code and its documents disagree](#6-where-the-code-and-its-documents-disagree)
7. [What is not modelled](#7-what-is-not-modelled)
8. [Plan](#8-plan)

To check a module: `tlc -config MCAsyncLogger.cfg AsyncLogger.tla`. To check
its proofs: `tlapm AsyncLoggerProofs.tla`. `PROJECT.json` maps each definition to the lines
it models, and lists the runs, the hazards and the theorems.

## 1. The system

All paths are under `src/observability/`.

| part | state | operations | correct when |
|---|---|---|---|
| `LogRateLimiter` (`limiter.go`) | tokens, time of the last refill, refusals counted; one mutex | `Allow` | no window of time admits more than burst + rate * length; nothing is refused while there is room; every tenth refusal is a sample |
| delivery of `JSONLogger` (`logger.go`) | `asyncChan`, `asyncStop`, a wait group, the plain bool `asyncEnabled`, the writer | `deliverLog` on any goroutine, the worker, `Close` | every line is passed on once, in the order of the channel; nothing queued before `Close` is lost; the writer is closed after the worker |
| `CircuitBreaker` (`resilience.go`) | state, three counters, time of the last change; one mutex | `Allow`, `RecordResult` | it opens exactly by its rule, stays open for a cooldown, follows its state diagram, whichever order results arrive in |
| `ResilientRoundTripper` (`resilience.go`) | none but each call's attempt count | `RoundTrip`, with retries and pauses | one result recorded per admitted call; an open breaker shields the backend from new calls |
| trace correlation (`tracer.go`, `otel_bridge.go`, `middleware.go`) | `traceStack`, one for the process; `otelTracer.spans` by trace id and name | `StartTrace`, `EndTrace`, `resumeTrace`, `GetActiveTraceID` | pushes and pops balance; a log line carries the id of its own span; each `EndTrace` ends its span |
| `OTLPExporter` (`otlp_exporter.go`) | two channels, the worker's two batches, `stopChan` | `ExportSpan`, `ExportLog`, the worker, `Close` | each item is posted at most once, in order; what was queued before `Close` has been posted when it returns |
| `RotatingFileWriter` (`rotating_file.go`) | the open file, its size, the backups on disk; one mutex | `Write` with `rotate`, `Close`, a new process | files stay bounded; a line is lost only after all older ones; the size in memory is that on disk |
| `AutoProfiler` (`pprof_trigger.go`, `sys_telemetry.go`) | `isProfiling`, `lastRun`; the global `globalProfiler`; the one CPU profile of the Go runtime | `CheckAndTrigger` from telemetry loops, the goroutines of a profile | no profiler stops another's profile; it becomes ready again |
| metrics (`metrics.go`, `otel_bridge.go`, `exporter.go`) | counters, gauges, totals and counts, a reservoir of 2000 samples per key; instruments of the bridge | `IncCounter`, `RecordLatency`, `SetGauge`, their labelled variants, `GetSummary`, `/metrics` | reservoirs are the latest samples; percentiles and buckets agree; every call counted and forwarded; local and forwarded gauges settle on a latest value; exported histograms grow |
| facade (`observability.go`) | `globalInstance`, `globalExporter`, `globalProfiler`, the telemetry loop's cancel function | `Init`, `Close`, `SetLogger`, `Info` and its kin | `Close` flushes and stops everything of its generation; a line goes to the exporter of the generation whose logger has it |
| requests (`middleware.go`, `panic_middleware.go`, `sql_tracer.go`) | per request: the id in its context, the `responseWriterWrapper` | `HTTPMiddleware`, `PanicRecoveryMiddleware`, `TraceSQL` around a handler | spans nest, also through a panic; what is reported is what was sent; an entry about a panic carries the request's id |
| propagation (`propagation.go`, `transport.go`, `context.go`) | headers | `ExtractTraceID`, `InjectTraceID`, `TracingRoundTripper` | an outbound call carries the caller's own id, and the callee reads that id |

How they interact. `Info` and its siblings test the level, take an id from the
trace stack, ask the limiter, format, then deliver: a copy of the line goes to the
OTLP exporter's channel, the line itself to `asyncChan` or to the writer, which is
`os.Stdout` or a `RotatingFileWriter`. `EndTrace` exports its span and pops the
stack. `HTTPMiddleware` starts or resumes a span around each request.
The telemetry loop sets gauges and asks the profiler. `Init` builds it
all and stores it in package globals without a lock; `Close` cancels the loop,
closes the exporter, then the logger.

What is hard. Goroutines meet in channels that are closed under them, in flags
that are read without a lock, and in a stack that all of them share. Results of
calls admitted long ago arrive at a breaker that has changed state since. File
operations fail, and processes crash, in the middle of a rotation. A profile
that cannot start leaves its flag behind. The list of such hazards, each at its
line and with the properties that watch it, is in `PROJECT.json`.

## 2. Modules

Each module models one part, with one action for each step at which another
goroutine can be seen or can interfere: an operation under a mutex is one step,
a channel operation, an unlocked read, a write or a file operation is one step
each. Variables have the names of the fields they model; variables commented
"history" exist only for the properties, and no guard but that of a bound reads
them. Definitions commented "Mutant of X" are plausible mistakes in X: with one
of them in X's place, TLC finds the property named in `PROJECT.json` violated.

**RateLimiter** (`limiter.go`). `TakeToken` and `SkipEntry` are the two ways
through `Allow`, both on the bucket as `Refilled` finds it. Tokens are
counted in parts, `TicksPerSecond` to one token, so that elapsed * rate is a
whole number; float rounding is not modelled. **RateLimitContract** states
the same promise without a bucket: an entry is admitted exactly when every window of
time ending now has room for it. RateLimiter implements it.

**AsyncLogger** (`logger.go:250-333`). Producers go through `deliverLog` (`Deliver`
reads the flag; `Send`, `FallBack` and `SendPanics` are the `select`;
`WriteDirect` is the synchronous path), the worker through `asyncWorker` and
`flushChan`, closers through `Close`, a step per line. `Init` covers loggers
with and without `ConfigureAsync`. **LogSink** is the abstract logger: an entry is
pending, then written or lost, lost only once a close has begun, and resolved
eventually. AsyncLogger implements it: an entry is lost when it is written to a
closed writer, when its send panics, or when it sits in a channel without a worker.

**CircuitBreaker** (`resilience.go:11-131`). `Admit` is `Allow` answering true,
`RecordFailure` and `RecordSuccess` are `RecordResult` with the evaluation, `Trip`
and `Reset` the two helpers. Time since the last change is an age that stops
counting one tick after the cooldown, where `Allow` no longer tells ages apart.

**ResilientTransport** (`resilience.go:133-214`) composes CircuitBreaker, by
INSTANCE, with callers in `RoundTrip`: `Enter` or `Refuse`, then `Answer`, a sleep
and `Wake` for each retry, then `Record`. It implements CircuitBreaker: a call in
flight there is a caller inside `RoundTrip` here.

**Tracing** (`tracer.go`, `otel_bridge.go`, `middleware.go:51-75`). Goroutines open
and end nested spans, innermost first, as `defer EndSpan(span)` does, through
`LocalTracer` or `otelTracer` (`bridge`); requests may resume a caller's trace, with
an id that another service made or, when a service called from here calls back, with
one made here. Ids are random, so none is made twice. The
bridge's push, its filing of the span, the end of a span and its pop are steps of
their own. `taken` counts the spans on file that a resumed request ended in another's
place, until the other has missed them.

**Propagation** (`propagation.go`, `transport.go`). A pure module: `InjectTraceID`
writes headers, `ExtractTraceID` reads them, in the order of precedence of the
code. A text is the sequence of its parts between dashes, which is all the code looks
at besides the 32 characters of an id (`wide`).

**RequestPipeline** (`middleware.go`, `panic_middleware.go`, `sql_tracer.go`) composes
Tracing and Propagation: `Arrive` is `HTTPMiddleware` up to the handler, which may
then nest spans, write statuses and bytes (`Respond`), return or panic.
A panic unwinds the handler's spans, and meets the recovery middleware inside
(`RecoverInside`) or outside of `HTTPMiddleware` (`UnwindRequest`, `RecoverOutside`), or
nowhere (`Abort`). Beside requests, goroutines have spans of their own
(`JobSpan`). What an outbound call would carry at any moment is the operator
`OutboundHeaders`.

**Facade** (`observability.go`, `logger.go`, `otlp_exporter.go`). One goroutine calls
`Init` and `Close` in any sequence, one assignment to a global per step (`InitLogger`,
`InitStore`, `InitExporter`; `CloseBegin` to `CloseWriter`), and `SetLogger` comes at any
moment, while others log (`Call`, then `Export`, `Flag`, `Send`, `FallBack`, `Write`).
Each `Init` makes a generation of logger, exporter and telemetry loop; `inst`,
`exporter` and `cancel` say whose the three globals are. It composes what
AsyncLogger and OTLPExporter model one by one, and is coarser there: queues are
sets, a worker handles a line in a step. All generations together implement
**LogSink**.

**OTLPExporter** (`otlp_exporter.go`). Spans and logs take the same road, so
channels and batches are functions of the kind. `WorkerTick`, `PostSpans` and
`PostLogs` are a flush by the ticker; `WorkerStop`, the four Drain actions, `LastSpans`
and `LastLogs` are the drain. A post succeeds or fails; the code treats both alike
but for a counter.

**RotatingFile** (`rotating_file.go`). One write at a time, since `Write` holds the
mutex, but a step for each file operation: `RotateClose`, `ShiftBackup` once per backup,
`RenameCurrent`, `RotateOpen`, `AppendLine`. Each may fail as the code lets it
fail, and between any two the process may crash and be restarted.

**AutoProfiler** (`pprof_trigger.go`, `sys_telemetry.go`, `observability.go:40-52`).
Several telemetry loops, and one profiler for every call of `Init`, since the loops
and profiles of an earlier `Init` go on. `cpu` is the profile the Go runtime takes.

**Metrics** (`metrics.go`, `otel_bridge.go:72-174`, `exporter.go:83-118`). `Record` is
the first local record of a call, `RecordAgain` the second one that the bridge's
`IncCounter`, `RecordLatency` and `SetGauge` make, `Instrument` and `Forward` the way to
the SDK. The variants that take labels, called with none, share the key of these three
and record once; `plain` counts which way a call came.
`SetGauge` takes the same road. Snapshots change nothing and are operators
(`Percentile`, `Bucket`, and `Exposed`, the histogram that `/metrics` prints).

The proofs are in eight modules beside these: **AdmissionProofs** (of RateLimiter and
CircuitBreaker), **AsyncLoggerProofs**, **ResilientTransportProofs**, **OTLPExporterProofs**,
**DiskProofs** (of RotatingFile and AutoProfiler), **MetricsProofs**, **FacadeProofs** and
**RequestPipelineProofs** (of Tracing, Propagation and RequestPipeline). Where one module
extends two, the names of RateLimiter and AutoProfiler that would clash carry a
prefix (`LimiterSpec`, `ProfilerSpec`).

## 3. Runs

The passing runs check every property of their module on one instance:

| run | what it shows | bounds, and why they suffice | distinct states |
|---|---|---|---|
| `rate_limiter` | windows are bounded, the bucket is what its history says, the contract is implemented, samples included | burst 2, a token every second tick, 8 ticks: the bucket empties, refills in part, is cut at its capacity; 13 calls: past the tenth refusal | 25 140 |
| `async_logger` | order, delivery once, what `Close` may lose, teardown, return of `Close`, the sink | 2 producers of 2 lines for a channel of 2: it fills and falls back; 2 closers: the race of the flag and the double close | 58 815 |
| `circuit_breaker` | counters, rule, cooldown, diagram | 2 calls in flight: a result that is late; 11 results: one past the sample of 10; limits 50 % and 4, so that either trips first | 28 785 |
| `resilient_transport` | protocol, shielding, recovery | 2 callers with one retry: one sleeps or is in flight while the other trips or probes; the breaker trips at the first failure, so that few steps reach each state | 14 490 |
| `requests` | balance and registry of spans, what outbound calls carry, what a panic and a response leave in the log | 2 goroutines, of which one writes responses, with either tracer and each place of the recovery; 3 spans, 2 deep: siblings and nesting; one resumed request, with an id of 32 characters (101), a dashed one (102) or one made here: a call back to the path it began at, or to another; a payload of 1 byte and up to 2 sent: it is filled exactly and overrun | 3 076 965 |
| `facade` | what `Close` flushes and stops, which exporter a line reaches, the sink, return of `Close` | 2 calls of `Init`, in any order of a configuration with every queue and one with a file and a loop; 2 of `Close`, so that the second meets a closed generation or a new one; 2 lines into channels of 1: the second finds them full | 482 596 |
| `otlp_exporter` | posting once and in order, draining, progress | channels of 2 for 3 items: full ones drop; 2 closers: the double close. Exports are atomic, so that one producer stands for several | 39 936 |
| `rotating_file` | sizes, order of loss, number of backups | 0, 2 or 3 backups, 6 lines shorter than, as long as and longer than a file: enough rotations to evict from 3 backups; one fault and one crash, anywhere | 2 102 782 |
| `auto_profiler` | ownership of the runtime profile, readiness | 2 loops, 3 profilers, a profile longer than the cooldown: profiles of different profilers overlap | 31 825 |
| `metrics` | windows, percentiles against buckets, tallies, gauges, exported histograms | reservoirs of 3 and up to 4 calls, up to 8 records with the bridge: they overflow; durations of half a millisecond and of 2 and a half, which are cut to milliseconds; limits of 0 and 1, the one met by a sample, the other between two; 2 recorders and 2 values of gauges: one overtakes the other | 1 559 694 |

The reservoir of 3 stands for the 2000 of the code, the channels of 2 for those of
4096. In none of the modules does a size occur but in the comparison with the
length.

Two runs expect a violation and are explained in section 6:
`tracing_correlation` and `facade_terminates`.

The properties to read first:

- `BucketMatchesHistory` (RateLimiter): the bucket holds exactly the least room any
  window of the history leaves. The rate bound and the contract follow from it.
- `OnlyLateEntriesStranded` and `TeardownOrder` (AsyncLogger): `Close` loses only
  what was sent after it had begun, and takes channel and writer away only from a
  worker that has returned, even when two calls of `Close` race.
- `ClosedIffNeverTripped` and `CooldownRespected` (CircuitBreaker): the state follows
  from the history of results and trips.
- `OpenShieldsBackend` (ResilientTransport): while the breaker is open, only
  calls admitted before the trip are at the backend, or sleep before going back
  there.
- `CloseStopsCurrent`, `ExportedWhereLogged` and `ImplementsSink` (Facade): the
  globals are replaced one by one, and `Close` works on what they hold by then.
  What still runs after it was abandoned by an `Init` or a `SetLogger`; the logger and the
  exporter of a line are of one generation unless an `Init` overlaps with the call; no
  line is lost before the first `Close`.
- `DepthMatchesOpen`, `RegistryMatchesOpen` (RequestPipeline): although every pop is
  blind and spans are filed under a key that siblings share, depths and counts stay
  right, also through panics; only ids get mixed up. Each `EndTrace` of the bridge that
  finds no span leaves one id behind for good, which the variable `left` counts: that of a
  resumed request, or that of a span which a resumed request has ended before. The last
  happens when a call comes back to the path it began at, and is set aside by `taken`; that
  no span is lost and left running holds all the same.
- `OutboundCarriesOwn` (RequestPipeline): what remains of end-to-end correlation, with
  its three exceptions: goroutines whose spans overlap, ids with a dash, ids left behind.
- `PanicEntryTrace`, `ResponseReported` (RequestPipeline): the order in which the
  middlewares are wrapped decides whose id an entry carries; a wrapper and the server
  may keep different statuses.
- `OnlyOldestLost` (RotatingFile): unless a file operation fails, the disk holds
  a suffix of what was logged, also after crashes within rotations.
- `RuntimeProfileOwned` (AutoProfiler): `StopCPUProfile` would stop anybody's profile,
  and never does so among the package's own profilers. (A profile the application starts through
  `runtime/pprof` itself is outside the model.)
- `ReadyAgainUnlessFailed` (AutoProfiler): a busy profiler gets ready again, except
  one whose start failed; that one never does.
- `HistogramMatchesPercentiles` (Metrics): sorting and counting agree at every
  limit.
- `GaugesSettle`, `HistogramGrows` (Metrics): once no call is under way, local and
  forwarded gauges each show the value of the latest call or of one that was under way when
  it began, though not always of the same one; what `/metrics` prints grows until the window is full.

CHECK_DEADLOCK is off in every run: each module bounds its calls, lines, ticks or
faults, and stops when they are used up.

## 4. Fairness

Only the modules with liveness or refinement of a fair specification state
fairness, all of it weak:

- AsyncLogger: every goroutine that is within `deliverLog` or `Close`, and the
  worker, goes on. That is what the Go scheduler gives. Nobody has to log, or to
  call `Close`. A producer is never blocked in the code (its `select` has a default),
  and the writer is taken to return.
- Facade: `Init` and `Close`, once begun, go on, so does every call of a
  goroutine that logs, and every worker of every generation. Nobody has to begin a call.
- OTLPExporter: the worker goes on, which includes that the ticker fires and that a
  post ends: the HTTP client has a timeout of 10 seconds. `Close` goes on once
  the worker has returned.
- ResilientTransport: time passes, and a caller inside `RoundTrip` goes on: the
  backend answers in the end. `Recovers` also needs `Traffic`, callers that
  keep sending requests: a breaker nobody calls does stay open. This is an assumption on
  the application, and kept apart from `Fairness` in the module.
- AutoProfiler: time passes and the goroutines of a profile go on.

The faults of ResilientTransport are bounded, so `Recovers` is about a backend that
stops failing in the end. The lines of AsyncLogger are bounded, so `CloseReturns` is
about producers that do not write faster than the worker for ever; with such
producers `flushChan`, which goes on until the channel is empty, need not end.

## 5. Proofs

TLAPS checks these for every value of the constants that the ASSUMEs allow: any set of
goroutines, any capacity, rate, threshold, cooldown, number of backups or generations.
Every invariant the passing runs check is proved, and every step of the four refinements.

| module | about | theorems |
|---|---|---|
| AdmissionProofs | RateLimiter, CircuitBreaker | `LimiterTypeCorrect`, `WindowsBounded`, `BucketIsHistory`, `LimiterImplementsContract`; `TypeCorrect`, `CooldownHolds`, `DiagramHolds`, `CountersMatch`, `ClosedUntilTripped` |
| AsyncLoggerProofs | AsyncLogger, LogSink | `TypeCorrect`, `QueueConserved`, `TeardownOrdered`, `OnlyLateStranded`, `RefinesSink` |
| ResilientTransportProofs | ResilientTransport | `TypeCorrect`, `BackendShielded`, `TransportImplementsBreaker` |
| OTLPExporterProofs | OTLPExporter | `TypeCorrect`, `PostsInOrder`, `CloseDrainsAll` |
| DiskProofs | AutoProfiler, RotatingFile | `ProfilerTypeCorrect`, `ProfileOwned`, `FailedNeverReady`; `TypeCorrect`, `SizeKept`, `OldestLost`, `DepthKept` |
| MetricsProofs | Metrics | `TypeCorrect`, `WindowRecent`, `PercentilesMatch`, `HistogramsGrow`, `BridgeCounts`, `GaugesSettled` |
| FacadeProofs | Facade, LogSink | `TypeCorrect`, `FlushesOnClose`, `StopsCurrent`, `ExportsWhereLogged`, `RefinesSink` |
| RequestPipelineProofs | Tracing, Propagation, RequestPipeline | `PipelineIsTracing`, `ExtractsInjected`, `PipelineTypeCorrect`, `StackBalances`, `RegistryMatches`, `OutboundOwn`, `PanicEntryHolds`, `ResponsesReported` |

**The limiter.** WindowBound alone is not inductive: it says nothing about
tokens, so a step that takes one could overfill a window. `LimiterInv` says what
the bucket holds in terms of past grants. The lemma `RefilledMatchesHistory` shows that
a refill, with its cut, keeps that at the new time, since every window's room grows by
just what is refilled (`RoomGrows`). A grant then opens a new window, whose room is
Burst - 1, and takes one token's worth from each older window. The refinement adds
`TokenIffRoom`: a whole token in the bucket is the same as room in every window, so
that `TakeToken` and `SkipEntry` are `Admit` and `Skip` of the contract.

**The breaker.** `Allow` reads only the time of the last change, whereas
`CooldownRespected` is about the time of the last trip: `ClockOfTrip`, that the two are
equal while the breaker is open, is what makes it inductive. The state diagram is an
action property, proved from the step alone. `ClosedIffNeverTripped` speaks of the run
of failures that ends at each earlier result, and says so with a CHOOSE. `Counted` carries
that there always is exactly one such run (`RunChosen` picks it), that appending a result
leaves the earlier ones alone (`AppendExtends`), and that the counters are those of
the last.

**AsyncLogger.** The inductive invariant adds to the properties: `HandsEmpty` (the worker holds
an entry only between a receive and its write), `StopEndsWorker` (only a closed
`asyncStop` ends the worker, or there never was one) and `WorkerFirst` (whatever a
Close does after its wait, and whatever anybody can read from the cleared flag,
the worker has returned before). Without the last, a second `Close` that reads
the flag as false could close the writer under a running worker. Lemmas about
sequences (`AppendToTail`, `ReceiveMovesHead`, `WriteMovesHand`) carry the
conservation of the queue over each step. `RefinesSink` maps each step to one of
the sink: a line becomes written where a write succeeds, and lost where one is refused,
a send panics, or the worker returns with the line in the channel.

**ResilientTransport.** The breaker's own types are among its own, with the number of
callers in flight as a natural number, which needs the set of callers to be finite
(`InFlightType`). `AttemptsLeft`, that a caller which sleeps or is at the backend has
attempts left, and one about to be recorded an answer, bounds the attempts when one more
is counted. `OpenShieldsBackend` itself is inductive: `fresh`, the calls admitted
since the last trip, is emptied by a trip and grows only through a breaker that is
not open. `TransportImplementsBreaker` is the whole refinement, the breaker's
specification having no fairness: each admission adds a caller to those in flight, each
record removes one, and a retry is a stutter.

**OTLPExporter.** That `Close` has drained everything early is a fact about its end; the
invariant `Drained` says how it comes about: once the worker has gone past a channel in
its drain, only late items are in it, and once it has gone past the last flush, also
none in its batch. `WaitEnds` links the end of `Close` to that of the worker.

**AutoProfiler.** `RuntimeProfileOwned` needs that no profiler starts a second job while
the first is at work: `WorkUnderFlag` says that a profiler with a job exists and has its
flag set. `FailedIsIdle` says that one whose start failed has no goroutine that could
clear its flag.

**RotatingFile.** `IInv` says where the current file is at each step of `rotate`
(`RotateHolds`) and that the size of an open file is the one kept (`OpenFile`), whatever
fails or crashes. `DepthInv` and `KeptInv` add what holds without faults. Between two
renames the slot that was just emptied is empty, so that the next rename destroys nothing
but, at its start, the oldest backup; so `Kept`, the lines on disk from the oldest file to
the newest, loses lines only at its front, and `logged` ends with it. The lemmas
`KeptMoved`, `KeptDropped` and `KeptAppended` say what a rename, a loss and a write do to it.

**Metrics.** For `GaugesSettle` the invariant follows the values that may still be shown:
`InsideContends`, a call under way is among the contenders of its key; `LocalContends`,
the local gauge shows one of them, once it was set; `ForwardContends`, the SDK's gauge
shows one, or a call that will write is under way. A call that begins makes its own value
and those of the calls then under way (`Pending`) the contenders, and no other. `WindowInv` keeps the sum of a window
before the division of `WindowIsRecent`: each sample lost less than a millisecond.
`BridgeInv` counts calls by where they are (`InsideMoves`): a call of `IncCounter` or
`RecordLatency`, which `plain` counts, is behind by one record until it made its second,
and each call by one measurement until it is forwarded. `HistogramMatchesPercentiles` holds of any reservoir: the samples up to a
limit are a prefix of the sorted ones (`BucketIsSegment`), which is as long as the
bucket. `HistogramsGrow` is an action property and uses the invariants of both states.

**Facade.** None of the properties is inductive, as each is about a moment that earlier
steps have prepared. `IInv` follows the generations: the globals agree with one another
outside `Init` and with the place of main within it (`MainOrder`); whatever still runs
belongs to the installed generation, or was abandoned, or is a custom logger's
(`LoopsOwned`, `ExportersOwned`, `LoggersOwned`); what was due when `Close` began is not
left behind a worker that has returned (`Flushed`); a call no `Init` overlaps stays with the
installed generation (`CallsOwned`, `LinesPlaced`); and a line its exporter
does not have was counted as dropped (`DropsCounted`). `RefinesSink` rests on the parts that
say a writer, a channel or `os.Stdout` is closed, or a worker stopped, only once `Close` was
called.

**RequestPipeline.** Every step of a request is a step of Tracing or changes none of its
variables (`PipelineIsTracing`), so an inductive invariant of Tracing serves both, and the
requests only add to it. `TracingInv` has four parts besides types.

- Files: a handle is on file at most once, never an ended one, and one about to be
  filed is on none (`FilesUnique`, `FilesRunning`, `RegisteringNew`); each one created is on
  file or about to be until it is ended (`Accounted`). Under each key there are as many
  handles, with those that resumed requests took, as there are places (goroutine and
  depth) with a filed span (`Registered`). Siblings share a key, so the invariant counts
  spans and does not say which is which.
- `LeftBound`: the ids left behind, the resumed spans still open, and the spans taken and not
  yet missed (`Debts`) are no more than the requests resumed. A resumed request's end either
  leaves an id or takes a span, and a span that was taken leaves an id at its end: the sum
  never grows but when a request is resumed. The debts are a set of pairs, key and number,
  because a sum over keys would need a recursive definition.
- `Depth`: the stack is as deep as `Held`, the set of places of spans in progress, has
  elements, plus the ids left behind. The steps add or remove one place (`HeldPlacesStep`).
- `OwnOnTop`: as long as spans did not overlap, the stack is the ids left behind followed by
  those of the one goroutine that has spans, in order, and no span was taken
  (`NoneTaken`), since a request takes that of another goroutine. It is what `OutboundCarriesOwn`
  needs of every depth, since an end uncovers the id below.

`RequestInv` adds that wrappers tell the truth (`WrappersTruthful`), that a request has an id
in its context until it is over (`IdInContext`), and that a request which a panic
has unwound has no spans left (`UnwoundEnded`): what the entries about a panic depend on.
`ExtractsInjected` is about Propagation alone: whichever header the next service reads, it
gets the injected id up to its first dash.

**Induction over data.** Sums, sorted sequences and concatenations are recursive
functions here, and what they compute is needed for every length. The lemma
`SetInduction`, in DiskProofs and MetricsProofs, states induction for a set of numbers
instead of a predicate, and is proved from the well-foundedness of `<` on Nat
(`WFMin`, `NatLessThanWellFounded`). Applied to the set of lengths at which a function
of the right shape exists and is unique, it gives the recursive equations
(`SizesProperty`, `PartialSumsProperty`, `SortedProperty`, `KeptProperty`).

Only model-checked: liveness and everything under fairness, which needs ENABLED and is
beyond the provers: `CloseReturns`, `Recovers`, `QueuedIsPosted`,
`ReadyAgainUnlessFailed`, `FirstCloseReturns`, and of the two `ImplementsSink`
the fairness part of LogSink. That the violated properties of section 6 fail is
for TLC alone.

## 6. Where the code and its documents disagree

Two runs show a promise violated:

1. `README.md:68` says that a log line carries the active id on top of the stack and that
   "this correlates your logs". The stack is one for the process. Run
   `tracing_correlation`: two requests, the second pushes its id, the first logs with
   it (`InfoCarriesOwnTrace`).
2. `observability.go:316` says that `Close` "terminates any async resources". Run
   `facade_terminates`: after `SetLogger` has replaced the asynchronous logger of
   `Init`, `Close` returns and that logger's worker still runs (`CloseTerminates`).

The others are exceptions that a property, which holds, has to make:

3. A second `Init` abandons exporter, logger worker and telemetry loop of the first
   (`observability.go:49`): `CloseStopsCurrent` excepts what was abandoned.
4. Without a log file `Close` closes `os.Stdout`, and every line of a later generation is
   refused (`logger.go:329`): `ImplementsSink` promises nothing once `Close` was called,
   against "zero log loss" (`README.md:84`).
5. A second `Close` of one generation panics (`otlp_exporter.go:72`):
   `FirstCloseReturns` is about the first.
6. The next service takes an id only up to its first dash, as the test of the
   transport sends one (`propagation.go:20`, `transport_test.go:34`), and the id an outbound
   call carries is that on the shared stack: `OutboundCarriesOwn`, against
   "End-to-end trace correlation" (`README.md:85`).
7. With `PanicRecoveryMiddleware` outermost, as `README.md:859` has it, the entry about a
   panic has no id, or another goroutine's: `PanicEntryTrace`, against "logged
   context-aware" (`README.md:865`).
8. A status set after the response has begun is reported and not sent
   (`middleware.go:28`): `ResponseReported`, against `README.md:81`.
9. `otel_bridge.go:56` says that `EndTrace` completes "the matching" span. Of two siblings of
   one name it completes the newer: `RegistryMatchesOpen` counts spans under a key
   and does not say which they are. And when a request is answered with the help of a service
   that calls back to the same path here, the inner request, which resumes the trace and has
   no span of its own, has the key of the outer one's span: its `EndTrace` ends that span
   early (`otel_bridge.go:57`), the outer one's finds none, and leaves its id on the stack.
   `RegistryMatchesOpen` holds with the spans so taken set aside.
10. `README.md:97` promises profiles whenever limits are exceeded. When a profile cannot be
    started, `isProfiling` stays set (`pprof_trigger.go:76`, `:80`):
    `ReadyAgainUnlessFailed`, and proved, `FailedNeverReady`.
11. `IncCounter` and `RecordLatency` of the bridge record twice in the local engine, once in
    the SDK (`otel_bridge.go:104`): `BridgeTallies` counts their calls (`plain`) once more. The
    variants with labels record once, also when the labels are nil or empty, which gives
    the same key.
12. `README.md:770` shows a p50 of 12 for the samples 12 and 150. The code, and
    `test/percentiles_test.go:20`, take the upper of the two middle samples:
    `HistogramMatchesPercentiles` holds with "more than" the share.
13. `README.md:742` calls the exported buckets cumulative counters. They are those of a
    sliding window (`exporter.go:90`): `HistogramGrows` holds until it is full.

## 7. What is not modelled

- Levels and `SetLogLevel`, formatting, masking, stack traces, console, JSON and Prometheus
  text: filters and conversions, about which no property is stated.
- Baggage (`propagation.go:49-88`), which goes beside the id and through no shared state; in it, a value with
  a `,` does not survive a hop. Request bodies (`captureRequestBody`) and the sampling of
  payloads. The closure of `TraceSQL` called twice would pop another's id
  (`sql_tracer.go:26`); callers call it once, as documented.
- Several goroutines in `Init` or `Close` at a time, `ConfigureAsync` on a logger in
  use. Of a double close, AsyncLogger and OTLPExporter model the race.
- Float rounding in the limiter and in averages; overflow of the backoff
  (`resilience.go:202`) and of counters.
- The data races as such: a racy read of `asyncEnabled` returns the old or the new value,
  which the interleavings of AsyncLogger cover; `globalExporter` and `globalProfiler` are
  pointers, whose torn reads do not occur.
- `cmd/api`, a demonstration, and the tests and build files.

## 8. Plan

Done: every component but the demonstration server, their runs, and the proofs of every
invariant the runs check.

Next, in this order:

1. Retries in ResilientTransport: a lemma that relates attempts, answers and the one
   recorded result of each call.
2. Tracing's steps as promises of their own: that a goroutine's `EndTrace` ends, of the spans
   under its key, the newest.
3. Lemmas about Propagation for headers that arrive with several ids: the order of precedence.
4. Action properties of Facade: that a generation, once its worker has returned, changes no more.
