------------------------------- MODULE Facade -------------------------------
(***************************************************************************)
(* The global facade (observability/observability.go) over its life:       *)
(* Init, which builds a generation of logger, exporter and telemetry loop  *)
(* and installs it; Close; SetLogger; and the goroutines that log through  *)
(* Info and its kin while these run (writeEntry and deliverLog of          *)
(* logger.go).  It composes what AsyncLogger and OTLPExporter model one by *)
(* one, so their workers and queues are coarser here: a queue is a set and *)
(* a worker handles a line in one step.                                    *)
(*                                                                         *)
(* One goroutine, main, calls Init and Close, one after the other and in   *)
(* any number.  A configuration is the set of features it enables: "otlp"  *)
(* (OTLPEndpoint), "async" (EnableAsyncLog), "telemetry"                   *)
(* (EnableSystemTelemetry), "file" (LogFilePath) and "limit"               *)
(* (EnableRateLimit).  An Init whose log file cannot be opened returns     *)
(* before it changes anything, and is left out.  The profiler is modelled  *)
(* in AutoProfiler, the choice of the tracer in Tracing.                   *)
(***************************************************************************)
EXTENDS Integers, FiniteSets

CONSTANTS
  Callers,    (* goroutines that log                                        *)
  Configs,    (* the configurations Init is called with                     *)
  ChanSize,   (* AsyncLogChannelSize                                        *)
  QueueSize,  (* capacity of the exporter's logsChan                        *)
  MaxInits,   (* bound: successful calls of Init                            *)
  MaxCloses,  (* bound: calls of Close                                      *)
  MaxLines    (* bound: lines each caller logs                              *)

Features == {"otlp", "async", "telemetry", "file", "limit"}

ASSUME FacadeAssumption ==
  /\ Configs \subseteq SUBSET Features
  /\ ChanSize \in Nat \ {0} /\ QueueSize \in Nat \ {0}
  /\ MaxInits \in Nat /\ MaxCloses \in Nat /\ MaxLines \in Nat

VARIABLES
  ctl,           (* where main is in Init or Close                          *)
  inits,         (* generations built so far                                *)
  closes,        (* calls of Close so far                                   *)
  conf,          (* conf[g]: the configuration of generation g              *)
  inst,          (* globalInstance: the generation installed, 0 for nil     *)
  cancel,        (* cancelSystemTelemetry: whose loop it cancels, 0 for nil *)
  exporter,      (* globalExporter: whose it is, 0 for nil                  *)
  custom,        (* generations whose Logger SetLogger replaced             *)
  loops,         (* generations whose telemetry loop is not cancelled       *)
  logger,        (* logger[g]: the JSONLogger of generation g               *)
  exp,           (* exp[g]: the OTLPExporter of generation g                *)
  stdoutClosed,  (* whether os.Stdout has been closed                       *)
  dropped,       (* observability_dropped_logs_total in g's metrics         *)
  pc,            (* where each caller is in its call                        *)
  lines,         (* lines[c]: lines c has begun to log                      *)
  to,            (* to[l]: whose JSONLogger line l was handed to, 0 if none *)
  via,           (* via[l]: whose exporter it was queued at, 0 if none      *)
  written,       (* history: lines that reached a writer                    *)
  refused,       (* history: lines written to a closed writer               *)
  due,           (* history: lines logged before the first Close began, until *)
                 (* the next Init                                           *)
  disturbed,     (* history: lines whose call overlapped an Init            *)
  abandoned,     (* history: generations an Init replaced unclosed          *)
  phase          (* history: "open" after an Init, "closing", "closed", or  *)
                 (* "again" while and after Close is repeated               *)

main    == <<ctl, inits, closes, conf, inst, cancel, exporter, loops, phase>>
workers == <<logger, exp, stdoutClosed, custom>>
calls   == <<pc, lines, to, via, dropped>>
ends    == <<written, refused>>
marks   == <<due, disturbed, abandoned>>
vars == <<main, workers, calls, ends, marks>>

Gens     == 1..MaxInits
Lines    == Callers \X (1..MaxLines)
Line(c)  == <<c, lines[c]>>
InCall   == {Line(c) : c \in {x \in Callers : pc[x] # "idle"}}
Returned == {l \in Lines : l[2] <= lines[l[1]]} \ InCall

Initing == ctl \in {"store", "exporter"}
Closing == ctl \in {"closeExporter", "waitExporter", "closeLogger",
                    "waitLogger", "closeWriter"}

NoLogger   == [queue |-> {}, worker |-> "none", stop |-> FALSE, on |-> FALSE,
               chanClosed |-> FALSE, fileClosed |-> FALSE]
NoExporter == [queue |-> {}, worker |-> "none", stop |-> FALSE]

WriterClosed(g) ==
  IF "file" \in conf[g] THEN logger[g].fileClosed ELSE stdoutClosed

(* Counter goes to the metrics of the instance installed at the time.       *)
CountDrop == dropped' = [dropped EXCEPT ![inst] = @ + 1]

-----------------------------------------------------------------------------
Init ==
  /\ ctl = "idle" /\ inits = 0 /\ closes = 0 /\ phase = "open"
  /\ conf = [g \in Gens |-> {}]
  /\ inst = 0 /\ cancel = 0 /\ exporter = 0
  /\ custom = {} /\ loops = {}
  /\ logger = [g \in Gens |-> NoLogger]
  /\ exp = [g \in Gens |-> NoExporter]
  /\ stdoutClosed = FALSE
  /\ dropped = [g \in Gens |-> 0]
  /\ pc = [c \in Callers |-> "idle"]
  /\ lines = [c \in Callers |-> 0]
  /\ to = [l \in Lines |-> 0]
  /\ via = [l \in Lines |-> 0]
  /\ written = {} /\ refused = {}
  /\ due = {} /\ disturbed = {} /\ abandoned = {}

-----------------------------------------------------------------------------
(* Init: each step is one assignment to a global.                           *)

(* initLogger: the logger is built, its worker started if it is to have one.*)
InitLogger(cfg) ==
  /\ ctl = "idle" /\ inits < MaxInits
  /\ ctl' = "store"
  /\ inits' = inits + 1
  /\ conf' = [conf EXCEPT ![inits'] = cfg]
  /\ logger' = IF "async" \in cfg
               THEN [logger EXCEPT ![inits'].on = TRUE, ![inits'].worker = "run"]
               ELSE logger
  /\ disturbed' = disturbed \union InCall
  /\ UNCHANGED <<closes, inst, cancel, exporter, loops, phase, exp,
                 stdoutClosed, custom, calls, ends, due, abandoned>>

(* Mutant of InitStore: the loop's cancel function is kept once it is set.  *)
InitStoreKeepsCancel ==
  /\ ctl = "store" /\ ctl' = "exporter"
  /\ inst' = inits
  /\ IF "telemetry" \in conf[inits]
     THEN /\ cancel' = IF cancel = 0 THEN inits ELSE cancel
          /\ loops' = loops \union {inits}
     ELSE UNCHANGED <<cancel, loops>>
  /\ phase' = "open"
  /\ abandoned' = IF inst # 0 /\ phase = "open"
                  THEN abandoned \union {inst} ELSE abandoned
  /\ due' = {}
  /\ UNCHANGED <<inits, closes, conf, exporter, workers, calls, ends,
                 disturbed>>

(* globalInstance.Store(inst), and initSystemTelemetry, whose global only    *)
(* main reads.                                                              *)
InitStore ==
  /\ ctl = "store" /\ ctl' = "exporter"
  /\ inst' = inits
  /\ IF "telemetry" \in conf[inits]
     THEN cancel' = inits /\ loops' = loops \union {inits}
     ELSE UNCHANGED <<cancel, loops>>
  /\ phase' = "open"
  /\ abandoned' = IF inst # 0 /\ phase = "open"
                  THEN abandoned \union {inst} ELSE abandoned
  /\ due' = {}
  /\ UNCHANGED <<inits, closes, conf, exporter, workers, calls, ends,
                 disturbed>>

(* Mutant of InitExporter: without an endpoint the old exporter stays.      *)
InitExporterKeepsOld ==
  /\ ctl = "exporter" /\ ctl' = "idle"
  /\ IF "otlp" \in conf[inst]
     THEN exporter' = inst /\ exp' = [exp EXCEPT ![inst].worker = "run"]
     ELSE UNCHANGED <<exporter, exp>>
  /\ UNCHANGED <<inits, closes, conf, inst, cancel, loops, phase, logger,
                 stdoutClosed, custom, calls, ends, marks>>

(* globalExporter = NewOTLPExporter(cfg), which is nil without an endpoint. *)
InitExporter ==
  /\ ctl = "exporter" /\ ctl' = "idle"
  /\ IF "otlp" \in conf[inst]
     THEN exporter' = inst /\ exp' = [exp EXCEPT ![inst].worker = "run"]
     ELSE exporter' = 0 /\ UNCHANGED exp
  /\ UNCHANGED <<inits, closes, conf, inst, cancel, loops, phase, logger,
                 stdoutClosed, custom, calls, ends, marks>>

(* SetLogger: the logger it puts in is the application's own, and external. *)
SetLogger ==
  /\ inst # 0 /\ inst \notin custom
  /\ custom' = custom \union {inst}
  /\ UNCHANGED <<main, logger, exp, stdoutClosed, calls, ends, marks>>

-----------------------------------------------------------------------------
(* Close                                                                    *)

MainMoves(from, to_) ==
  /\ ctl = from /\ ctl' = to_
  /\ UNCHANGED <<inits, closes, conf, inst, cancel, exporter, loops, phase,
                 calls, ends, marks>>

(* Close begins, with cancelSystemTelemetry(): main's too, and idempotent.  *)
CloseBegin ==
  /\ ctl = "idle" /\ closes < MaxCloses
  /\ ctl' = "closeExporter"
  /\ closes' = closes + 1
  /\ phase' = IF phase = "open" THEN "closing" ELSE "again"
  /\ due' = IF phase = "open" THEN Returned ELSE due
  /\ loops' = loops \ {cancel}
  /\ UNCHANGED <<inits, conf, inst, cancel, exporter, workers, calls, ends,
                 disturbed, abandoned>>

CloseNoExporter ==
  exporter = 0 /\ MainMoves("closeExporter", "closeLogger") /\ UNCHANGED workers

(* OTLPExporter.Close: close(e.stopChan) ...                                *)
CloseExporter ==
  /\ exporter # 0 /\ ~exp[exporter].stop
  /\ MainMoves("closeExporter", "waitExporter")
  /\ exp' = [exp EXCEPT ![exporter].stop = TRUE]
  /\ UNCHANGED <<logger, stdoutClosed, custom>>

(* ... which panics the second time: Close left globalExporter in place.    *)
CloseExporterPanics ==
  /\ exporter # 0 /\ exp[exporter].stop
  /\ MainMoves("closeExporter", "panicked")
  /\ UNCHANGED workers

(* e.wg.Wait()                                                              *)
WaitExporter ==
  /\ MainMoves("waitExporter", "closeLogger")
  /\ exp[exporter].worker = "done"
  /\ UNCHANGED workers

CloseReturns ==
  /\ ctl' = "idle"
  /\ phase' = IF phase = "closing" THEN "closed" ELSE phase
  /\ UNCHANGED <<inits, closes, conf, inst, cancel, exporter, loops, calls,
                 ends, marks>>

(* There is no instance, or its logger is the application's.                *)
CloseNoLogger ==
  /\ ctl = "closeLogger" /\ (inst = 0 \/ inst \in custom)
  /\ CloseReturns
  /\ UNCHANGED workers

(* JSONLogger.Close: with asyncEnabled, close(l.asyncStop).                 *)
CloseLogger ==
  /\ inst # 0 /\ inst \notin custom
  /\ IF logger[inst].on
     THEN /\ MainMoves("closeLogger", "waitLogger")
          /\ logger' = [logger EXCEPT ![inst].stop = TRUE]
     ELSE MainMoves("closeLogger", "closeWriter") /\ UNCHANGED logger
  /\ UNCHANGED <<exp, stdoutClosed, custom>>

(* Mutant of WaitLogger: Close does not wait for the worker.                *)
WaitLoggerNot ==
  /\ MainMoves("waitLogger", "closeWriter")
  /\ logger' = [logger EXCEPT ![inst].chanClosed = TRUE, ![inst].on = FALSE]
  /\ UNCHANGED <<exp, stdoutClosed, custom>>

(* l.asyncWg.Wait(), then asyncChan is closed and asyncEnabled cleared.     *)
WaitLogger ==
  /\ MainMoves("waitLogger", "closeWriter")
  /\ logger[inst].worker = "done"
  /\ logger' = [logger EXCEPT ![inst].chanClosed = TRUE, ![inst].on = FALSE]
  /\ UNCHANGED <<exp, stdoutClosed, custom>>

(* closer.Close(): the writer is the log file, or os.Stdout, an io.Closer.  *)
CloseWriter ==
  /\ ctl = "closeWriter"
  /\ CloseReturns
  /\ IF "file" \in conf[inst]
     THEN /\ logger' = [logger EXCEPT ![inst].fileClosed = TRUE]
          /\ UNCHANGED stdoutClosed
     ELSE stdoutClosed' = TRUE /\ UNCHANGED logger
  /\ UNCHANGED <<exp, custom>>

-----------------------------------------------------------------------------
(* A call of Info, Debug, Warn, Error or one of the Context variants.       *)

CallerMoves(c, from, to_) == pc[c] = from /\ pc' = [pc EXCEPT ![c] = to_]

(* writeEntry: the rate limiter of generation g refuses the line.           *)
Refused(c, g) ==
  /\ "limit" \in conf[g]
  /\ CallerMoves(c, "idle", "idle")
  /\ CountDrop
  /\ UNCHANGED to

(* Info and its kin down to deliverLog, in generation g's JSONLogger.       *)
Accepted(c, g) ==
  /\ CallerMoves(c, "idle", "export")
  /\ to' = [to EXCEPT ![<<c, lines'[c]>>] = g]
  /\ UNCHANGED dropped

(* The facade's Info and its kin: getGlobal and the instance's logger.  A   *)
(* call for the application's logger, or below the level, changes nothing   *)
(* here and is left out.                                                    *)
Call(c) ==
  /\ lines[c] < MaxLines /\ inst \notin custom \union {0}
  /\ lines' = [lines EXCEPT ![c] = @ + 1]
  /\ Refused(c, inst) \/ Accepted(c, inst)
  /\ disturbed' = IF Initing THEN disturbed \union {<<c, lines'[c]>>}
                             ELSE disturbed
  /\ UNCHANGED <<main, workers, via, ends, due, abandoned>>

(* deliverLog: globalExporter.ExportLog, whoever's exporter it is by now.   *)
(* The compiler merges the nil test and the use into one read.              *)
Export(c) ==
  /\ CallerMoves(c, "export", "flag")
  /\ \/ exporter = 0 /\ UNCHANGED <<exp, via, dropped>>
     \/ /\ exporter # 0 /\ Cardinality(exp[exporter].queue) < QueueSize
        /\ exp' = [exp EXCEPT ![exporter].queue = @ \union {Line(c)}]
        /\ via' = [via EXCEPT ![Line(c)] = exporter]
        /\ UNCHANGED dropped
     \/ /\ exporter # 0 /\ Cardinality(exp[exporter].queue) >= QueueSize
        /\ CountDrop
        /\ UNCHANGED <<exp, via>>
  /\ UNCHANGED <<main, logger, stdoutClosed, custom, lines, to, ends, marks>>

(* deliverLog reads asyncEnabled.                                           *)
Flag(c) ==
  /\ CallerMoves(c, "flag", IF logger[to[Line(c)]].on THEN "send" ELSE "write")
  /\ UNCHANGED <<main, workers, lines, to, via, dropped, ends,
                 marks>>

(* Mutant of Send: the channel is taken to have room always.                *)
SendUnbounded(c) ==
  LET g == to[Line(c)] IN
  /\ CallerMoves(c, "send", "idle")
  /\ ~logger[g].chanClosed
  /\ logger' = [logger EXCEPT ![g].queue = @ \union {Line(c)}]
  /\ UNCHANGED <<main, exp, stdoutClosed, custom, lines, to, via, dropped,
                 ends, marks>>

Send(c) ==
  LET g == to[Line(c)] IN
  /\ CallerMoves(c, "send", "idle")
  /\ ~logger[g].chanClosed /\ Cardinality(logger[g].queue) < ChanSize
  /\ logger' = [logger EXCEPT ![g].queue = @ \union {Line(c)}]
  /\ UNCHANGED <<main, exp, stdoutClosed, custom, lines, to, via,
                 dropped, ends, marks>>

(* Mutant of FallBack: the line is counted and not written.                 *)
FallBackDrops(c) ==
  LET g == to[Line(c)] IN
  /\ CallerMoves(c, "send", "idle")
  /\ ~logger[g].chanClosed /\ Cardinality(logger[g].queue) >= ChanSize
  /\ CountDrop
  /\ UNCHANGED <<main, workers, lines, to, via, ends, marks>>

(* The channel is full: counted as a drop, then written here.               *)
FallBack(c) ==
  LET g == to[Line(c)] IN
  /\ CallerMoves(c, "send", "write")
  /\ ~logger[g].chanClosed /\ Cardinality(logger[g].queue) >= ChanSize
  /\ CountDrop
  /\ UNCHANGED <<main, workers, lines, to, via, ends, marks>>

SendPanics(c) ==
  /\ CallerMoves(c, "send", "panicked")
  /\ logger[to[Line(c)]].chanClosed
  /\ UNCHANGED <<main, workers, lines, to, via, dropped, ends,
                 marks>>

WriteLine(l) ==
  IF WriterClosed(to[l])
  THEN refused' = refused \union {l} /\ UNCHANGED written
  ELSE written' = written \union {l} /\ UNCHANGED refused

Write(c) ==
  /\ CallerMoves(c, "write", "idle")
  /\ WriteLine(Line(c))
  /\ UNCHANGED <<main, workers, lines, to, via, dropped,
                 marks>>

Continue(c) ==
  Export(c) \/ Flag(c) \/ Send(c) \/ FallBack(c) \/ SendPanics(c) \/ Write(c)

-----------------------------------------------------------------------------
(* asyncWorker and the exporter's worker, of every generation at once.      *)

LoggerWorks(g) ==
  /\ logger[g].worker = "run"
  /\ \E l \in logger[g].queue :
       /\ logger' = [logger EXCEPT ![g].queue = @ \ {l}]
       /\ WriteLine(l)
  /\ UNCHANGED <<main, exp, stdoutClosed, custom, calls, marks>>

LoggerStops(g) ==
  /\ logger[g].worker = "run" /\ logger[g].stop /\ logger[g].queue = {}
  /\ logger' = [logger EXCEPT ![g].worker = "done"]
  /\ UNCHANGED <<main, exp, stdoutClosed, custom, calls, ends, marks>>

(* What a failed post loses is modelled in OTLPExporter.                    *)
ExporterWorks(g) ==
  /\ exp[g].worker = "run"
  /\ \E l \in exp[g].queue : exp' = [exp EXCEPT ![g].queue = @ \ {l}]
  /\ UNCHANGED <<main, logger, stdoutClosed, custom, calls, ends, marks>>

ExporterStops(g) ==
  /\ exp[g].worker = "run" /\ exp[g].stop /\ exp[g].queue = {}
  /\ exp' = [exp EXCEPT ![g].worker = "done"]
  /\ UNCHANGED <<main, logger, stdoutClosed, custom, calls, ends, marks>>

LoggerWorker(g) == LoggerWorks(g) \/ LoggerStops(g)
ExporterWorker(g) == ExporterWorks(g) \/ ExporterStops(g)

MainContinues ==
  \/ InitStore \/ InitExporter
  \/ CloseNoExporter \/ CloseExporter \/ CloseExporterPanics
  \/ WaitExporter \/ CloseNoLogger \/ CloseLogger \/ WaitLogger \/ CloseWriter

Next ==
  \/ \E cfg \in Configs : InitLogger(cfg)
  \/ CloseBegin
  \/ MainContinues
  \/ SetLogger
  \/ \E c \in Callers : Call(c) \/ Continue(c)
  \/ \E g \in Gens : LoggerWorker(g) \/ ExporterWorker(g)

(* The scheduler runs whoever can run; nobody has to begin a call.          *)
Fairness ==
  /\ WF_vars(MainContinues)
  /\ \A c \in Callers : WF_vars(Continue(c))
  /\ \A g \in Gens : WF_vars(LoggerWorker(g)) /\ WF_vars(ExporterWorker(g))

Spec == Init /\ [][Next]_vars /\ Fairness

-----------------------------------------------------------------------------
TypeOK ==
  /\ ctl \in {"idle", "panicked"} \/ Initing \/ Closing
  /\ phase \in {"open", "closing", "closed", "again"}
  /\ inits \in 0..MaxInits /\ closes \in 0..MaxCloses
  /\ conf \in [Gens -> SUBSET Features]
  /\ {inst, cancel, exporter} \subseteq 0..inits
  /\ custom \union loops \union abandoned \subseteq 1..inits
  /\ \A g \in Gens :
       /\ logger[g].queue \subseteq Lines /\ exp[g].queue \subseteq Lines
       /\ Cardinality(logger[g].queue) <= ChanSize
       /\ Cardinality(exp[g].queue) <= QueueSize
       /\ {logger[g].worker, exp[g].worker} \subseteq {"none", "run", "done"}
  /\ dropped \in [Gens -> Nat]
  /\ pc \in [Callers -> {"idle", "export", "flag", "send", "write",
                         "panicked"}]
  /\ lines \in [Callers -> 0..MaxLines]
  /\ to \in [Lines -> 0..inits] /\ via \in [Lines -> 0..inits]
  /\ written \union refused \subseteq Lines
  /\ due \union disturbed \subseteq Lines

(* README.md:646, Close "flushes all remaining logs in the queue": when the *)
(* first Close of an installed generation has returned, no line whose call  *)
(* had returned before it began is left in the queue of the exporter or of  *)
(* the logger it closed.                                                    *)
CloseFlushes ==
  phase = "closed" /\ ctl = "idle" =>
    /\ exporter # 0 => exp[exporter].queue \intersect due = {}
    /\ inst \notin custom \union {0} => logger[inst].queue \intersect due = {}

Running ==
  [workers |-> {g \in Gens : logger[g].worker = "run"},
   exporters |-> {g \in Gens : exp[g].worker = "run"},
   loops |-> loops]

(* Close: what still runs when it has returned belongs to a generation that *)
(* an Init replaced before it was closed, or is the worker of a logger that *)
(* SetLogger replaced.  Nothing else escapes, whatever the sequence of      *)
(* configurations, and although Init overwrites each global on its own.     *)
CloseStopsCurrent ==
  phase \in {"closed", "again"} /\ ctl = "idle" =>
    /\ Running.workers \subseteq abandoned \union custom
    /\ Running.exporters \union Running.loops \subseteq abandoned

(* deliverLog takes its logger from the instance and its exporter from      *)
(* another global.  For a call no Init overlaps the two belong together: a  *)
(* line goes to the exporter of the generation whose logger has it, and if  *)
(* that has an exporter the line is not missing there uncounted.            *)
ExportedWhereLogged ==
  LET calm == Returned \ disturbed
      sent(g) == {l \in calm : to[l] = g}
  IN  /\ \A l \in calm : via[l] \in {0, to[l]}
      /\ \A g \in Gens : "otlp" \in conf[g] =>
           Cardinality({l \in sent(g) : via[l] = 0}) <= dropped[g]

(* Refinement of LogSink over all generations together.                     *)
Queued   == UNION {logger[g].queue : g \in Running.workers}
Stranded == UNION {logger[g].queue : g \in Gens \ Running.workers}
Panicked == {Line(c) : c \in {x \in Callers : pc[x] = "panicked"}}

Sink == INSTANCE LogSink WITH
  Entries <- Lines,
  pending <- (InCall \ Panicked) \union Queued,
  written <- written,
  lost <- refused \union Panicked \union Stranded,
  closing <- closes > 0

(* Info and the rest: a line a JSONLogger accepts is written, eventually    *)
(* and once, through any sequence of Init, SetLogger and full queues, as    *)
(* long as Close was never called; after that it may be lost.               *)
ImplementsSink == Sink!Spec

(* Close returns, and does not panic, unless the generation it closes had   *)
(* been closed before.                                                      *)
FirstCloseReturns == (Closing /\ phase = "closing") ~> (ctl = "idle")

-----------------------------------------------------------------------------
(* observability.go:316: Close "gracefully flushes all pending logs and     *)
(* terminates any async resources".  When a first Close has returned no     *)
(* worker and no loop runs.                                                 *)
CloseTerminates ==
  phase = "closed" /\ ctl = "idle" =>
    Running = [workers |-> {}, exporters |-> {}, loops |-> {}]
=============================================================================
