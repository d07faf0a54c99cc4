----------------------------- MODULE FacadeProofs -----------------------------
(***************************************************************************)
(* The safety of Facade for any set of configurations, any number of       *)
(* goroutines, generations and calls of Close, and any capacity of the     *)
(* queues. IInv is inductive: its parts say which global owns which worker *)
(* at each point of Init and Close, where a line can be, and what Close    *)
(* has already drained. The last part shows that every step of the facade  *)
(* is a step of LogSink, or none.                                          *)
(***************************************************************************)
EXTENDS Facade, FiniteSetTheorems, TLAPS

(* Lines by how far their call has come: l is being logged, or has not been *)
(* begun.                                                                   *)
Ongoing(l) == pc[l[1]] # "idle" /\ l[2] = lines[l[1]]
Unbegun(l) == l[2] > lines[l[1]]

LoggerType ==
  [queue : SUBSET Lines, worker : {"none", "run", "done"}, stop : BOOLEAN,
   on : BOOLEAN, chanClosed : BOOLEAN, fileClosed : BOOLEAN]
ExporterType ==
  [queue : SUBSET Lines, worker : {"none", "run", "done"}, stop : BOOLEAN]

(* The types of the variables, with what only a proof needs to be told:     *)
(* every generation named so far has been installed.                        *)
MainTypes ==
  /\ ctl \in {"idle", "panicked", "store", "exporter", "closeExporter",
              "waitExporter", "closeLogger", "waitLogger", "closeWriter"}
  /\ phase \in {"open", "closing", "closed", "again"}
  /\ inits \in 0..MaxInits /\ closes \in 0..MaxCloses
  /\ conf \in [Gens -> SUBSET Features]
  /\ inst \in 0..inits
  /\ cancel \in 0..inst /\ exporter \in 0..inst
  /\ custom \subseteq 1..inst /\ loops \subseteq 1..inst
  /\ abandoned \subseteq 1..inst

WorkerTypes ==
  /\ logger \in [Gens -> LoggerType] /\ exp \in [Gens -> ExporterType]
  /\ stdoutClosed \in BOOLEAN

QueuesBounded ==
  \A g \in Gens :
    /\ IsFiniteSet(logger[g].queue) /\ Cardinality(logger[g].queue) <= ChanSize
    /\ IsFiniteSet(exp[g].queue) /\ Cardinality(exp[g].queue) <= QueueSize

CallTypes ==
  /\ dropped \in [Gens -> Nat]
  /\ pc \in [Callers -> {"idle", "export", "flag", "send", "write", "panicked"}]
  /\ lines \in [Callers -> 0..MaxLines]
  /\ to \in [Lines -> 0..inst] /\ via \in [Lines -> 0..inst]
  /\ written \subseteq Lines /\ refused \subseteq Lines
  /\ due \subseteq Lines /\ disturbed \subseteq Lines

(* The globals agree with one another wherever main is: outside Init the    *)
(* exporter is the installed generation's or nobody's.                      *)
MainOrder ==
  /\ inits = IF ctl = "store" THEN inst + 1 ELSE inst
  /\ ctl = "exporter" => inst # 0 /\ phase = "open"
  /\ ctl # "exporter" =>
       exporter = IF inst # 0 /\ "otlp" \in conf[inst] THEN inst ELSE 0
  /\ ctl = "waitExporter" => exporter # 0
  /\ ctl \in {"waitLogger", "closeWriter"} => inst # 0
  /\ phase = "open" => ctl \in {"idle", "store", "exporter"}
  /\ phase = "closing" => Closing \/ ctl = "panicked"
  /\ phase # "open" => closes > 0

(* The loop of the installed generation is the one cancel stops.            *)
LoopsOwned ==
  /\ loops \subseteq abandoned \union {inst}
  /\ inst \in loops => inst = cancel /\ phase = "open"

ExportersOwned ==
  \A g \in Gens :
    /\ g > inst \/ (g = inst /\ ctl = "exporter") => exp[g] = NoExporter
    /\ exp[g].worker # "none" => "otlp" \in conf[g]
    /\ exp[g].worker = "none" => exp[g].queue = {}
    /\ exp[g].worker = "done" => exp[g].stop
    /\ exp[g].stop => closes > 0
    /\ g = exporter => exp[g].worker # "none"
    /\ exp[g].worker = "run" => g \in abandoned \union {inst}
    /\ g = inst /\ phase = "open" => ~exp[g].stop
    /\ g = inst /\ phase # "open"
         /\ ctl \notin {"closeExporter", "waitExporter", "panicked"} =>
         exp[g].worker # "run"

LoggersOwned ==
  \A g \in Gens :
    /\ g > inits => logger[g] = NoLogger
    /\ g > inst => ~logger[g].stop /\ logger[g].queue = {}
    /\ logger[g].worker = "none" => logger[g].queue = {} /\ ~logger[g].on
    /\ logger[g].worker = "run" => logger[g].on
    /\ logger[g].worker = "done" => logger[g].stop
    /\ logger[g].stop \/ logger[g].chanClosed \/ logger[g].fileClosed => closes > 0
    /\ logger[g].worker = "run" => g \in abandoned \union custom \union {inst, inits}
    /\ g = inst /\ phase = "open" => ~logger[g].stop
    /\ g = inst /\ phase # "open" /\ g \notin custom
         /\ ctl \in {"closeWriter", "idle", "store"} =>
         logger[g].worker # "run"

StdoutOwned == stdoutClosed => closes > 0

(* Nothing logged before the close is left behind a worker that has         *)
(* returned.                                                                *)
Flushed ==
  /\ \A l \in due : ~Ongoing(l) /\ ~Unbegun(l)
  /\ inst # 0 =>
       /\ exp[inst].worker = "done" => exp[inst].queue \intersect due = {}
       /\ logger[inst].worker = "done" => logger[inst].queue \intersect due = {}

(* A call that no Init overlaps stays with the installed generation.        *)
CallsOwned ==
  \A c \in Callers : pc[c] # "idle" =>
    /\ lines[c] >= 1
    /\ to[Line(c)] >= 1
    /\ pc[c] = "send" => logger[to[Line(c)]].worker # "none"
    /\ Line(c) \notin disturbed => to[Line(c)] = inst /\ ~Initing

LinesPlaced ==
  /\ \A l \in Lines : Unbegun(l) =>
       to[l] = 0 /\ via[l] = 0 /\ l \notin written \union refused
  /\ \A g \in Gens : \A l \in logger[g].queue :
       to[l] = g /\ ~Ongoing(l)
  /\ \A l \in Lines \ disturbed : via[l] \in {0, to[l]}

(* Lines generation g logged, no Init overlapping, that have passed its     *)
(* exporter by.                                                             *)
Unexported(g) ==
  {l \in Lines \ disturbed :
     /\ to[l] = g /\ via[l] = 0
     /\ ~(Ongoing(l) /\ pc[l[1]] = "export")}

DropsCounted ==
  \A g \in Gens : "otlp" \in conf[g] =>
    /\ IsFiniteSet(Unexported(g))
    /\ Cardinality(Unexported(g)) <= dropped[g]

IInv ==
  /\ MainTypes /\ WorkerTypes /\ QueuesBounded /\ CallTypes
  /\ MainOrder /\ LoopsOwned /\ ExportersOwned /\ LoggersOwned /\ StdoutOwned
  /\ Flushed /\ CallsOwned /\ LinesPlaced /\ DropsCounted

-----------------------------------------------------------------------------
(* What main, the callers and the workers do, apart.                        *)
MainStep ==
  (\E cfg \in Configs : InitLogger(cfg)) \/ CloseBegin \/ MainContinues \/ SetLogger
CallStep == \E c \in Callers : Call(c) \/ Continue(c)
WorkStep == \E g \in Gens : LoggerWorker(g) \/ ExporterWorker(g)

-----------------------------------------------------------------------------
(* What the types say of the bounds and the counters.                       *)
LEMMA Numbers ==
  ASSUME MainTypes
  PROVE  /\ MaxInits \in Nat /\ Gens = 1..MaxInits
         /\ inits \in Nat /\ inst \in Nat /\ closes \in Nat
         /\ inst <= inits /\ inits <= MaxInits
         /\ \A g : g \in Gens <=> g \in Nat /\ 1 <= g /\ g <= MaxInits
BY FacadeAssumption DEF MainTypes, Gens

(* The callers and the workers leave main's variables alone.                *)
LEMMA OthersLeaveMain ==
  ASSUME CallStep \/ WorkStep
  PROVE  UNCHANGED <<main, custom, conf, inst, inits, ctl, phase, stdoutClosed, due, abandoned>>
<1>1. ASSUME NEW c \in Callers, Call(c) \/ Continue(c)
      PROVE  UNCHANGED <<main, custom, conf, inst, inits, ctl, phase, stdoutClosed, due, abandoned>>
  BY <1>1 DEF Call, Continue, Export, Flag, Send, FallBack, SendPanics, Write,
    main, workers, marks
<1>2. ASSUME NEW g \in Gens, LoggerWorker(g) \/ ExporterWorker(g)
      PROVE  UNCHANGED <<main, custom, conf, inst, inits, ctl, phase, stdoutClosed, due, abandoned>>
  BY <1>2 DEF LoggerWorker, ExporterWorker, LoggerWorks, LoggerStops,
    ExporterWorks, ExporterStops, main, marks
<1> QED
  BY <1>1, <1>2 DEF CallStep, WorkStep

(* Which steps write the variables that most steps leave alone.             *)
LEMMA WhoWrites ==
  ASSUME Next
  PROVE  /\ \/ UNCHANGED ends
            \/ \E c \in Callers : Write(c)
            \/ \E g \in Gens : LoggerWorks(g)
         /\ \/ UNCHANGED via
            \/ \E c \in Callers :
                 exporter # 0 /\ via' = [via EXCEPT ![Line(c)] = exporter] /\ Export(c)
         /\ UNCHANGED dropped \/ CountDrop
         /\ UNCHANGED calls \/ \E c \in Callers : Call(c) \/ Continue(c)
         /\ disturbed \subseteq disturbed'
         /\ inst' = inst \/ InitStore
         /\ inits' = inits \/ \E cfg \in Configs : InitLogger(cfg)
         /\ conf' = conf \/ \E cfg \in Configs : InitLogger(cfg)
<1>1. /\ \/ UNCHANGED ends
         \/ \E c \in Callers : Write(c)
         \/ \E g \in Gens : LoggerWorks(g)
  BY DEF Next, InitLogger, CloseBegin, MainContinues, InitStore, InitExporter,
    CloseNoExporter, CloseExporter, CloseExporterPanics, WaitExporter, CloseNoLogger,
    CloseLogger, WaitLogger, CloseWriter, MainMoves, CloseReturns, SetLogger, Call,
    Refused, Accepted, Continue, Flag, Send, FallBack, SendPanics, Write, Export,
    LoggerWorker, LoggerWorks, LoggerStops, ExporterWorker, ExporterWorks, ExporterStops
<1>2. \/ UNCHANGED via
      \/ \E c \in Callers :
           exporter # 0 /\ via' = [via EXCEPT ![Line(c)] = exporter] /\ Export(c)
  BY DEF Next, InitLogger, CloseBegin, MainContinues, InitStore, InitExporter,
    CloseNoExporter, CloseExporter, CloseExporterPanics, WaitExporter, CloseNoLogger,
    CloseLogger, WaitLogger, CloseWriter, MainMoves, CloseReturns, SetLogger, Call,
    Refused, Accepted, Continue, Flag, Send, FallBack, SendPanics, Write, Export,
    LoggerWorker, LoggerWorks, LoggerStops, ExporterWorker, ExporterWorks, ExporterStops, calls
<1>3. UNCHANGED dropped \/ CountDrop
  BY DEF Next, InitLogger, CloseBegin, MainContinues, InitStore, InitExporter,
    CloseNoExporter, CloseExporter, CloseExporterPanics, WaitExporter, CloseNoLogger,
    CloseLogger, WaitLogger, CloseWriter, MainMoves, CloseReturns, SetLogger, Call,
    Refused, Accepted, Continue, Flag, Send, FallBack, SendPanics, Write, Export,
    LoggerWorker, LoggerWorks, LoggerStops, ExporterWorker, ExporterWorks, ExporterStops, calls
<1>4. disturbed \subseteq disturbed'
  BY DEF Next, InitLogger, CloseBegin, MainContinues, InitStore, InitExporter,
    CloseNoExporter, CloseExporter, CloseExporterPanics, WaitExporter, CloseNoLogger,
    CloseLogger, WaitLogger, CloseWriter, MainMoves, CloseReturns, SetLogger, Call,
    Refused, Accepted, Continue, Flag, Send, FallBack, SendPanics, Write, Export,
    LoggerWorker, LoggerWorks, LoggerStops, ExporterWorker, ExporterWorks, ExporterStops, marks
<1>5. /\ inst' = inst \/ InitStore
      /\ inits' = inits \/ \E cfg \in Configs : InitLogger(cfg)
      /\ conf' = conf \/ \E cfg \in Configs : InitLogger(cfg)
  <2>1. CASE CallStep \/ WorkStep
    BY <2>1, OthersLeaveMain
  <2>2. ASSUME NEW cfg \in Configs, InitLogger(cfg) PROVE inst' = inst
    BY <2>2 DEF InitLogger
  <2>3. CASE CloseBegin \/ MainContinues \/ SetLogger
    BY <2>3 DEF CloseBegin, MainContinues, InitStore, InitExporter,
      CloseNoExporter, CloseExporter, CloseExporterPanics, WaitExporter, CloseNoLogger,
      CloseLogger, WaitLogger, CloseWriter, MainMoves, CloseReturns, SetLogger, main
  <2> QED
    BY <2>1, <2>2, <2>3 DEF Next, CallStep, WorkStep
<1>6. UNCHANGED calls \/ \E c \in Callers : Call(c) \/ Continue(c)
  BY DEF Next, InitLogger, CloseBegin, MainContinues, InitStore, InitExporter,
    CloseNoExporter, CloseExporter, CloseExporterPanics, WaitExporter, CloseNoLogger,
    CloseLogger, WaitLogger, CloseWriter, MainMoves, CloseReturns, SetLogger,
    LoggerWorker, LoggerWorks, LoggerStops, ExporterWorker, ExporterWorks, ExporterStops
<1> QED
  BY <1>1, <1>2, <1>3, <1>4, <1>5, <1>6

-----------------------------------------------------------------------------
(* Init and Close keep the globals in step: types, MainOrder, LoopsOwned.   *)
LEMMA MainKept ==
  ASSUME MainTypes, MainOrder, LoopsOwned, Next
  PROVE  MainTypes' /\ MainOrder' /\ LoopsOwned'
<1> USE Numbers
<1>1. ASSUME NEW cfg \in Configs, InitLogger(cfg)
      PROVE  MainTypes' /\ MainOrder' /\ LoopsOwned'
  <2>1. /\ inits' = inits + 1 /\ inits < MaxInits /\ cfg \in SUBSET Features
        /\ conf' = [conf EXCEPT ![inits + 1] = cfg]
        /\ ctl = "idle" /\ ctl' = "store"
        /\ UNCHANGED <<closes, inst, cancel, exporter, loops, phase, custom, abandoned>>
    BY <1>1, FacadeAssumption DEF InitLogger
  <2>2. conf' \in [Gens -> SUBSET Features] /\ (inst # 0 => conf'[inst] = conf[inst])
    BY <2>1 DEF MainTypes, MainOrder
  <2>3. MainTypes'
    BY <2>1, <2>2 DEF MainTypes
  <2>4. MainOrder'
    BY <2>1, <2>2 DEF MainTypes, MainOrder, Closing
  <2>5. LoopsOwned'
    BY <2>1 DEF LoopsOwned
  <2> QED
    BY <2>3, <2>4, <2>5
<1>2. CASE InitStore
  <2>1. /\ inst' = inst + 1 /\ inst' = inits /\ inits \in Gens
        /\ ctl = "store" /\ ctl' = "exporter" /\ phase' = "open"
        /\ UNCHANGED <<inits, closes, conf, exporter, custom>>
        /\ cancel' \in {cancel, inits}
    BY <1>2 DEF InitStore, workers, MainTypes, MainOrder
  <2>2. /\ abandoned' \subseteq abandoned \union {inst} /\ abandoned \subseteq abandoned'
        /\ inst \in loops => inst \in abandoned'
        /\ 0 \notin abandoned'
    BY <1>2 DEF InitStore, MainTypes, LoopsOwned
  <2>3. /\ loops' \subseteq loops \union {inits}
        /\ inits \in loops' => cancel' = inits
        /\ inits \notin loops
    BY <1>2, <2>1 DEF InitStore, MainTypes
  <2>4. MainTypes'
    BY <2>1, <2>2, <2>3 DEF MainTypes
  <2>5. MainOrder'
    BY <2>1 DEF MainOrder, MainTypes, Closing
  <2>6. LoopsOwned'
    BY <2>1, <2>2, <2>3 DEF LoopsOwned
  <2> QED
    BY <2>4, <2>5, <2>6
<1>3. CASE InitExporter
  BY <1>3 DEF InitExporter, marks, MainTypes, MainOrder, LoopsOwned, Closing
<1>4. CASE SetLogger
  BY <1>4 DEF SetLogger, main, marks, MainTypes, MainOrder, LoopsOwned, Closing
<1>5. CASE CloseBegin
  BY <1>5, FacadeAssumption DEF CloseBegin, workers, MainTypes, MainOrder, LoopsOwned, Closing
<1>6. CASE CloseNoExporter \/ CloseExporter \/ CloseExporterPanics \/ WaitExporter
  BY <1>6 DEF CloseNoExporter, CloseExporter, CloseExporterPanics, WaitExporter,
    MainMoves, workers, marks, MainTypes, MainOrder, LoopsOwned, Closing
<1>7. CASE CloseLogger \/ WaitLogger
  BY <1>7 DEF CloseLogger, WaitLogger,
    MainMoves, workers, marks, MainTypes, MainOrder, LoopsOwned, Closing
<1>8. CASE CloseNoLogger \/ CloseWriter
  BY <1>8 DEF CloseNoLogger, CloseWriter, CloseReturns,
    workers, marks, MainTypes, MainOrder, LoopsOwned, Closing
<1>9. CASE CallStep \/ WorkStep
  BY <1>9, OthersLeaveMain DEF main, MainTypes, MainOrder, LoopsOwned, Closing
<1> QED
  BY <1>1, <1>2, <1>3, <1>4, <1>5, <1>6, <1>7, <1>8, <1>9
    DEF Next, MainContinues, CallStep, WorkStep

-----------------------------------------------------------------------------
(* What a step does to a queue: a worker takes lines out until it returns   *)
(* over an empty one, and a caller puts its own line in while there is room.*)
LoggerMoves ==
  \A g \in Gens :
    /\ logger[g].worker # "none" => logger'[g].worker # "none"
    /\ logger'[g].worker = "done" => logger[g].worker = "done" \/ logger'[g].queue = {}
    /\ \/ logger'[g].queue \subseteq logger[g].queue
       \/ \E l \in InCall : /\ to[l] = g /\ Cardinality(logger[g].queue) < ChanSize
                            /\ ~Ongoing(l)'
                            /\ logger'[g].queue = logger[g].queue \union {l}

ExporterMoves ==
  \A g \in Gens :
    /\ exp'[g].worker = "done" => exp[g].worker = "done" \/ exp'[g].queue = {}
    /\ \/ exp'[g].queue \subseteq exp[g].queue
       \/ \E l \in InCall : /\ Cardinality(exp[g].queue) < QueueSize
                            /\ exp'[g].queue = exp[g].queue \union {l}

(* Line(c), as it is and as a call of Info makes it.                        *)
LEMMA LineFacts ==
  ASSUME CallTypes, CallsOwned
  PROVE  /\ \A l \in Lines : /\ l[1] \in Callers /\ l[2] \in 1..MaxLines
                            /\ lines[l[1]] \in 0..MaxLines /\ l = <<l[1], l[2]>>
         /\ \A c \in Callers : pc[c] # "idle" =>
              /\ Line(c) \in Lines /\ Line(c)[1] = c /\ Line(c)[2] = lines[c]
              /\ to[Line(c)] \in 1..inst
<1>1. \A l \in Lines : /\ l[1] \in Callers /\ l[2] \in 1..MaxLines
                      /\ lines[l[1]] \in 0..MaxLines /\ l = <<l[1], l[2]>>
  BY DEF CallTypes, Lines
<1>2. ASSUME NEW c \in Callers, pc[c] # "idle"
      PROVE  /\ Line(c) \in Lines /\ Line(c)[1] = c /\ Line(c)[2] = lines[c]
             /\ to[Line(c)] \in 0..inst /\ to[Line(c)] >= 1
  <2>1. lines[c] \in 1..MaxLines /\ to[Line(c)] >= 1
    BY <1>2, FacadeAssumption DEF CallTypes, CallsOwned
  <2>2. Line(c) \in Lines
    BY <2>1 DEF Line, Lines
  <2> QED
    BY <2>1, <2>2 DEF Line, CallTypes
<1> QED
  BY <1>1, <1>2

(* A generation's exporter that was started belongs to an Init that is over.*)
LEMMA StartedExporter ==
  ASSUME ExportersOwned, NEW g \in Gens, exp[g].worker # "none"
  PROVE  ~(g > inst) /\ ~(g = inst /\ ctl = "exporter")
BY DEF ExportersOwned, NoExporter

(* Every step keeps the exporters' part.                                    *)
LEMMA ExportersKept ==
  ASSUME MainTypes, WorkerTypes, MainOrder, ExportersOwned, CallTypes, CallsOwned, Next
  PROVE  exp' \in [Gens -> ExporterType] /\ ExportersOwned' /\ ExporterMoves
<1> USE Numbers
<1> DEFINE Kept == exp' \in [Gens -> ExporterType] /\ ExportersOwned' /\ ExporterMoves
<1> SUFFICES Kept
  OBVIOUS
<1>1. ASSUME NEW cfg \in Configs, InitLogger(cfg) PROVE Kept
  <2>1. /\ inits' = inst + 1 /\ ctl = "idle" /\ ctl' = "store"
        /\ \A g \in Gens \ {inits'} : conf'[g] = conf[g]
        /\ UNCHANGED <<closes, inst, exporter, phase, exp, abandoned>>
    BY <1>1 DEF InitLogger, MainTypes, MainOrder, marks
  <2>2. inits' > inst /\ (inits' \in Gens => exp[inits'].worker = "none")
    BY <2>1, StartedExporter
  <2> QED
    BY <2>1, <2>2 DEF WorkerTypes, ExportersOwned, ExporterMoves
<1>2. CASE InitStore
  BY <1>2 DEF InitStore, workers, MainTypes, MainOrder, WorkerTypes, ExportersOwned, ExporterMoves,
    NoExporter
<1>3. CASE InitExporter
  <2>1. /\ ctl = "exporter" /\ ctl' = "idle" /\ inst \in Gens /\ phase = "open"
        /\ exp[inst] = NoExporter
        /\ UNCHANGED <<inits, closes, conf, inst, phase, abandoned>>
    BY <1>3 DEF InitExporter, MainTypes, MainOrder, ExportersOwned, marks
  <2>2. CASE "otlp" \in conf[inst]
    <3>1. /\ exporter' = inst
          /\ exp' = [exp EXCEPT ![inst].worker = "run"]
      BY <1>3, <2>2 DEF InitExporter
    <3>2. /\ exp' \in [Gens -> ExporterType]
          /\ \A h \in Gens \ {inst} : exp'[h] = exp[h]
          /\ exp'[inst].worker = "run" /\ exp'[inst].queue = {} /\ ~exp'[inst].stop
      <4>1. exp[inst].queue = {} /\ ~exp[inst].stop
        BY <2>1 DEF NoExporter
      <4> QED
        BY <2>1, <3>1, <4>1 DEF WorkerTypes, ExporterType
    <3> QED
      BY <2>1, <2>2, <3>1, <3>2 DEF ExportersOwned, ExporterMoves
  <2>3. CASE "otlp" \notin conf[inst]
    BY <1>3, <2>1, <2>3 DEF InitExporter, WorkerTypes, ExportersOwned, ExporterMoves, NoExporter
  <2> QED
    BY <2>2, <2>3
<1>4. CASE SetLogger
  BY <1>4 DEF SetLogger, main, marks, WorkerTypes, ExportersOwned, ExporterMoves
<1>5. CASE CloseBegin
  BY <1>5 DEF CloseBegin, workers, MainTypes, MainOrder, WorkerTypes, ExportersOwned, ExporterMoves
<1>6. CASE CloseExporter
  <2>1. /\ ctl = "closeExporter" /\ ctl' = "waitExporter"
        /\ exporter \in Gens /\ exporter = inst /\ phase # "open" /\ closes > 0
        /\ exp' = [exp EXCEPT ![exporter].stop = TRUE]
        /\ UNCHANGED <<inits, closes, conf, inst, exporter, phase, abandoned>>
    BY <1>6 DEF CloseExporter, MainMoves, MainTypes, MainOrder, marks
  <2>2. /\ exp' \in [Gens -> ExporterType]
        /\ \A h \in Gens \ {inst} : exp'[h] = exp[h]
        /\ exp'[inst].worker = exp[inst].worker /\ exp'[inst].queue = exp[inst].queue
        /\ exp'[inst].stop
    BY <2>1 DEF WorkerTypes, ExporterType
  <2> QED
    BY <2>1, <2>2 DEF ExportersOwned, ExporterMoves
<1>7. CASE CloseNoExporter \/ WaitExporter
  BY <1>7 DEF CloseNoExporter, WaitExporter, MainMoves, workers, marks,
    MainTypes, MainOrder, WorkerTypes, ExportersOwned, ExporterMoves
<1>8. CASE CloseExporterPanics \/ CloseLogger \/ WaitLogger \/ CloseNoLogger \/ CloseWriter
  <2>1. /\ ctl \notin {"exporter", "closeExporter", "waitExporter", "panicked"}
             \/ ctl' = "panicked"
        /\ ctl' # "exporter"
        /\ ctl # "exporter"
        /\ phase' = "open" <=> phase = "open"
        /\ UNCHANGED <<inits, closes, conf, inst, exporter, exp, abandoned>>
    BY <1>8 DEF CloseExporterPanics, CloseLogger, WaitLogger, CloseNoLogger,
      CloseWriter, CloseReturns, MainMoves, workers, marks
  <2> QED
    BY <2>1 DEF WorkerTypes, ExportersOwned, ExporterMoves
<1>9. ASSUME NEW c \in Callers, Export(c), exporter # 0, exp # exp' PROVE Kept
  <2>1. /\ exporter \in Gens
        /\ exp' = [exp EXCEPT ![exporter].queue = @ \union {Line(c)}]
        /\ Line(c) \in Lines /\ Line(c) \in InCall
        /\ Cardinality(exp[exporter].queue) < QueueSize
    BY <1>9, LineFacts DEF Export, CallerMoves, MainTypes, InCall
  <2>2. /\ exp' \in [Gens -> ExporterType]
        /\ \A h \in Gens \ {exporter} : exp'[h] = exp[h]
        /\ exp'[exporter].queue = exp[exporter].queue \union {Line(c)}
        /\ exp'[exporter].worker = exp[exporter].worker
        /\ exp'[exporter].stop = exp[exporter].stop
    BY <2>1 DEF WorkerTypes, ExporterType
  <2>3. exp[exporter].worker # "none"
    BY <2>1 DEF ExportersOwned, ExporterMoves
  <2>4. UNCHANGED <<inits, closes, conf, inst, exporter, phase, abandoned, ctl>>
    BY <1>9 DEF Export, main, marks
  <2> QED
    <3>1. ExportersOwned'
      BY <2>1, <2>2, <2>3, <2>4, StartedExporter DEF ExportersOwned
    <3>2. ExporterMoves
      BY <2>1, <2>2 DEF ExporterMoves
    <3> QED
      BY <2>2, <3>1, <3>2
<1>10. ASSUME NEW g \in Gens, ExporterWorks(g) PROVE Kept
  <2>1. PICK l \in exp[g].queue : exp' = [exp EXCEPT ![g].queue = @ \ {l}]
    BY <1>10 DEF ExporterWorks
  <2>2. /\ exp' \in [Gens -> ExporterType]
        /\ \A h \in Gens \ {g} : exp'[h] = exp[h]
        /\ exp'[g].queue \subseteq exp[g].queue
        /\ exp'[g].worker = exp[g].worker /\ exp'[g].stop = exp[g].stop
    BY <2>1 DEF WorkerTypes, ExporterType
  <2>3. exp[g].worker = "run"
    BY <1>10 DEF ExporterWorks
  <2>4. UNCHANGED <<inits, closes, conf, inst, exporter, phase, abandoned, ctl>>
    BY <1>10 DEF ExporterWorks, main, marks
  <2> QED
    <3>1. ExportersOwned'
      BY <2>2, <2>3, <2>4, StartedExporter DEF ExportersOwned
    <3>2. ExporterMoves
      BY <2>2 DEF ExporterMoves
    <3> QED
      BY <2>2, <3>1, <3>2
<1>11. ASSUME NEW g \in Gens, ExporterStops(g) PROVE Kept
  <2>1. /\ exp' = [exp EXCEPT ![g].worker = "done"]
        /\ exp[g].worker = "run" /\ exp[g].stop /\ exp[g].queue = {}
    BY <1>11 DEF ExporterStops
  <2>2. /\ exp' \in [Gens -> ExporterType]
        /\ \A h \in Gens \ {g} : exp'[h] = exp[h]
        /\ exp'[g].queue = {}
        /\ exp'[g].worker = "done" /\ exp'[g].stop = exp[g].stop
    BY <2>1 DEF WorkerTypes, ExporterType
  <2>4. UNCHANGED <<inits, closes, conf, inst, exporter, phase, abandoned, ctl>>
    BY <1>11 DEF ExporterStops, main, marks
  <2> QED
    <3>1. ExportersOwned'
      BY <2>1, <2>2, <2>4, StartedExporter DEF ExportersOwned
    <3>2. ExporterMoves
      BY <2>2 DEF ExporterMoves
    <3> QED
      BY <2>2, <3>1, <3>2
<1>12. ASSUME CallStep \/ WorkStep, UNCHANGED exp PROVE Kept
  BY <1>12, OthersLeaveMain DEF main, WorkerTypes, ExportersOwned, ExporterMoves
<1>13. ASSUME CallStep, exp # exp' PROVE Kept
  <2>1. PICK c \in Callers : Call(c) \/ Continue(c)
    BY <1>13 DEF CallStep
  <2>2. Export(c) /\ exporter # 0
    BY <1>13, <2>1 DEF Call, Continue, Export, Flag, Send, FallBack, SendPanics, Write,
      workers
  <2> QED
    BY <1>9, <1>13, <2>2
<1>14. ASSUME WorkStep, exp # exp' PROVE Kept
  <2>1. PICK g \in Gens : LoggerWorker(g) \/ ExporterWorker(g)
    BY <1>14 DEF WorkStep
  <2>2. ExporterWorks(g) \/ ExporterStops(g)
    BY <1>14, <2>1 DEF LoggerWorker, ExporterWorker, LoggerWorks, LoggerStops
  <2> QED
    BY <1>10, <1>11, <2>2
<1> QED
  BY <1>1, <1>2, <1>3, <1>4, <1>5, <1>6, <1>7, <1>8, <1>12, <1>13, <1>14
    DEF Next, MainContinues, CallStep, WorkStep

-----------------------------------------------------------------------------
(* Every step keeps the loggers' part, and queues only where a worker is.   *)
LEMMA LoggersKept ==
  ASSUME MainTypes, WorkerTypes, MainOrder, LoggersOwned, StdoutOwned, CallTypes,
         CallsOwned, Next
  PROVE  logger' \in [Gens -> LoggerType] /\ stdoutClosed' \in BOOLEAN
           /\ LoggersOwned' /\ StdoutOwned' /\ LoggerMoves
<1> USE Numbers
<1> DEFINE Kept == logger' \in [Gens -> LoggerType] /\ stdoutClosed' \in BOOLEAN
                     /\ LoggersOwned' /\ StdoutOwned' /\ LoggerMoves
<1> SUFFICES Kept
  OBVIOUS
<1>1. ASSUME NEW cfg \in Configs, InitLogger(cfg) PROVE Kept
  <2> DEFINE n == inst + 1
  <2>1. /\ n \in Gens /\ inits' = n /\ ctl = "idle" /\ ctl' = "store"
        /\ UNCHANGED <<closes, inst, phase, custom, abandoned, stdoutClosed>>
        /\ logger[n] = NoLogger
        /\ inits = inst
    BY <1>1 DEF InitLogger, MainTypes, MainOrder, LoggersOwned, marks
  <2>2. CASE logger' = logger
    BY <2>1, <2>2 DEF WorkerTypes, LoggersOwned, LoggerMoves, StdoutOwned, NoLogger
  <2>3. CASE logger' = [logger EXCEPT ![n].on = TRUE, ![n].worker = "run"]
    <3>1. /\ logger[n].queue = {} /\ ~logger[n].stop /\ ~logger[n].on
          /\ ~logger[n].chanClosed /\ ~logger[n].fileClosed
      BY <2>1 DEF NoLogger
    <3>2. /\ logger' \in [Gens -> LoggerType]
          /\ \A h \in Gens \ {n} : logger'[h] = logger[h]
          /\ logger'[n].queue = {} /\ ~logger'[n].stop /\ logger'[n].on
          /\ logger'[n].worker = "run"
          /\ ~logger'[n].chanClosed /\ ~logger'[n].fileClosed
      <4>1. logger' = [h \in Gens |->
              IF h = n THEN [[logger[n] EXCEPT !.on = TRUE] EXCEPT !.worker = "run"]
                       ELSE logger[h]]
        BY <2>1, <2>3 DEF WorkerTypes, LoggerType
      <4> QED
        BY <2>1, <3>1, <4>1 DEF WorkerTypes, LoggerType
    <3> QED
      BY <2>1, <3>2 DEF WorkerTypes, LoggersOwned, LoggerMoves, StdoutOwned
  <2> QED
    BY <1>1, <2>1, <2>2, <2>3 DEF InitLogger
<1>2. CASE InitStore
  <2>1. /\ inst' = inits /\ inits = inst + 1 /\ phase' = "open"
        /\ ctl = "store" /\ ctl' = "exporter"
        /\ abandoned \subseteq abandoned' /\ (inst # 0 /\ phase = "open" => inst \in abandoned')
        /\ UNCHANGED <<inits, closes, custom, logger, stdoutClosed>>
    BY <1>2 DEF InitStore, workers, MainOrder
  <2> QED
    BY <2>1 DEF WorkerTypes, LoggersOwned, LoggerMoves, StdoutOwned
<1>3. CASE SetLogger
  BY <1>3 DEF SetLogger, main, marks, WorkerTypes, LoggersOwned, LoggerMoves, StdoutOwned
<1>4. CASE CloseBegin
  BY <1>4 DEF CloseBegin, workers, MainTypes, MainOrder, WorkerTypes, LoggersOwned, LoggerMoves, StdoutOwned
<1>5. CASE CloseLogger /\ logger[inst].on
  <2>1. /\ ctl = "closeLogger" /\ ctl' = "waitLogger" /\ inst \in Gens
        /\ phase # "open" /\ closes > 0
        /\ logger' = [logger EXCEPT ![inst].stop = TRUE]
        /\ UNCHANGED <<inits, closes, inst, phase, custom, abandoned, stdoutClosed>>
    BY <1>5 DEF CloseLogger, MainMoves, MainTypes, MainOrder, marks
  <2>2. /\ logger' \in [Gens -> LoggerType]
        /\ \A h \in Gens \ {inst} : logger'[h] = logger[h]
        /\ logger'[inst].worker = logger[inst].worker
        /\ logger'[inst].queue = logger[inst].queue
        /\ logger'[inst].on = logger[inst].on
        /\ logger'[inst].stop
    BY <2>1 DEF WorkerTypes, LoggerType
  <2> QED
    BY <2>1, <2>2 DEF WorkerTypes, LoggersOwned, LoggerMoves, StdoutOwned
<1>6. CASE CloseLogger /\ ~logger[inst].on
  <2>1. /\ ctl = "closeLogger" /\ ctl' = "closeWriter" /\ inst \in Gens
        /\ logger[inst].worker # "run"
        /\ UNCHANGED <<inits, closes, inst, phase, custom, abandoned, stdoutClosed, logger>>
    BY <1>6 DEF CloseLogger, MainMoves, MainTypes, LoggersOwned, marks
  <2> QED
    BY <2>1 DEF WorkerTypes, LoggersOwned, LoggerMoves, StdoutOwned
<1>7. CASE WaitLogger
  <2>1. /\ ctl = "waitLogger" /\ ctl' = "closeWriter" /\ inst \in Gens
        /\ logger[inst].worker = "done" /\ closes > 0 /\ phase # "open"
        /\ logger' = [logger EXCEPT ![inst].chanClosed = TRUE, ![inst].on = FALSE]
        /\ UNCHANGED <<inits, closes, inst, phase, custom, abandoned, stdoutClosed>>
    BY <1>7 DEF WaitLogger, MainMoves, MainTypes, MainOrder, marks
  <2>2. logger' = [h \in Gens |->
          IF h = inst THEN [[logger[inst] EXCEPT !.chanClosed = TRUE] EXCEPT !.on = FALSE]
                      ELSE logger[h]]
    BY <2>1 DEF WorkerTypes, LoggerType
  <2>3. /\ logger' \in [Gens -> LoggerType]
        /\ \A h \in Gens \ {inst} : logger'[h] = logger[h]
        /\ logger'[inst].worker = "done"
        /\ logger'[inst].queue = logger[inst].queue
        /\ logger'[inst].stop = logger[inst].stop
    <3> DEFINE r == [[logger[inst] EXCEPT !.chanClosed = TRUE] EXCEPT !.on = FALSE]
    <3>1. /\ r \in LoggerType
          /\ r.worker = logger[inst].worker /\ r.queue = logger[inst].queue
          /\ r.stop = logger[inst].stop
      BY <2>1 DEF WorkerTypes, LoggerType
    <3>2. logger' = [h \in Gens |-> IF h = inst THEN r ELSE logger[h]]
      BY <2>2
    <3> HIDE DEF r
    <3> QED
      BY <2>1, <3>1, <3>2 DEF WorkerTypes
  <2> QED
    BY <2>1, <2>3 DEF WorkerTypes, LoggersOwned, LoggerMoves, StdoutOwned
<1>8. CASE CloseWriter
  <2>1. /\ ctl = "closeWriter" /\ ctl' = "idle" /\ inst \in Gens
        /\ closes > 0 /\ phase # "open" /\ phase' # "open"
        /\ UNCHANGED <<inits, closes, inst, custom, abandoned>>
    BY <1>8 DEF CloseWriter, CloseReturns, MainTypes, MainOrder, marks
  <2>2. CASE logger' = logger
    BY <1>8, <2>1, <2>2 DEF CloseWriter, WorkerTypes, LoggersOwned, LoggerMoves, StdoutOwned
  <2>3. CASE logger' = [logger EXCEPT ![inst].fileClosed = TRUE] /\ UNCHANGED stdoutClosed
    <3>1. /\ logger' \in [Gens -> LoggerType]
          /\ \A h \in Gens \ {inst} : logger'[h] = logger[h]
          /\ logger'[inst].worker = logger[inst].worker
          /\ logger'[inst].queue = logger[inst].queue
          /\ logger'[inst].on = logger[inst].on
          /\ logger'[inst].stop = logger[inst].stop
      BY <2>1, <2>3 DEF WorkerTypes, LoggerType
    <3> QED
      BY <2>1, <2>3, <3>1 DEF WorkerTypes, LoggersOwned, LoggerMoves, StdoutOwned
  <2> QED
    BY <1>8, <2>2, <2>3 DEF CloseWriter
<1>9. CASE InitExporter \/ CloseNoExporter \/ CloseExporter \/ CloseExporterPanics
             \/ WaitExporter \/ CloseNoLogger
  <2>1. /\ ctl' \notin {"closeWriter", "store"}
        /\ ctl' = "idle" => phase = "open" \/ inst = 0 \/ inst \in custom
        /\ phase' = "open" <=> phase = "open"
        /\ UNCHANGED <<inits, closes, inst, custom, abandoned, logger, stdoutClosed>>
    BY <1>9 DEF InitExporter, CloseNoExporter, CloseExporter, CloseExporterPanics,
      WaitExporter, CloseNoLogger, CloseReturns, MainMoves, MainOrder, workers, marks
  <2> QED
    BY <2>1 DEF WorkerTypes, LoggersOwned, LoggerMoves, StdoutOwned
<1>10. ASSUME NEW c \in Callers, Send(c) PROVE Kept
  <2> DEFINE g == to[Line(c)]
  <2>1. /\ g \in Gens /\ g <= inst /\ Line(c) \in Lines /\ Line(c) \in InCall
        /\ Cardinality(logger[g].queue) < ChanSize
        /\ logger[g].worker # "none"
        /\ logger' = [logger EXCEPT ![g].queue = @ \union {Line(c)}]
        /\ UNCHANGED <<ctl, inits, closes, inst, phase, custom, abandoned, stdoutClosed>>
    BY <1>10, LineFacts DEF Send, CallerMoves, CallsOwned, main, marks, InCall
  <2>0. g = to[Line(c)]
    OBVIOUS
  <2> HIDE DEF g
  <2>2. /\ logger' \in [Gens -> LoggerType]
        /\ \A h \in Gens \ {g} : logger'[h] = logger[h]
        /\ logger'[g].queue = logger[g].queue \union {Line(c)}
        /\ logger'[g].worker = logger[g].worker
        /\ logger'[g].on = logger[g].on /\ logger'[g].stop = logger[g].stop
        /\ logger'[g].chanClosed = logger[g].chanClosed
        /\ logger'[g].fileClosed = logger[g].fileClosed
    BY <2>1 DEF WorkerTypes, LoggerType
  <2>3. LoggersOwned' /\ StdoutOwned'
    BY <2>1, <2>2 DEF LoggersOwned, StdoutOwned
  <2>4. LoggerMoves
    <3>1. \A l : l = Line(c) => ~Ongoing(l)'
      <4>1. pc'[c] = "idle" /\ Line(c)[1] = c
        BY <1>10, LineFacts DEF Send, CallerMoves, CallTypes
      <4> QED
        BY <4>1 DEF Ongoing
    <3> QED
      BY <2>0, <2>1, <2>2, <3>1 DEF LoggerMoves
  <2> QED
    BY <2>1, <2>2, <2>3, <2>4 DEF WorkerTypes
<1>11. ASSUME NEW g \in Gens, LoggerWorks(g) PROVE Kept
  <2>1. PICK l \in logger[g].queue : logger' = [logger EXCEPT ![g].queue = @ \ {l}]
    BY <1>11 DEF LoggerWorks
  <2>2. /\ logger' \in [Gens -> LoggerType]
        /\ \A h \in Gens \ {g} : logger'[h] = logger[h]
        /\ logger'[g].queue \subseteq logger[g].queue
        /\ logger'[g].worker = logger[g].worker
        /\ logger'[g].on = logger[g].on /\ logger'[g].stop = logger[g].stop
        /\ logger'[g].chanClosed = logger[g].chanClosed
        /\ logger'[g].fileClosed = logger[g].fileClosed
    BY <2>1 DEF WorkerTypes, LoggerType
  <2>3. logger[g].worker = "run" /\ g <= inits
    BY <1>11 DEF LoggerWorks, LoggersOwned, NoLogger
  <2>4. UNCHANGED <<ctl, inits, closes, inst, phase, custom, abandoned, stdoutClosed>>
    BY <1>11 DEF LoggerWorks, main, marks
  <2> QED
    <3>1. LoggersOwned' /\ StdoutOwned'
      BY <2>2, <2>3, <2>4 DEF LoggersOwned, StdoutOwned
    <3>2. LoggerMoves
      BY <2>2 DEF LoggerMoves
    <3> QED
      BY <2>2, <2>4, <3>1, <3>2 DEF WorkerTypes
<1>12. ASSUME NEW g \in Gens, LoggerStops(g) PROVE Kept
  <2>1. /\ logger' = [logger EXCEPT ![g].worker = "done"]
        /\ logger[g].worker = "run" /\ logger[g].stop /\ g <= inits
        /\ logger[g].queue = {}
    BY <1>12 DEF LoggerStops, LoggersOwned, NoLogger
  <2>2. /\ logger' \in [Gens -> LoggerType]
        /\ \A h \in Gens \ {g} : logger'[h] = logger[h]
        /\ logger'[g].queue = logger[g].queue
        /\ logger'[g].worker = "done"
        /\ logger'[g].on = logger[g].on /\ logger'[g].stop = logger[g].stop
        /\ logger'[g].chanClosed = logger[g].chanClosed
        /\ logger'[g].fileClosed = logger[g].fileClosed
    BY <2>1 DEF WorkerTypes, LoggerType
  <2>4. UNCHANGED <<ctl, inits, closes, inst, phase, custom, abandoned, stdoutClosed>>
    BY <1>12 DEF LoggerStops, main, marks
  <2> QED
    <3>1. LoggersOwned' /\ StdoutOwned'
      BY <2>1, <2>2, <2>4 DEF LoggersOwned, StdoutOwned
    <3>2. LoggerMoves
      BY <2>1, <2>2 DEF LoggerMoves
    <3> QED
      BY <2>2, <2>4, <3>1, <3>2 DEF WorkerTypes
<1>13. ASSUME CallStep \/ WorkStep, UNCHANGED logger PROVE Kept
  BY <1>13, OthersLeaveMain DEF main, WorkerTypes, LoggersOwned, LoggerMoves, StdoutOwned
<1>14. ASSUME CallStep, logger # logger' PROVE Kept
  <2>1. PICK c \in Callers : Call(c) \/ Continue(c)
    BY <1>14 DEF CallStep
  <2>2. Send(c)
    BY <1>14, <2>1 DEF Call, Continue, Export, Flag, FallBack, SendPanics, Write,
      workers
  <2> QED
    BY <1>10, <2>2
<1>15. ASSUME WorkStep, logger # logger' PROVE Kept
  <2>1. PICK g \in Gens : LoggerWorker(g) \/ ExporterWorker(g)
    BY <1>15 DEF WorkStep
  <2>2. LoggerWorks(g) \/ LoggerStops(g)
    BY <1>15, <2>1 DEF LoggerWorker, ExporterWorker, ExporterWorks, ExporterStops
  <2> QED
    BY <1>11, <1>12, <2>2
<1> HIDE DEF Kept
<1>16. CASE CloseLogger
  BY <1>5, <1>6, <1>16
<1>17. CASE MainStep
  BY <1>17, <1>1, <1>2, <1>3, <1>4, <1>7, <1>8, <1>9, <1>16 DEF MainStep, MainContinues
<1>18. CASE CallStep \/ WorkStep
  BY <1>18, <1>13, <1>14, <1>15
<1> QED
  BY <1>17, <1>18 DEF Next, MainStep, CallStep, WorkStep

(* Send and Export test the capacity in the step that adds the line.        *)
LEMMA QueuesKept ==
  ASSUME WorkerTypes, QueuesBounded, LoggerMoves, ExporterMoves
  PROVE  QueuesBounded'
<1> SUFFICES ASSUME NEW g \in Gens
             PROVE  /\ IsFiniteSet(logger'[g].queue) /\ Cardinality(logger'[g].queue) <= ChanSize
                    /\ IsFiniteSet(exp'[g].queue) /\ Cardinality(exp'[g].queue) <= QueueSize
  BY DEF QueuesBounded
<1>0. ChanSize \in Nat /\ QueueSize \in Nat
  BY FacadeAssumption
<1>1. ASSUME NEW S, NEW T, NEW n \in Nat, IsFiniteSet(S), Cardinality(S) <= n,
             T \subseteq S \/ \E l : Cardinality(S) < n /\ T = S \union {l}
      PROVE  IsFiniteSet(T) /\ Cardinality(T) <= n
  <2>1. CASE T \subseteq S
    BY <1>1, <2>1, FS_Subset, FS_CardinalityType
  <2>2. ASSUME NEW l, Cardinality(S) < n, T = S \union {l}
        PROVE  IsFiniteSet(T) /\ Cardinality(T) <= n
    <3>1. IsFiniteSet(T) /\ Cardinality(T) \in {Cardinality(S), Cardinality(S) + 1}
      BY <1>1, <2>2, FS_AddElement
    <3>2. Cardinality(S) \in Nat
      BY <1>1, FS_CardinalityType
    <3> QED
      BY <2>2, <3>1, <3>2
  <2> QED
    BY <1>1, <2>1, <2>2
<1>2. IsFiniteSet(logger'[g].queue) /\ Cardinality(logger'[g].queue) <= ChanSize
  <2>1. \/ logger'[g].queue \subseteq logger[g].queue
        \/ \E l : /\ Cardinality(logger[g].queue) < ChanSize
                 /\ logger'[g].queue = logger[g].queue \union {l}
    BY DEF LoggerMoves
  <2>2. IsFiniteSet(logger[g].queue) /\ Cardinality(logger[g].queue) <= ChanSize
    BY DEF QueuesBounded
  <2> QED
    BY <1>0, <1>1, <2>1, <2>2, Zenon
<1>3. IsFiniteSet(exp'[g].queue) /\ Cardinality(exp'[g].queue) <= QueueSize
  <2>1. \/ exp'[g].queue \subseteq exp[g].queue
        \/ \E l : /\ Cardinality(exp[g].queue) < QueueSize
                 /\ exp'[g].queue = exp[g].queue \union {l}
    BY DEF ExporterMoves
  <2>2. IsFiniteSet(exp[g].queue) /\ Cardinality(exp[g].queue) <= QueueSize
    BY DEF QueuesBounded
  <2> QED
    BY <1>0, <1>1, <2>1, <2>2, Zenon
<1> QED
  BY <1>2, <1>3

-----------------------------------------------------------------------------
(* The calls. *)

(* A line is begun once and its call returns once.                          *)
CallMoves ==
  \A l \in Lines :
    /\ Unbegun(l)' => Unbegun(l) /\ to'[l] = to[l] /\ via'[l] = via[l]
    /\ ~Ongoing(l) /\ ~Unbegun(l) =>
         /\ ~Ongoing(l)' /\ ~Unbegun(l)'
         /\ to'[l] = to[l] /\ via'[l] = via[l]
    /\ ~Unbegun(l) => to'[l] = to[l]

(* The callers keep their part, and move their own line only.               *)
LEMMA CallsKept ==
  ASSUME MainTypes, MainOrder, CallTypes, CallsOwned, LinesPlaced, LoggersOwned,
         MainTypes', WorkerTypes, LoggerMoves, Next
  PROVE  CallTypes' /\ CallsOwned' /\ CallMoves
<1> USE Numbers, LineFacts
<1> DEFINE Kept == CallTypes' /\ CallsOwned' /\ CallMoves
<1> SUFFICES Kept
  OBVIOUS
<1>1. ASSUME NEW cfg \in Configs, InitLogger(cfg) PROVE Kept
  <2>1. /\ inst' = inst /\ Initing'
        /\ disturbed' = disturbed \union InCall
        /\ UNCHANGED <<pc, lines, to, via, dropped, written, refused, due>>
    BY <1>1 DEF InitLogger, Initing, calls, ends
  <2>2. InCall \subseteq Lines /\ \A c \in Callers : pc[c] # "idle" => Line(c) \in InCall
    BY DEF InCall
  <2>3. CallTypes'
    BY <2>1, <2>2 DEF CallTypes
  <2>4. CallsOwned'
    BY <2>1, <2>2 DEF CallsOwned, LoggerMoves, Line
  <2> QED
    BY <2>1, <2>3, <2>4 DEF CallMoves, Ongoing, Unbegun
<1>2. CASE InitStore
  <2>1. /\ inst' = inst + 1 /\ Initing /\ due' = {}
        /\ UNCHANGED <<logger, pc, lines, to, via, dropped, written, refused, disturbed>>
    BY <1>2 DEF InitStore, Initing, calls, ends, MainOrder, workers
  <2>3. CallTypes'
    BY <2>1 DEF CallTypes
  <2>4. CallsOwned'
    BY <2>1 DEF CallsOwned, Line
  <2> QED
    BY <2>1, <2>3, <2>4 DEF CallMoves, Ongoing, Unbegun
<1>3. CASE CloseBegin
  <2>1. /\ inst' = inst /\ (Initing' => Initing) /\ due' \subseteq due \union Lines
        /\ UNCHANGED <<logger, pc, lines, to, via, dropped, written, refused, disturbed>>
    BY <1>3 DEF CloseBegin, Initing, calls, ends, workers, Returned
  <2>3. CallTypes'
    BY <2>1 DEF CallTypes
  <2>4. CallsOwned'
    BY <2>1 DEF CallsOwned, Line
  <2> QED
    BY <2>1, <2>3, <2>4 DEF CallMoves, Ongoing, Unbegun
<1>4. CASE (MainContinues /\ ~InitStore) \/ SetLogger
  <2>1. /\ inst' = inst /\ (Initing' => Initing)
        /\ UNCHANGED <<pc, lines, to, via, dropped, written, refused, disturbed, due>>
    BY <1>4 DEF MainContinues, SetLogger, InitExporter, CloseNoExporter, CloseExporter,
      CloseExporterPanics, WaitExporter, CloseNoLogger, CloseLogger, WaitLogger,
      CloseWriter, MainMoves, CloseReturns, Initing, calls, ends, main, marks
  <2>3. CallTypes'
    BY <2>1 DEF CallTypes
  <2>4. CallsOwned'
    BY <2>1 DEF CallsOwned, Line, LoggerMoves
  <2> QED
    BY <2>1, <2>3, <2>4 DEF CallMoves, Ongoing, Unbegun
<1>5. ASSUME NEW c \in Callers, Call(c) PROVE Kept
  <2> DEFINE n == lines[c] + 1
             e == <<c, n>>
  <2>0. /\ lines' = [lines EXCEPT ![c] = n] /\ n \in 1..MaxLines /\ lines'[c] = n
    BY <1>5, FacadeAssumption DEF Call, CallTypes
  <2>1. /\ n \in 1..MaxLines /\ e \in Lines /\ pc[c] = "idle" /\ inst \in Gens
        /\ lines' = [lines EXCEPT ![c] = n]
        /\ dropped' \in [Gens -> Nat]
        /\ UNCHANGED <<logger, inst, ctl, via, written, refused, due>>
        /\ disturbed' \in {disturbed, disturbed \union {e}}
        /\ Initing => e \in disturbed'
        /\ lines'[c] = n
    <3>1. e \in Lines
      BY <2>0 DEF Lines
    <3>2. /\ disturbed' \in {disturbed, disturbed \union {e}}
          /\ Initing => e \in disturbed'
      BY <1>5, <2>0 DEF Call
    <3>3. /\ pc[c] = "idle" /\ inst \in Gens
          /\ UNCHANGED <<logger, inst, ctl, via, written, refused, due>>
      BY <1>5 DEF Call, Refused, Accepted, CallerMoves, main, workers, ends, MainTypes
    <3>4. dropped' \in [Gens -> Nat]
      BY <1>5, <3>3 DEF Call, Refused, Accepted, CountDrop, CallTypes
    <3> QED
      BY <2>0, <3>1, <3>2, <3>3, <3>4
  <2>2. \/ UNCHANGED to /\ pc' = pc
        \/ to' = [to EXCEPT ![e] = inst] /\ pc' = [pc EXCEPT ![c] = "export"]
    BY <1>5, <2>1 DEF Call, Refused, Accepted, CallerMoves, CallTypes
  <2>3. /\ e[1] = c /\ e[2] = n
        /\ \A l \in Lines : l = e <=> l[1] = c /\ l[2] = n
        /\ \A d \in Callers \ {c} : Line(d) # e
    BY <2>1 DEF Line
  <2> HIDE DEF e
  <2>4. CallTypes'
    <3>1. to' \in [Lines -> 0..inst]
      BY <2>1, <2>2 DEF CallTypes
    <3>2. pc' \in [Callers -> {"idle", "export", "flag", "send", "write", "panicked"}]
      <4>1. pc' = pc \/ pc' = [pc EXCEPT ![c] = "export"]
        BY <2>2
      <4> QED
        BY <4>1 DEF CallTypes
    <3>3. lines' \in [Callers -> 0..MaxLines]
      <4>1. lines'[c] \in 0..MaxLines
        BY <2>1, FacadeAssumption
      <4>2. \A d \in Callers : d # c => lines'[d] = lines[d]
        BY <2>1 DEF CallTypes
      <4> QED
        BY <2>1, <4>1, <4>2 DEF CallTypes
    <3> QED
      BY <2>1, <3>1, <3>2, <3>3 DEF CallTypes
  <2>5. CallsOwned'
    <3> SUFFICES ASSUME NEW d \in Callers, pc'[d] # "idle"
                 PROVE  /\ lines'[d] >= 1
                        /\ to'[Line(d)'] >= 1
                        /\ pc'[d] = "send" => logger'[to'[Line(d)']].worker # "none"
                        /\ Line(d)' \notin disturbed' => to'[Line(d)'] = inst' /\ ~Initing'
      BY DEF CallsOwned
    <3>1. CASE d = c
      <4>1. to' = [to EXCEPT ![e] = inst] /\ pc'[c] = "export"
        BY <2>1, <2>2, <3>1 DEF CallTypes
      <4>2. Line(d)' = e
        BY <2>1, <3>1 DEF Line, e
      <4>3. to'[e] = inst
        BY <2>1, <4>1 DEF CallTypes
      <4> QED
        BY <2>1, <3>1, <4>1, <4>2, <4>3 DEF Initing
    <3>2. CASE d # c
      <4>1. Line(d)' = Line(d) /\ lines'[d] = lines[d] /\ pc'[d] = pc[d]
        BY <2>1, <2>2, <3>2 DEF Line, CallTypes
      <4>2. to'[Line(d)] = to[Line(d)]
        BY <2>2, <2>3, <3>2, <4>1 DEF CallTypes
      <4> QED
        BY <2>1, <4>1, <4>2 DEF CallsOwned, Initing
    <3> QED
      BY <3>1, <3>2
  <2>6. CallMoves
    <3>1. \A l \in Lines : l # e => to'[l] = to[l]
      BY <2>2 DEF CallTypes
    <3>2. \A l \in Lines : l[1] # c => pc'[l[1]] = pc[l[1]] /\ lines'[l[1]] = lines[l[1]]
      BY <2>1, <2>2 DEF CallTypes
    <3>3. Unbegun(e)
      BY <2>1, <2>3 DEF Unbegun, CallTypes
    <3> QED
      <4> SUFFICES ASSUME NEW l \in Lines
                   PROVE  /\ Unbegun(l)' => Unbegun(l) /\ to'[l] = to[l] /\ via'[l] = via[l]
                          /\ ~Ongoing(l) /\ ~Unbegun(l) =>
                               /\ ~Ongoing(l)' /\ ~Unbegun(l)'
                               /\ to'[l] = to[l] /\ via'[l] = via[l]
                          /\ ~Unbegun(l) => to'[l] = to[l]
        BY DEF CallMoves
      <4>1. CASE l[1] # c
        BY <2>1, <2>3, <3>1, <3>2, <4>1 DEF Ongoing, Unbegun
      <4>2. CASE l[1] = c
        <5>1. lines'[l[1]] = lines[l[1]] + 1 /\ lines[l[1]] \in Nat /\ l[2] \in Nat
          <6>1. lines'[l[1]] = lines[l[1]] + 1
            BY <2>1, <4>2 DEF CallTypes
          <6>2. lines[l[1]] \in 0..MaxLines /\ l[2] \in 1..MaxLines
            BY LineFacts
          <6> QED
            BY <6>1, <6>2, FacadeAssumption
        <5> QED
          BY <2>1, <2>3, <3>1, <3>3, <4>2, <5>1 DEF Ongoing, Unbegun
      <4> QED
        BY <4>1, <4>2
  <2> QED
    BY <2>4, <2>5, <2>6
<1>6. ASSUME NEW c \in Callers, Continue(c) PROVE Kept
  <2>1. /\ pc[c] # "idle" /\ pc' = [pc EXCEPT ![c] = pc'[c]]
        /\ pc'[c] \in {"idle", "export", "flag", "send", "write", "panicked"}
        /\ pc'[c] = "send" => logger[to[Line(c)]].on
        /\ UNCHANGED <<inst, ctl, lines, to, disturbed, due>>
    BY <1>6 DEF Continue, Export, Flag, Send, FallBack, SendPanics, Write, CallerMoves,
      CallTypes, main, marks
  <2>2. /\ via' \in [Lines -> 0..inst] /\ dropped' \in [Gens -> Nat]
        /\ \A l \in Lines : l # Line(c) => via'[l] = via[l]
    <3>1. CASE UNCHANGED via
      <4>1. UNCHANGED dropped \/ CountDrop
        BY <1>6 DEF Continue, Export, Flag, Send, FallBack, SendPanics, Write
      <4>2. dropped' \in [Gens -> Nat]
        BY <4>1 DEF CountDrop, CallTypes
      <4> QED
        BY <3>1, <4>2 DEF CallTypes
    <3>2. CASE via' = [via EXCEPT ![Line(c)] = exporter] /\ UNCHANGED dropped
      BY <3>2 DEF CallTypes, MainTypes
    <3>3. \/ UNCHANGED via
          \/ via' = [via EXCEPT ![Line(c)] = exporter] /\ UNCHANGED dropped
      BY <1>6 DEF Continue, Export, Flag, Send, FallBack, SendPanics, Write
    <3> QED
      BY <3>1, <3>2, <3>3
  <2>3. written' \subseteq Lines /\ refused' \subseteq Lines
    <3>1. UNCHANGED ends \/ Write(c)
      BY <1>6 DEF Continue, Export, Flag, Send, FallBack, SendPanics
    <3>2. Line(c) \in Lines
      BY <2>1
    <3> QED
      BY <3>1, <3>2 DEF Write, WriteLine, CallTypes, ends
  <2>4. CallTypes'
    BY <2>1, <2>2, <2>3 DEF CallTypes
  <2>5. CallsOwned'
    <3>1. pc'[c] = "send" => logger'[to[Line(c)]].worker # "none"
      <4>1. to[Line(c)] \in Gens
        BY <2>1
      <4>2. pc'[c] = "send" => logger[to[Line(c)]].worker # "none"
        BY <2>1, <4>1 DEF LoggersOwned
      <4> QED
        BY <4>1, <4>2 DEF LoggerMoves
    <3>2. \A d \in Callers : pc'[d] # "idle" => pc[d] # "idle" /\ (d # c => pc'[d] = pc[d])
      BY <2>1 DEF CallTypes
    <3>3. \A d \in Callers : Line(d)' = Line(d)
      BY <2>1 DEF Line
    <3> QED
      BY <2>1, <3>1, <3>2, <3>3 DEF CallsOwned, LoggerMoves, Initing
  <2>6. CallMoves
    <3>1. Ongoing(Line(c)) /\ ~Unbegun(Line(c))
      BY <2>1 DEF Ongoing, Unbegun, CallTypes
    <3>2. \A l \in Lines : Ongoing(l)' => Ongoing(l)
      BY <2>1 DEF Ongoing, CallTypes
    <3>3. \A l \in Lines : Unbegun(l)' = Unbegun(l)
      BY <2>1 DEF Unbegun
    <3> QED
      BY <2>1, <2>2, <3>1, <3>2, <3>3 DEF CallMoves
  <2> QED
    BY <2>4, <2>5, <2>6
<1>7. ASSUME NEW g \in Gens, LoggerWorker(g) \/ ExporterWorker(g) PROVE Kept
  <2>1. UNCHANGED <<inst, ctl, pc, lines, to, via, dropped, due, disturbed>>
    BY <1>7 DEF LoggerWorker, LoggerWorks, LoggerStops, ExporterWorker, ExporterWorks,
      ExporterStops, main, calls, marks
  <2>2. written' \subseteq Lines /\ refused' \subseteq Lines
    BY <1>7 DEF LoggerWorker, LoggerWorks, LoggerStops, ExporterWorker, ExporterWorks,
      ExporterStops, WriteLine, CallTypes, ends, WorkerTypes, LoggerType
  <2>3. CallTypes'
    BY <2>1, <2>2 DEF CallTypes
  <2>4. CallsOwned'
    BY <2>1 DEF CallsOwned, Line, LoggerMoves, Initing
  <2> QED
    BY <2>1, <2>3, <2>4 DEF CallMoves, Ongoing, Unbegun
<1> QED
  BY <1>1, <1>2, <1>3, <1>4, <1>5, <1>6, <1>7 DEF Next

(* A line is in one place: its logger's queue after its call, its           *)
(* exporter's unless an Init came between.                                  *)
LEMMA LinesKept ==
  ASSUME MainTypes, MainOrder, CallTypes, CallsOwned, LinesPlaced,
         WorkerTypes, LoggerMoves, CallMoves, Next
  PROVE  LinesPlaced'
<1> USE Numbers, LineFacts
<1>1. \A l \in Lines : Unbegun(l)' =>
        to'[l] = 0 /\ via'[l] = 0 /\ l \notin written' \union refused'
  <2> SUFFICES ASSUME NEW l \in Lines, Unbegun(l)'
               PROVE  l \notin written' \union refused'
    BY DEF CallMoves, LinesPlaced
  <2>1. Unbegun(l) /\ to[l] = 0 /\ l \notin written \union refused
    BY DEF CallMoves, LinesPlaced
  <2>2. ~Ongoing(l)
    BY <2>1 DEF Ongoing, Unbegun, CallTypes
  <2>3. ASSUME NEW m, WriteLine(m), l \in written' \union refused' PROVE m = l
    BY <2>1, <2>3 DEF WriteLine
  <2>4. ASSUME NEW c \in Callers, Write(c) PROVE l \notin written' \union refused'
    <3>1. WriteLine(Line(c)) /\ Ongoing(Line(c))
      BY <2>4 DEF Write, CallerMoves, Ongoing
    <3> QED
      BY <2>2, <2>3, <3>1
  <2>5. ASSUME NEW g \in Gens, LoggerWorks(g) PROVE l \notin written' \union refused'
    <3>1. PICK m \in logger[g].queue : WriteLine(m)
      BY <2>5 DEF LoggerWorks
    <3>2. to[m] = g
      BY DEF LinesPlaced
    <3> QED
      BY <2>1, <2>3, <3>1, <3>2
  <2> QED
    BY <2>1, <2>4, <2>5, WhoWrites DEF ends
<1>2. \A g \in Gens : \A l \in logger'[g].queue : to'[l] = g /\ ~Ongoing(l)'
  <2> SUFFICES ASSUME NEW g \in Gens, NEW l \in logger'[g].queue
               PROVE  to'[l] = g /\ ~Ongoing(l)'
    OBVIOUS
  <2>1. CASE l \in logger[g].queue
    <3>1. to[l] = g /\ ~Ongoing(l) /\ l \in Lines
      BY <2>1 DEF LinesPlaced, WorkerTypes, LoggerType
    <3>2. ~Unbegun(l)
      BY <3>1 DEF LinesPlaced
    <3> QED
      BY <3>1, <3>2 DEF CallMoves
  <2>2. CASE l \notin logger[g].queue
    <3>1. l \in InCall /\ to[l] = g /\ ~Ongoing(l)'
      BY <2>2 DEF LoggerMoves
    <3>2. l \in Lines /\ ~Unbegun(l)
      BY <3>1 DEF InCall, Unbegun, CallTypes
    <3> QED
      BY <3>1, <3>2 DEF CallMoves
  <2> QED
    BY <2>1, <2>2
<1>3. \A l \in Lines \ disturbed' : via'[l] \in {0, to'[l]}
  <2> SUFFICES ASSUME NEW l \in Lines, l \notin disturbed'
               PROVE  via'[l] \in {0, to'[l]}
    OBVIOUS
  <2>1. disturbed \subseteq disturbed'
    BY WhoWrites
  <2>2. CASE via'[l] = via[l] /\ Unbegun(l)
    BY <2>2 DEF LinesPlaced
  <2>3. CASE via'[l] # via[l]
    <3>1. PICK c \in Callers : Export(c)
      BY <2>3, WhoWrites
    <3>2. l = Line(c) /\ via'[l] \in {0, exporter} /\ pc[c] # "idle" /\ to' = to
      BY <2>3, <3>1 DEF Export, CallerMoves, CallTypes
    <3>3. to[l] = inst /\ ~Initing
      BY <2>1, <3>2 DEF CallsOwned
    <3>4. exporter \in {0, inst}
      BY <3>3 DEF MainOrder, Initing
    <3> QED
      BY <3>2, <3>3, <3>4
  <2>4. CASE via'[l] = via[l] /\ ~Unbegun(l)
    BY <2>1, <2>4 DEF CallMoves, LinesPlaced
  <2> QED
    BY <2>2, <2>3, <2>4
<1> QED
  BY <1>1, <1>2, <1>3 DEF LinesPlaced

(* A worker that returns has emptied its queue, and what comes later was    *)
(* not due.                                                                 *)
LEMMA FlushedKept ==
  ASSUME MainTypes, MainOrder, CallTypes, CallsOwned, ExportersOwned, LoggersOwned,
         WorkerTypes, LoggerMoves, ExporterMoves, CallMoves, Flushed, Next
  PROVE  Flushed'
<1> USE Numbers, LineFacts
<1>1. CASE InitStore
  BY <1>1 DEF InitStore, Flushed
<1>2. CASE ~InitStore
  <2>1. inst' = inst
    BY <1>2, WhoWrites
  <2>2. due' = due \/ (phase = "open" /\ due' = Returned /\ CloseBegin)
    <3>1. CASE CallStep \/ WorkStep
      BY <3>1, OthersLeaveMain
    <3>2. CASE CloseBegin
      BY <3>2 DEF CloseBegin
    <3>3. CASE MainContinues \/ SetLogger \/ \E cfg \in Configs : InitLogger(cfg)
      BY <1>2, <3>3 DEF MainContinues, InitLogger, InitExporter,
        CloseNoExporter, CloseExporter, CloseExporterPanics, WaitExporter, CloseNoLogger,
        CloseLogger, WaitLogger, CloseWriter, MainMoves, CloseReturns, SetLogger, marks
    <3> QED
      BY <3>1, <3>2, <3>3 DEF Next, CallStep, WorkStep
  <2>3. \A l \in due' : l \in Lines /\ ~Ongoing(l)' /\ ~Unbegun(l)' /\ l \notin InCall
    <3> SUFFICES ASSUME NEW l \in due'
                 PROVE  l \in Lines /\ ~Ongoing(l)' /\ ~Unbegun(l)' /\ l \notin InCall
      OBVIOUS
    <3>1. l \in Lines /\ ~Ongoing(l) /\ ~Unbegun(l)
      <4>1. CASE due' = due
        BY <4>1 DEF Flushed, CallTypes
      <4>2. CASE due' = Returned
        BY <4>2 DEF Returned, InCall, Ongoing, Unbegun, Line, CallTypes
      <4> QED
        BY <2>2, <4>1, <4>2
    <3>2. l \notin InCall
      BY <3>1 DEF InCall, Ongoing, Line
    <3> QED
      BY <3>1, <3>2 DEF CallMoves
  <2>4. ASSUME inst # 0, exp'[inst].worker = "done"
        PROVE  exp'[inst].queue \intersect due' = {}
    <3>1. inst \in Gens
      BY <2>4 DEF MainTypes
    <3>2. CASE due' = due
      BY <2>3, <2>4, <3>1, <3>2 DEF Flushed, ExporterMoves
    <3>3. CASE phase = "open" /\ CloseBegin
      BY <2>4, <3>1, <3>3 DEF CloseBegin, workers, ExportersOwned
    <3> QED
      BY <2>2, <3>2, <3>3
  <2>5. ASSUME inst # 0, logger'[inst].worker = "done"
        PROVE  logger'[inst].queue \intersect due' = {}
    <3>1. inst \in Gens
      BY <2>5 DEF MainTypes
    <3>2. CASE due' = due
      BY <2>3, <2>5, <3>1, <3>2 DEF Flushed, LoggerMoves
    <3>3. CASE phase = "open" /\ CloseBegin
      BY <2>5, <3>1, <3>3 DEF CloseBegin, workers, LoggersOwned
    <3> QED
      BY <2>2, <3>2, <3>3
  <2> QED
    BY <2>1, <2>3, <2>4, <2>5 DEF Flushed
<1> QED
  BY <1>1, <1>2

(* A line passes its exporter by only in a step that counts it.             *)
LEMMA DropsKept ==
  ASSUME MainTypes, MainOrder, CallTypes, CallTypes', CallsOwned, LinesPlaced,
         CallMoves, DropsCounted, Next
  PROVE  DropsCounted'
<1> USE Numbers, LineFacts
(* The counters only grow, and only Init writes a configuration.            *)
<1>1. \A g \in Gens : dropped'[g] \in Nat /\ dropped[g] \in Nat /\ dropped'[g] >= dropped[g]
  <2>1. UNCHANGED dropped \/ CountDrop
    BY WhoWrites
  <2> SUFFICES ASSUME NEW g \in Gens
               PROVE  dropped'[g] \in Nat /\ dropped[g] \in Nat /\ dropped'[g] >= dropped[g]
    OBVIOUS
  <2>2. dropped[g] \in Nat
    BY DEF CallTypes
  <2>3. dropped'[g] = dropped[g] \/ dropped'[g] = dropped[g] + 1
    BY <2>1 DEF CountDrop, CallTypes
  <2> QED
    BY <2>2, <2>3
<1>2. /\ disturbed \subseteq disturbed'
      /\ \A l \in Lines : via'[l] # via[l] => via'[l] # 0
  BY WhoWrites DEF CallTypes
(* A line passes the exporter by only in Export.                            *)
<1>3. ASSUME NEW g \in Gens, NEW l \in Unexported(g)', l \notin Unexported(g)
      PROVE  \E c \in Callers : Export(c) /\ l = Line(c)
  <2>1. /\ l \in Lines /\ l \notin disturbed /\ to'[l] = g /\ via'[l] = 0
        /\ ~(Ongoing(l)' /\ pc'[l[1]] = "export")
    BY <1>2, <1>3 DEF Unexported
  <2>2. ASSUME NEW c \in Callers, Call(c) PROVE FALSE
    <3>1. /\ via'[l] = via[l] /\ pc' = [pc EXCEPT ![c] = pc'[c]] /\ pc[c] = "idle"
          /\ lines' = [lines EXCEPT ![c] = @ + 1]
          /\ \/ to' = to
             \/ /\ pc'[c] = "export"
                /\ to' = [to EXCEPT ![<<c, lines'[c]>>] = inst]
      BY <2>2 DEF Call, Refused, Accepted, CallerMoves, CallTypes
    <3>2. CASE l = <<c, lines'[c]>> /\ pc'[c] = "export"
      BY <2>1, <3>1, <3>2 DEF Ongoing
    <3>3. CASE to'[l] = to[l]
      <4>1. ~Unbegun(l)
        BY <2>1, <3>3 DEF LinesPlaced
      <4>2. Ongoing(l) => l[1] # c /\ pc'[l[1]] = pc[l[1]] /\ lines'[l[1]] = lines[l[1]]
        BY <2>1, <3>1 DEF Ongoing, CallTypes
      <4> QED
        BY <1>3, <2>1, <3>1, <3>3, <4>1, <4>2 DEF Unexported, Ongoing
    <3> QED
      BY <2>1, <3>1, <3>2, <3>3 DEF CallTypes
  <2>3. CASE ~\E c \in Callers : Call(c)
    <3>1. /\ UNCHANGED <<to, lines>>
          /\ \A c \in Callers : pc[c] = "export" /\ pc'[c] # "export" => Export(c)
      <4>1. CASE UNCHANGED calls
        BY <4>1 DEF calls
      <4>2. ASSUME NEW d \in Callers, Continue(d)
            PROVE  /\ UNCHANGED <<to, lines>>
                   /\ \A c \in Callers : pc[c] = "export" /\ pc'[c] # "export" => Export(c)
        BY <4>2 DEF Continue, Flag, Send, FallBack, SendPanics, Write, Export, CallerMoves,
          CallTypes
      <4> QED
        BY <2>3, <4>1, <4>2, WhoWrites
    <3>2. via[l] = 0 /\ to[l] = g
      BY <1>2, <2>1, <3>1
    <3>3. Ongoing(l) /\ pc[l[1]] = "export"
      BY <1>3, <2>1, <3>2 DEF Unexported
    <3>4. pc'[l[1]] # "export" /\ l = Line(l[1]) /\ l[1] \in Callers
      BY <2>1, <3>1, <3>3 DEF Ongoing, Line
    <3> QED
      BY <3>1, <3>3, <3>4
  <2> QED
    BY <2>2, <2>3
<1> SUFFICES ASSUME NEW g \in Gens, "otlp" \in conf'[g]
             PROVE  IsFiniteSet(Unexported(g)') /\ Cardinality(Unexported(g)') <= dropped'[g]
  BY DEF DropsCounted
<1>4. CASE inits' # inits /\ g = inits'
  <2>1. inits' = inst + 1 /\ UNCHANGED to
    BY <1>4, WhoWrites DEF InitLogger, calls, MainOrder
  <2>2. Unexported(g)' = {}
    BY <1>4, <2>1 DEF Unexported, CallTypes
  <2> QED
    BY <1>1, <2>2, FS_EmptySet
<1>5. CASE ~(inits' # inits /\ g = inits')
  <2>1. "otlp" \in conf[g]
    BY <1>5, WhoWrites DEF InitLogger, MainTypes
  <2>2. IsFiniteSet(Unexported(g)) /\ Cardinality(Unexported(g)) <= dropped[g]
    BY <2>1 DEF DropsCounted
  <2>3. CASE Unexported(g)' \subseteq Unexported(g)
    <3>1. /\ IsFiniteSet(Unexported(g)')
          /\ Cardinality(Unexported(g)') <= Cardinality(Unexported(g))
          /\ Cardinality(Unexported(g)') \in Nat /\ Cardinality(Unexported(g)) \in Nat
      BY <2>2, <2>3, FS_Subset, FS_CardinalityType
    <3> QED
      BY <1>1, <2>2, <3>1
  <2>4. ASSUME NEW l \in Unexported(g)', l \notin Unexported(g)
        PROVE  IsFiniteSet(Unexported(g)') /\ Cardinality(Unexported(g)') <= dropped'[g]
    <3>1. PICK c \in Callers : Export(c) /\ l = Line(c)
      BY <1>3, <2>4
    <3>2. /\ pc[c] = "export" /\ pc' = [pc EXCEPT ![c] = "flag"]
          /\ l \notin disturbed /\ to[l] = g /\ via'[l] = 0 /\ l \in Lines
      BY <2>4, <3>1 DEF Export, CallerMoves, Unexported, marks
    <3>3. inst = g /\ ~Initing
      BY <3>1, <3>2 DEF CallsOwned
    <3>4. exporter = inst /\ inst # 0
      BY <2>1, <3>3 DEF MainOrder, Initing
    <3>5. dropped'[g] = dropped[g] + 1
      BY <3>1, <3>2, <3>3, <3>4 DEF Export, CountDrop, CallTypes
    <3>6. Unexported(g)' \subseteq Unexported(g) \union {l}
      <4> SUFFICES ASSUME NEW m \in Unexported(g)', m \notin Unexported(g)
                   PROVE  m = l
        OBVIOUS
      <4>1. PICK d \in Callers : Export(d) /\ m = Line(d)
        BY <1>3
      <4>2. pc[d] = "export" /\ pc' = [pc EXCEPT ![d] = "flag"]
        BY <4>1 DEF Export, CallerMoves
      <4>3. d = c
        BY <3>2, <4>2 DEF CallTypes
      <4> QED
        BY <3>1, <4>1, <4>3
    <3>7. /\ IsFiniteSet(Unexported(g) \union {l})
          /\ Cardinality(Unexported(g) \union {l}) <= Cardinality(Unexported(g)) + 1
      <4>1. /\ IsFiniteSet(Unexported(g) \union {l})
            /\ Cardinality(Unexported(g) \union {l})
                 \in {Cardinality(Unexported(g)), Cardinality(Unexported(g)) + 1}
        BY <2>2, FS_AddElement
      <4>2. Cardinality(Unexported(g)) \in Nat
        BY <2>2, FS_CardinalityType
      <4> QED
        BY <4>1, <4>2
    <3>8. /\ IsFiniteSet(Unexported(g)')
          /\ Cardinality(Unexported(g)') <= Cardinality(Unexported(g) \union {l})
          /\ Cardinality(Unexported(g)') \in Nat
          /\ Cardinality(Unexported(g) \union {l}) \in Nat
          /\ Cardinality(Unexported(g)) \in Nat
      BY <2>2, <3>6, <3>7, FS_Subset, FS_CardinalityType
    <3> QED
      BY <1>1, <2>2, <3>5, <3>7, <3>8
  <2> QED
    BY <2>3, <2>4
<1> QED
  BY <1>4, <1>5

-----------------------------------------------------------------------------
(* The invariant is inductive.                                              *)
LEMMA InitIInv == Init => IInv
<1> SUFFICES ASSUME Init PROVE IInv
  OBVIOUS
<1>0. /\ MaxInits \in Nat /\ MaxCloses \in Nat /\ MaxLines \in Nat
      /\ ChanSize \in Nat /\ QueueSize \in Nat
      /\ IsFiniteSet({}) /\ Cardinality({}) = 0
  BY FacadeAssumption, FS_EmptySet
<1>1. MainTypes /\ MainOrder /\ LoopsOwned
  BY <1>0 DEF Init, MainTypes, MainOrder, LoopsOwned, Closing
<1>2. WorkerTypes /\ QueuesBounded /\ StdoutOwned
  <2>1. NoLogger \in LoggerType /\ NoExporter \in ExporterType
        /\ NoLogger.queue = {} /\ NoExporter.queue = {}
    BY DEF NoLogger, NoExporter, LoggerType, ExporterType
  <2>2. WorkerTypes /\ StdoutOwned
    BY <2>1 DEF Init, WorkerTypes, StdoutOwned
  <2>3. QueuesBounded
    BY <1>0, <2>1 DEF Init, QueuesBounded
  <2> QED
    BY <2>2, <2>3
<1>3. CallTypes /\ CallsOwned /\ LinesPlaced /\ Flushed
  <2>1. CallTypes /\ CallsOwned /\ Flushed
    BY <1>0 DEF Init, CallTypes, CallsOwned, Flushed
  <2>2. LinesPlaced
    BY <1>0 DEF Init, LinesPlaced, NoLogger
  <2> QED
    BY <2>1, <2>2
<1>4. ExportersOwned /\ LoggersOwned
  BY <1>0 DEF Init, ExportersOwned, LoggersOwned, NoLogger, NoExporter, Gens
<1>5. DropsCounted
  BY <1>0 DEF Init, DropsCounted
<1> QED
  BY <1>1, <1>2, <1>3, <1>4, <1>5 DEF IInv

LEMMA NextIInv == IInv /\ [Next]_vars => IInv'
<1> SUFFICES ASSUME IInv, [Next]_vars PROVE IInv'
  OBVIOUS
<1>1. CASE UNCHANGED vars
  <2>1. /\ UNCHANGED <<ctl, inits, closes, conf, inst, cancel, exporter, loops, phase>>
        /\ UNCHANGED <<logger, exp, stdoutClosed, custom, pc, lines, to, via, dropped>>
        /\ UNCHANGED <<written, refused, due, disturbed, abandoned>>
    BY <1>1 DEF vars, main, workers, calls, ends, marks
  <2>2. MainTypes' /\ WorkerTypes' /\ QueuesBounded' /\ CallTypes'
    BY <2>1 DEF IInv, MainTypes, WorkerTypes, QueuesBounded, CallTypes
  <2>3. MainOrder' /\ LoopsOwned' /\ StdoutOwned'
    BY <2>1 DEF IInv, MainOrder, LoopsOwned, StdoutOwned, Closing
  <2>4. ExportersOwned' /\ LoggersOwned'
    BY <2>1 DEF IInv, ExportersOwned, LoggersOwned
  <2>5. Flushed' /\ CallsOwned' /\ LinesPlaced'
    BY <2>1 DEF IInv, Flushed, CallsOwned, LinesPlaced, Ongoing, Unbegun, Line, Initing
  <2>6. DropsCounted'
    BY <2>1 DEF IInv, DropsCounted, Unexported, Ongoing
  <2> QED
    BY <2>2, <2>3, <2>4, <2>5, <2>6 DEF IInv
<1>2. CASE Next
  <2>1. MainTypes' /\ MainOrder' /\ LoopsOwned'
    BY <1>2, MainKept DEF IInv
  <2>2. exp' \in [Gens -> ExporterType] /\ ExportersOwned' /\ ExporterMoves
    BY <1>2, ExportersKept DEF IInv
  <2>3. /\ logger' \in [Gens -> LoggerType] /\ stdoutClosed' \in BOOLEAN
        /\ LoggersOwned' /\ StdoutOwned' /\ LoggerMoves
    BY <1>2, LoggersKept DEF IInv
  <2>4. WorkerTypes' /\ QueuesBounded'
    BY <2>2, <2>3, QueuesKept DEF IInv, WorkerTypes
  <2>5. CallTypes' /\ CallsOwned' /\ CallMoves
    BY <1>2, <2>1, <2>3, CallsKept DEF IInv
  <2>6. LinesPlaced'
    BY <1>2, <2>3, <2>5, LinesKept DEF IInv
  <2>7. Flushed'
    BY <1>2, <2>2, <2>3, <2>5, FlushedKept DEF IInv
  <2>8. DropsCounted'
    BY <1>2, <2>5, DropsKept DEF IInv
  <2> QED
    BY <2>1, <2>2, <2>3, <2>4, <2>5, <2>6, <2>7, <2>8 DEF IInv
<1> QED
  BY <1>1, <1>2

LEMMA SpecIInv == Spec => []IInv
BY InitIInv, NextIInv, PTL DEF Spec

-----------------------------------------------------------------------------
(* The globals of the facade, the state of each generation's workers and    *)
(* the callers' positions keep their types, and no queue outgrows its       *)
(* capacity, whatever the order of Init, Close, SetLogger and logging.      *)
THEOREM TypeCorrect == Spec => []TypeOK
<1>1. IInv => TypeOK
  <2> SUFFICES ASSUME IInv PROVE TypeOK
    OBVIOUS
  <2> USE Numbers DEF IInv
  <2>1. /\ ctl \in {"idle", "panicked"} \/ Initing \/ Closing
        /\ {inst, cancel, exporter} \subseteq 0..inits
        /\ custom \union loops \union abandoned \subseteq 1..inits
    BY DEF MainTypes, Initing, Closing
  <2>2. to \in [Lines -> 0..inits] /\ via \in [Lines -> 0..inits]
    BY DEF CallTypes
  <2>3. \A g \in Gens :
       /\ logger[g].queue \subseteq Lines /\ exp[g].queue \subseteq Lines
       /\ {logger[g].worker, exp[g].worker} \subseteq {"none", "run", "done"}
    BY DEF WorkerTypes, LoggerType, ExporterType
  <2> QED
    BY <2>1, <2>2, <2>3 DEF TypeOK, MainTypes, CallTypes, QueuesBounded
<1> QED
  BY SpecIInv, <1>1, PTL

(* When the first Close of a generation has returned, everything logged     *)
(* before it began has left the queues of the exporter and the logger that  *)
(* it closed (README.md:646).                                               *)
THEOREM FlushesOnClose == Spec => []CloseFlushes
<1>1. IInv => CloseFlushes
  <2> SUFFICES ASSUME IInv, phase = "closed", ctl = "idle" PROVE CloseFlushes
    BY DEF CloseFlushes
  <2> USE Numbers DEF IInv
  <2>1. ASSUME exporter # 0 PROVE exp[exporter].queue \intersect due = {}
    <3>1. exporter = inst /\ inst \in Gens
      BY <2>1 DEF MainOrder, MainTypes
    <3>2. exp[inst].worker \in {"none", "done"}
      BY <3>1 DEF ExportersOwned, WorkerTypes, ExporterType
    <3> QED
      BY <3>1, <3>2 DEF ExportersOwned, Flushed
  <2>2. ASSUME inst \notin custom \union {0} PROVE logger[inst].queue \intersect due = {}
    <3>1. inst \in Gens
      BY <2>2 DEF MainTypes
    <3>2. logger[inst].worker \in {"none", "done"}
      BY <2>2, <3>1 DEF LoggersOwned, WorkerTypes, LoggerType
    <3> QED
      BY <2>2, <3>1, <3>2 DEF LoggersOwned, Flushed
  <2> QED
    BY <2>1, <2>2 DEF CloseFlushes
<1> QED
  BY SpecIInv, <1>1, PTL

(* What still runs after Close belongs to a generation that an Init         *)
(* replaced before it was closed, or is a worker whose logger SetLogger     *)
(* replaced.                                                                *)
THEOREM StopsCurrent == Spec => []CloseStopsCurrent
<1>1. IInv => CloseStopsCurrent
  <2> SUFFICES ASSUME IInv, phase \in {"closed", "again"}, ctl = "idle"
               PROVE  CloseStopsCurrent
    BY DEF CloseStopsCurrent
  <2> USE Numbers DEF IInv
  <2>1. ASSUME NEW g \in Gens, logger[g].worker = "run" PROVE g \in abandoned \union custom
    <3>1. g \in abandoned \union custom \union {inst}
      BY <2>1 DEF LoggersOwned, MainOrder
    <3>2. g = inst => g \in custom
      BY <2>1 DEF LoggersOwned
    <3> QED
      BY <3>1, <3>2
  <2>2. ASSUME NEW g \in Gens, exp[g].worker = "run" PROVE g \in abandoned
    BY <2>2 DEF ExportersOwned
  <2>3. loops \subseteq abandoned
    BY DEF LoopsOwned
  <2> QED
    BY <2>1, <2>2, <2>3 DEF CloseStopsCurrent, Running
<1> QED
  BY SpecIInv, <1>1, PTL

(* A line whose call no Init overlaps is exported by the generation that    *)
(* logs it, or counted as dropped there.                                    *)
THEOREM ExportsWhereLogged == Spec => []ExportedWhereLogged
<1>1. IInv => ExportedWhereLogged
  <2> SUFFICES ASSUME IInv PROVE ExportedWhereLogged
    OBVIOUS
  <2> USE Numbers DEF IInv
  <2> DEFINE calm == Returned \ disturbed
             missing(g) == {l \in {m \in calm : to[m] = g} : via[l] = 0}
  <2>1. \A l \in calm : via[l] \in {0, to[l]}
    BY DEF LinesPlaced, Returned
  <2>2. ASSUME NEW g \in Gens, "otlp" \in conf[g] PROVE Cardinality(missing(g)) <= dropped[g]
    <3>1. missing(g) \subseteq Unexported(g)
      BY DEF Returned, InCall, Unexported, Ongoing, Line, CallTypes, Lines
    <3>2. IsFiniteSet(Unexported(g)) /\ Cardinality(Unexported(g)) <= dropped[g]
      BY <2>2 DEF DropsCounted
    <3>3. /\ IsFiniteSet(missing(g))
          /\ Cardinality(missing(g)) <= Cardinality(Unexported(g))
      BY <3>1, <3>2, FS_Subset
    <3>4. /\ Cardinality(missing(g)) \in Nat
          /\ Cardinality(Unexported(g)) \in Nat
          /\ dropped[g] \in Nat
      BY <3>2, <3>3, FS_CardinalityType DEF CallTypes
    <3> HIDE DEF missing
    <3> QED
      BY <3>2, <3>3, <3>4
  <2> QED
    BY <2>1, <2>2 DEF ExportedWhereLogged
<1> QED
  BY SpecIInv, <1>1, PTL

-----------------------------------------------------------------------------
(* The refinement of LogSink.  A line waits in the queue of the generation  *)
(* it was handed to, and nowhere else, so each line's place in the abstract *)
(* sets is a matter of its own call and of that generation's worker.        *)
Waiting(l) == to[l] \in Gens /\ l \in logger[to[l]].queue
Drained(l) == Waiting(l) /\ logger[to[l]].worker = "run"
Aborted(l) == Ongoing(l) /\ pc[l[1]] = "panicked"

Pending == (InCall \ Panicked) \union Queued
Lost    == refused \union Panicked \union Stranded

SinkView ==
  /\ Pending \subseteq Lines /\ written \subseteq Lines /\ Lost \subseteq Lines
  /\ \A l \in Lines :
       /\ l \in Pending <=> (Ongoing(l) /\ ~Aborted(l)) \/ Drained(l)
       /\ l \in Lost <=> l \in refused \/ Aborted(l) \/ (Waiting(l) /\ ~Drained(l))

(* Where LogSink sees a line follows from the call and the queue it is in.  *)
LEMMA SinkViewed == IInv => SinkView
<1> SUFFICES ASSUME IInv PROVE SinkView
  OBVIOUS
<1> USE Numbers, LineFacts DEF IInv
<1>1. InCall \subseteq Lines /\ Panicked \subseteq InCall
  BY DEF InCall, Panicked
<1>2. \A l \in Lines : /\ l \in InCall <=> Ongoing(l)
                       /\ l \in Panicked <=> Aborted(l)
  BY DEF InCall, Panicked, Ongoing, Aborted, Line
<1>3. /\ Queued \subseteq Lines /\ Stranded \subseteq Lines
      /\ \A l \in Lines : l \in Queued <=> Drained(l)
      /\ \A l \in Lines : l \in Stranded <=> Waiting(l) /\ ~Drained(l)
  <2>1. \A g \in Gens : logger[g].queue \subseteq Lines
    BY DEF WorkerTypes, LoggerType
  <2>2. \A g \in Gens : \A l \in logger[g].queue : to[l] = g
    BY DEF LinesPlaced
  <2> QED
    BY <2>1, <2>2 DEF Queued, Stranded, Running, Waiting, Drained
<1>4. Pending \subseteq Lines /\ written \subseteq Lines /\ Lost \subseteq Lines
  BY <1>1, <1>3 DEF Pending, Lost, CallTypes
<1>5. \A l \in Lines :
        /\ l \in Pending <=> (Ongoing(l) /\ ~Aborted(l)) \/ Drained(l)
        /\ l \in Lost <=> l \in refused \/ Aborted(l) \/ (Waiting(l) /\ ~Drained(l))
  BY <1>2, <1>3 DEF Pending, Lost
<1> QED
  BY <1>4, <1>5 DEF SinkView

(* A step that leaves every line where it is stutters.                      *)
LEMMA SinkStutters ==
  ASSUME SinkView, SinkView', UNCHANGED ends,
         \A l \in Lines : /\ Ongoing(l)' <=> Ongoing(l)
                          /\ Aborted(l)' <=> Aborted(l)
                          /\ Waiting(l)' <=> Waiting(l)
                          /\ Drained(l)' <=> Drained(l)
  PROVE  Pending' = Pending /\ written' = written /\ Lost' = Lost
BY DEF SinkView, ends

(* A step that moves one line, and how.                                     *)
LEMMA SinkMoves ==
  ASSUME SinkView, SinkView', NEW e \in Lines,
         \A l \in Lines \ {e} : /\ Ongoing(l)' <=> Ongoing(l)
                                /\ Aborted(l)' <=> Aborted(l)
                                /\ Waiting(l)' <=> Waiting(l)
                                /\ Drained(l)' <=> Drained(l)
                                /\ l \in refused' <=> l \in refused
  PROVE  /\ e \in Pending' => Pending' = Pending \union {e}
         /\ e \notin Pending' => Pending' = Pending \ {e}
         /\ e \in Lost' => Lost' = Lost \union {e}
         /\ e \notin Lost' => Lost' = Lost \ {e}
BY DEF SinkView

SinkStep == [Sink!Next]_(Sink!sinkVars)

(* The four ways a step can look from LogSink's side.                       *)
LEMMA SinkAccepts ==
  ASSUME NEW e \in Lines, e \notin Pending \union written \union Lost,
         Pending' = Pending \union {e}, written' = written, Lost' = Lost,
         closes' = closes
  PROVE  SinkStep
<1>1. Sink!Accept(e)
  BY DEF Sink!Accept, Pending, Lost
<1> QED
  BY <1>1 DEF SinkStep, Sink!Next

LEMMA SinkWrites ==
  ASSUME NEW e \in Lines, e \in Pending, Pending' = Pending \ {e},
         written' = written \union {e}, Lost' = Lost, closes' = closes
  PROVE  SinkStep
<1>1. Sink!Write(e)
  BY DEF Sink!Write, Pending, Lost
<1> QED
  BY <1>1 DEF SinkStep, Sink!Next, Sink!Resolve

LEMMA SinkLoses ==
  ASSUME NEW e \in Lines, e \in Pending, Pending' = Pending \ {e},
         written' = written, Lost' = Lost \union {e}, closes' = closes, closes > 0
  PROVE  SinkStep
<1>1. Sink!Lose(e)
  BY DEF Sink!Lose, Pending, Lost
<1> QED
  BY <1>1 DEF SinkStep, Sink!Next, Sink!Resolve

LEMMA SinkRests ==
  ASSUME Pending' = Pending, written' = written, Lost' = Lost,
         closes' = closes \/ closes' > 0
  PROVE  SinkStep
<1>1. CASE closes' = closes
  BY <1>1 DEF SinkStep, Sink!sinkVars, Pending, Lost
<1>2. CASE closes' > 0
  <2>1. Sink!BeginClose
    BY <1>2 DEF Sink!BeginClose, Pending, Lost
  <2> QED
    BY <2>1 DEF SinkStep, Sink!Next
<1> QED
  BY <1>1, <1>2

(* A pending line that is written, or refused by a closed writer.           *)
LEMMA SinkResolves ==
  ASSUME SinkView, SinkView', NEW e \in Lines, e \in Pending, WriteLine(e),
         closes' = closes, WriterClosed(to[e]) => closes > 0,
         ~Aborted(e), Waiting(e) => Drained(e), ~Ongoing(e)', ~Waiting(e)',
         \A l \in Lines \ {e} : /\ Ongoing(l)' <=> Ongoing(l)
                                /\ Aborted(l)' <=> Aborted(l)
                                /\ Waiting(l)' <=> Waiting(l)
                                /\ Drained(l)' <=> Drained(l)
  PROVE  SinkStep
<1>1. ~Aborted(e)' /\ ~Drained(e)'
  BY DEF Aborted, Drained
<1>2. e \notin Pending'
  BY <1>1 DEF SinkView
<1>3. \A l \in Lines \ {e} : l \in refused' <=> l \in refused
  BY DEF WriteLine
<1>4. Pending' = Pending \ {e}
  BY <1>2, <1>3, SinkMoves
<1>5. CASE WriterClosed(to[e])
  <2>1. e \in Lost' /\ written' = written
    BY <1>5 DEF WriteLine, SinkView
  <2>2. Lost' = Lost \union {e}
    BY <1>3, <2>1, SinkMoves
  <2> QED
    BY <1>4, <1>5, <2>1, <2>2, SinkLoses
<1>6. CASE ~WriterClosed(to[e])
  <2>1. written' = written \union {e} /\ refused' = refused
    BY <1>6 DEF WriteLine
  <2>2. e \in Lost' <=> e \in Lost
    BY <1>1, <2>1 DEF SinkView
  <2>3. Lost' = Lost
    BY <1>3, <2>2, SinkMoves
  <2> QED
    BY <1>4, <2>1, <2>3, SinkWrites
<1> QED
  BY <1>5, <1>6

(* Every step is one of these, by who takes it: main, a call, a worker.     *)
LEMMA SinkNext ==
  ASSUME IInv, IInv', SinkView, SinkView', Next
  PROVE  SinkStep
<1> USE Numbers, LineFacts DEF IInv
<1>1. CASE MainStep
  <2>1. UNCHANGED <<pc, lines, to, written, refused>> /\ UNCHANGED ends
        /\ (closes' = closes \/ closes' > 0)
    BY <1>1 DEF MainStep, MainContinues, InitLogger, CloseBegin, InitStore, InitExporter,
      CloseNoExporter, CloseExporter, CloseExporterPanics, WaitExporter, CloseNoLogger,
      CloseLogger, WaitLogger, CloseWriter, MainMoves, CloseReturns, SetLogger, main,
      calls, ends, MainTypes
  <2>2. \A g \in Gens : /\ logger'[g].queue = logger[g].queue
                        /\ logger[g].queue # {} =>
                             (logger'[g].worker = "run" <=> logger[g].worker = "run")
    <3>1. CASE UNCHANGED logger
      BY <3>1
    <3>2. ASSUME NEW cfg \in Configs, InitLogger(cfg), logger' # logger
          PROVE  \A g \in Gens : /\ logger'[g].queue = logger[g].queue
                                 /\ logger[g].queue # {} => logger'[g].worker = logger[g].worker
      <4>1. inits + 1 \in Gens => logger[inits + 1].queue = {}
        BY DEF LoggersOwned, NoLogger
      <4>2. logger' = [h \in Gens |->
              IF h = inits + 1 THEN [[logger[h] EXCEPT !.on = TRUE] EXCEPT !.worker = "run"]
                               ELSE logger[h]]
        <5>1. logger' = [logger EXCEPT ![inits + 1].on = TRUE, ![inits + 1].worker = "run"]
          BY <3>2 DEF InitLogger
        <5>2. DOMAIN logger = Gens
          BY DEF WorkerTypes
        <5> QED
          BY <5>1, <5>2
      <4>3. ASSUME NEW g \in Gens, g # inits + 1 PROVE logger'[g] = logger[g]
        BY <4>2, <4>3
      <4>4. ASSUME NEW g \in Gens, g = inits + 1 PROVE logger'[g].queue = logger[g].queue
        <5>1. logger'[g] = [[logger[g] EXCEPT !.on = TRUE] EXCEPT !.worker = "run"]
          BY <4>2, <4>4
        <5>2. logger[g] \in LoggerType
          BY <4>4 DEF WorkerTypes
        <5> QED
          BY <5>1, <5>2 DEF LoggerType
      <4> QED
        BY <4>1, <4>3, <4>4
    <3>3. CASE CloseLogger \/ WaitLogger \/ CloseWriter
      <4> SUFFICES ASSUME NEW g \in Gens
                   PROVE  /\ logger'[g].queue = logger[g].queue
                          /\ logger'[g].worker = logger[g].worker
        OBVIOUS
      <4>0. logger[g] \in LoggerType
        BY DEF WorkerTypes
      <4>1. CASE UNCHANGED logger
        BY <4>1
      <4>2. CASE logger' = [logger EXCEPT ![inst].stop = TRUE]
        <5>1. logger'[g] = IF g = inst THEN [logger[g] EXCEPT !.stop = TRUE] ELSE logger[g]
          BY <4>2 DEF WorkerTypes
        <5> QED
          BY <4>0, <5>1 DEF LoggerType
      <4>3. CASE logger' = [logger EXCEPT ![inst].fileClosed = TRUE]
        <5>1. logger'[g] =
                IF g = inst THEN [logger[g] EXCEPT !.fileClosed = TRUE] ELSE logger[g]
          BY <4>3 DEF WorkerTypes
        <5> QED
          BY <4>0, <5>1 DEF LoggerType
      <4>4. CASE WaitLogger
        <5>1. logger'[g] =
                IF g = inst THEN [[logger[g] EXCEPT !.chanClosed = TRUE] EXCEPT !.on = FALSE]
                            ELSE logger[g]
          BY <4>4 DEF WaitLogger, WorkerTypes
        <5> QED
          BY <4>0, <5>1 DEF LoggerType
      <4> QED
        BY <3>3, <4>1, <4>2, <4>3, <4>4 DEF CloseLogger, CloseWriter
    <3> QED
      BY <1>1, <3>1, <3>2, <3>3 DEF MainStep, MainContinues, CloseBegin, InitStore,
        InitExporter, CloseNoExporter, CloseExporter, CloseExporterPanics, WaitExporter,
        CloseNoLogger, SetLogger, workers
  <2>3. \A l \in Lines : /\ Ongoing(l)' <=> Ongoing(l)
                         /\ Aborted(l)' <=> Aborted(l)
                         /\ Waiting(l)' <=> Waiting(l)
                         /\ Drained(l)' <=> Drained(l)
    BY <2>1, <2>2 DEF Ongoing, Aborted, Waiting, Drained
  <2> QED
    BY <2>1, <2>3, SinkStutters, SinkRests

<1>2. ASSUME NEW c \in Callers, Call(c) PROVE SinkStep
  <2>0. PICK e : e = <<c, lines'[c]>>
    OBVIOUS
  <2>1. /\ UNCHANGED <<closes, logger, written, refused>> /\ UNCHANGED ends
        /\ lines' = [lines EXCEPT ![c] = @ + 1] /\ lines'[c] = lines[c] + 1
        /\ lines'[c] \in 1..MaxLines
        /\ pc[c] = "idle" /\ inst \in Gens
    <3>1. lines' = [lines EXCEPT ![c] = @ + 1] /\ lines[c] < MaxLines
      BY <1>2 DEF Call
    <3>2. lines'[c] = lines[c] + 1 /\ lines'[c] \in 1..MaxLines
      BY <3>1, FacadeAssumption DEF CallTypes
    <3>3. /\ UNCHANGED <<closes, logger, written, refused>> /\ UNCHANGED ends
          /\ pc[c] = "idle" /\ inst \in Gens
      BY <1>2 DEF Call, Refused, Accepted, CallerMoves, main, workers, ends, MainTypes
    <3> QED
      BY <3>1, <3>2, <3>3
  <2>2. /\ e \in Lines /\ e[1] = c /\ e[2] = lines'[c] /\ Unbegun(e) /\ ~Ongoing(e)
        /\ \A l \in Lines : l[1] = c /\ l[2] = lines'[c] => l = e
    BY <2>0, <2>1 DEF Lines, Unbegun, Ongoing
  <2>3. CASE Refused(c, inst)
    <3>1. to' = to /\ pc' = pc
      BY <2>1, <2>3 DEF Refused, CallerMoves, CallTypes
    <3>2. \A l \in Lines : /\ Ongoing(l)' <=> Ongoing(l)
                           /\ Aborted(l)' <=> Aborted(l)
                           /\ Waiting(l)' <=> Waiting(l)
                           /\ Drained(l)' <=> Drained(l)
      BY <2>1, <3>1 DEF Ongoing, Aborted, Waiting, Drained, CallTypes
    <3> QED
      BY <2>1, <3>2, SinkStutters, SinkRests
  <2>4. CASE Accepted(c, inst)
    <3>1. /\ to' = [to EXCEPT ![e] = inst] /\ pc' = [pc EXCEPT ![c] = "export"]
      BY <2>0, <2>4 DEF Accepted, CallerMoves
    <3>2. to[e] = 0 /\ to'[e] = inst /\ e \notin written \union refused
      BY <2>2, <3>1 DEF LinesPlaced, CallTypes
    <3>3. /\ Ongoing(e)' /\ ~Aborted(e)' /\ ~Aborted(e) /\ ~Waiting(e)
      BY <2>1, <2>2, <3>1, <3>2 DEF Ongoing, Aborted, Waiting, CallTypes
    <3>4. ~Waiting(e)'
      <4>1. e \in logger'[inst].queue => ~Ongoing(e)'
        BY <2>1, <2>2 DEF LinesPlaced
      <4> QED
        BY <3>2, <3>3, <4>1 DEF Waiting
    <3>5. \A l \in Lines \ {e} : /\ Ongoing(l)' <=> Ongoing(l)
                                 /\ Aborted(l)' <=> Aborted(l)
                                 /\ Waiting(l)' <=> Waiting(l)
                                 /\ Drained(l)' <=> Drained(l)
                                 /\ l \in refused' <=> l \in refused
      <4>1. ASSUME NEW l \in Lines \ {e} PROVE to'[l] = to[l]
        BY <3>1 DEF CallTypes
      <4>2. ASSUME NEW l \in Lines \ {e}
            PROVE  (Ongoing(l)' <=> Ongoing(l)) /\ (Aborted(l)' <=> Aborted(l))
        BY <2>1, <2>2, <3>1 DEF Ongoing, Aborted, CallTypes
      <4> QED
        BY <2>1, <4>1, <4>2 DEF Waiting, Drained
    <3>6. /\ e \notin Pending \union written \union Lost
          /\ e \in Pending' /\ e \notin Lost'
      BY <2>1, <2>2, <3>2, <3>3, <3>4 DEF SinkView, Drained
    <3>7. Pending' = Pending \union {e} /\ Lost' = Lost
      <4>1. /\ e \in Pending' => Pending' = Pending \union {e}
            /\ e \notin Lost' => Lost' = Lost \ {e}
        BY <2>2, <3>5, SinkMoves
      <4> QED
        BY <3>6, <4>1
    <3> QED
      BY <2>1, <2>2, <3>6, <3>7, SinkAccepts
  <2> QED
    BY <1>2, <2>3, <2>4 DEF Call
<1>3. ASSUME NEW c \in Callers, Continue(c) PROVE SinkStep
  <2>0. PICK e : e = Line(c)
    OBVIOUS
  <2>1. /\ UNCHANGED <<closes, lines, to>>
        /\ pc[c] \notin {"idle", "panicked"} /\ pc' = [pc EXCEPT ![c] = pc'[c]]
    BY <1>3 DEF Continue, Export, Flag, Send, FallBack, SendPanics, Write, CallerMoves,
      CallTypes, main
  <2>2. /\ e \in Lines /\ e[1] = c /\ e[2] = lines[c] /\ to[e] \in Gens
        /\ \A l \in Lines : l[1] = c /\ l[2] = lines[c] => l = e
    BY <2>0, <2>1 DEF Lines, Line
  <2>3. Ongoing(e) /\ ~Aborted(e) /\ ~Waiting(e) /\ e \in Pending
    <3>1. Ongoing(e) /\ ~Aborted(e)
      BY <2>1, <2>2 DEF Ongoing, Aborted
    <3>2. ~Waiting(e)
      BY <2>2, <3>1 DEF Waiting, LinesPlaced
    <3> QED
      BY <2>2, <3>1, <3>2 DEF SinkView
  <2>4. \A l \in Lines \ {e} : /\ Ongoing(l)' <=> Ongoing(l)
                               /\ Aborted(l)' <=> Aborted(l)
    <3> SUFFICES ASSUME NEW l \in Lines \ {e}
                 PROVE  (Ongoing(l)' <=> Ongoing(l)) /\ (Aborted(l)' <=> Aborted(l))
      OBVIOUS
    <3>1. CASE l[1] = c
      BY <2>1, <2>2, <3>1 DEF Ongoing, Aborted
    <3>2. CASE l[1] # c
      <4>1. pc'[l[1]] = pc[l[1]] /\ lines' = lines
        BY <2>1, <3>2 DEF CallTypes
      <4> QED
        BY <4>1 DEF Ongoing, Aborted
    <3> QED
      BY <3>1, <3>2
  <2>5. ASSUME UNCHANGED logger
        PROVE  \A l \in Lines : (Waiting(l)' <=> Waiting(l)) /\ (Drained(l)' <=> Drained(l))
    BY <2>1, <2>5 DEF Waiting, Drained
  <2>6. CASE Export(c) \/ Flag(c) \/ FallBack(c)
    <3>1. /\ pc'[c] \notin {"idle", "panicked"}
          /\ UNCHANGED logger /\ UNCHANGED ends
      BY <2>1, <2>6 DEF Export, Flag, FallBack, CallerMoves, CallTypes, workers
    <3>2. Ongoing(e)' /\ ~Aborted(e)'
      BY <2>1, <2>2, <3>1 DEF Ongoing, Aborted
    <3>3. \A l \in Lines : /\ Ongoing(l)' <=> Ongoing(l)
                           /\ Aborted(l)' <=> Aborted(l)
      BY <2>3, <2>4, <3>2
    <3> QED
      BY <2>1, <2>5, <3>1, <3>3, SinkStutters, SinkRests
  <2>7. CASE Send(c)
    <3> DEFINE g == to[e]
    <3>1. /\ pc'[c] = "idle"
          /\ logger' = [logger EXCEPT ![g].queue = @ \union {e}]
          /\ UNCHANGED <<written, refused>> /\ UNCHANGED ends
      BY <2>0, <2>1, <2>7 DEF Send, CallerMoves, CallTypes, ends
    <3>2. /\ g \in Gens /\ to'[e] = g
          /\ logger'[g].queue = logger[g].queue \union {e}
          /\ logger'[g].worker = logger[g].worker
          /\ \A h \in Gens \ {g} : logger'[h] = logger[h]
      BY <2>1, <2>2, <3>1 DEF WorkerTypes, LoggerType
    <3> HIDE DEF g
    <3>3. ~Ongoing(e)' /\ ~Aborted(e)' /\ Waiting(e)'
          /\ (Drained(e)' <=> logger[g].worker = "run")
      BY <2>1, <2>2, <3>1, <3>2 DEF Ongoing, Aborted, Waiting, Drained
    <3>4. \A l \in Lines \ {e} : /\ Waiting(l)' <=> Waiting(l)
                                 /\ Drained(l)' <=> Drained(l)
      BY <2>1, <3>2 DEF Waiting, Drained
    <3>5. CASE logger[g].worker = "run"
      <4>1. e \in Pending' /\ (e \in Lost' <=> e \in Lost)
        BY <2>2, <2>3, <3>1, <3>3, <3>5 DEF SinkView, Drained
      <4>2. Pending' = Pending /\ Lost' = Lost
        <5>1. /\ e \in Pending' => Pending' = Pending \union {e}
              /\ e \in Lost' => Lost' = Lost \union {e}
              /\ e \notin Lost' => Lost' = Lost \ {e}
          BY <2>2, <2>4, <3>1, <3>4, SinkMoves
        <5> QED
          BY <2>3, <4>1, <5>1
      <4> QED
        BY <2>1, <3>1, <4>2, SinkRests
    <3>6. CASE logger[g].worker # "run"
      <4>1. e \notin Pending' /\ e \in Lost'
        BY <2>2, <3>3, <3>6 DEF SinkView
      <4>2. Pending' = Pending \ {e} /\ Lost' = Lost \union {e}
        BY <2>2, <2>4, <3>1, <3>4, <4>1, SinkMoves
      <4>3. logger[g].worker # "none"
        BY <2>0, <2>7 DEF Send, CallerMoves, CallsOwned, g
      <4>4. closes > 0
        BY <3>2, <3>6, <4>3 DEF LoggersOwned, WorkerTypes, LoggerType
      <4> QED
        BY <2>1, <2>2, <2>3, <3>1, <4>2, <4>4, SinkLoses
    <3> QED
      BY <3>5, <3>6
  <2>8. CASE SendPanics(c)
    <3>1. /\ pc'[c] = "panicked" /\ logger[to[e]].chanClosed
          /\ UNCHANGED logger /\ UNCHANGED <<written, refused>>
      BY <2>0, <2>1, <2>8 DEF SendPanics, CallerMoves, CallTypes, workers, ends
    <3>2. Ongoing(e)' /\ Aborted(e)'
      BY <2>1, <2>2, <3>1 DEF Ongoing, Aborted
    <3>3. e \notin Pending' /\ e \in Lost'
      BY <2>2, <2>3, <2>5, <3>1, <3>2 DEF SinkView, Drained
    <3>4. Pending' = Pending \ {e} /\ Lost' = Lost \union {e}
      BY <2>2, <2>4, <2>5, <3>1, <3>3, SinkMoves
    <3>5. closes > 0
      BY <2>2, <3>1 DEF LoggersOwned
    <3> QED
      BY <2>1, <2>2, <2>3, <3>1, <3>4, <3>5, SinkLoses
  <2>9. CASE Write(c)
    <3>1. pc'[c] = "idle" /\ UNCHANGED logger /\ WriteLine(e)
      BY <2>0, <2>1, <2>9 DEF Write, CallerMoves, CallTypes, workers
    <3>2. ~Ongoing(e)' /\ ~Aborted(e)' /\ ~Waiting(e)' /\ ~Drained(e)'
      BY <2>1, <2>2, <2>3, <2>5, <3>1 DEF Ongoing, Aborted, Drained
    <3>3. WriterClosed(to[e]) => closes > 0
      BY <2>2 DEF WriterClosed, LoggersOwned, StdoutOwned
    <3>4. \A l \in Lines \ {e} : /\ Ongoing(l)' <=> Ongoing(l)
                                 /\ Aborted(l)' <=> Aborted(l)
                                 /\ Waiting(l)' <=> Waiting(l)
                                 /\ Drained(l)' <=> Drained(l)
      BY <2>4, <2>5, <3>1
    <3> QED
      BY <2>1, <2>2, <2>3, <3>1, <3>2, <3>3, <3>4, SinkResolves
  <2> QED
    BY <1>3, <2>6, <2>7, <2>8, <2>9 DEF Continue
<1>4. ASSUME NEW g \in Gens, LoggerWorks(g) PROVE SinkStep
  <2>1. PICK e \in logger[g].queue :
          logger' = [logger EXCEPT ![g].queue = @ \ {e}] /\ WriteLine(e)
    BY <1>4 DEF LoggerWorks
  <2>2. UNCHANGED <<closes, pc, lines, to>> /\ logger[g].worker = "run"
    BY <1>4 DEF LoggerWorks, main, calls
  <2>3. e \in Lines /\ to[e] = g /\ ~Ongoing(e)
    BY DEF LinesPlaced, WorkerTypes, LoggerType
  <2>4. /\ logger'[g].queue = logger[g].queue \ {e}
        /\ logger'[g].worker = logger[g].worker
        /\ \A h \in Gens \ {g} : logger'[h] = logger[h]
    BY <2>1 DEF WorkerTypes, LoggerType
  <2>5. Waiting(e) /\ Drained(e) /\ ~Aborted(e) /\ e \in Pending
    BY <2>2, <2>3 DEF Waiting, Drained, Aborted, SinkView
  <2>6. ~Ongoing(e)' /\ ~Waiting(e)'
    BY <2>2, <2>3, <2>4 DEF Ongoing, Waiting
  <2>7. \A l \in Lines \ {e} : /\ Ongoing(l)' <=> Ongoing(l)
                               /\ Aborted(l)' <=> Aborted(l)
                               /\ Waiting(l)' <=> Waiting(l)
                               /\ Drained(l)' <=> Drained(l)
    BY <2>2, <2>4 DEF Ongoing, Aborted, Waiting, Drained
  <2>8. WriterClosed(to[e]) => closes > 0
    BY <2>3 DEF WriterClosed, LoggersOwned, StdoutOwned
  <2> QED
    BY <2>1, <2>2, <2>3, <2>5, <2>6, <2>7, <2>8, SinkResolves
<1>5. ASSUME NEW g \in Gens, LoggerStops(g) \/ ExporterWorker(g) PROVE SinkStep
  <2>1. UNCHANGED <<closes, pc, lines, to, written, refused>> /\ UNCHANGED ends
    BY <1>5 DEF LoggerStops, ExporterWorker, ExporterWorks, ExporterStops, main, calls, ends
  <2>2. \A h \in Gens : /\ logger'[h].queue = logger[h].queue
                        /\ logger[h].queue # {} => logger'[h].worker = logger[h].worker
    <3>1. CASE UNCHANGED logger
      BY <3>1
    <3>2. CASE LoggerStops(g)
      <4>1. logger[g].queue = {} /\ logger' = [logger EXCEPT ![g].worker = "done"]
        BY <3>2 DEF LoggerStops
      <4>2. /\ logger'[g].queue = logger[g].queue
            /\ \A h \in Gens \ {g} : logger'[h] = logger[h]
        BY <4>1 DEF WorkerTypes, LoggerType
      <4> QED
        BY <4>1, <4>2
    <3> QED
      BY <1>5, <3>1, <3>2 DEF ExporterWorker, ExporterWorks, ExporterStops
  <2>3. \A l \in Lines : /\ Ongoing(l)' <=> Ongoing(l)
                         /\ Aborted(l)' <=> Aborted(l)
                         /\ Waiting(l)' <=> Waiting(l)
                         /\ Drained(l)' <=> Drained(l)
    BY <2>1, <2>2 DEF Ongoing, Aborted, Waiting, Drained
  <2> QED
    BY <2>1, <2>3, SinkStutters, SinkRests
<1> QED
  BY <1>1, <1>2, <1>3, <1>4, <1>5 DEF Next, MainStep, LoggerWorker

(* The facade implements LogSink, its liveness apart: whatever the sequence *)
(* of Init, SetLogger, Close and full queues, a line a JSONLogger accepts is*)
(* written or lost once, and none is lost before Close was called.          *)
THEOREM RefinesSink == Spec => Sink!Init /\ [][Sink!Next]_(Sink!sinkVars)
<1>1. Init => Sink!Init
  BY FacadeAssumption DEF Init, Sink!Init, InCall, Panicked, Queued, Stranded, Running, NoLogger
<1>2. IInv /\ IInv' /\ SinkView /\ SinkView' /\ [Next]_vars => SinkStep
  <2> SUFFICES ASSUME IInv, IInv', SinkView, SinkView', [Next]_vars PROVE SinkStep
    OBVIOUS
  <2>1. CASE Next
    BY <2>1, SinkNext
  <2>2. CASE UNCHANGED vars
    <3>1. UNCHANGED <<logger, pc, lines, written, refused, closes>>
      BY <2>2 DEF vars, main, workers, calls, ends
    <3>2. InCall' = InCall /\ Panicked' = Panicked /\ Queued' = Queued /\ Stranded' = Stranded
      BY <3>1 DEF InCall, Panicked, Queued, Stranded, Running, Line
    <3> QED
      BY <3>1, <3>2, SinkRests DEF Pending, Lost
  <2> QED
    BY <2>1, <2>2
<1> QED
  BY <1>1, <1>2, SpecIInv, SinkViewed, PTL DEF Spec, SinkStep
=============================================================================
