------------------------------- MODULE Tracing -------------------------------
(***************************************************************************)
(* Trace correlation: the process-wide stack of trace ids                  *)
(* (observability/tracer.go), the spans that push and pop it, through the  *)
(* local tracer or the OpenTelemetry bridge (otel_bridge.go), and the      *)
(* requests that resume a caller's trace (resumeTrace of middleware.go).   *)
(*                                                                         *)
(* Goroutines nest their spans and end them innermost first, as deferred   *)
(* EndSpan calls do, and may hand their context to another goroutine.      *)
(* Trace ids and OpenTelemetry span handles are numbers; a new span's      *)
(* handle is fresh, and so is its trace id unless the SDK hands it the     *)
(* trace of its parent.  Requests arrive with ids of other services or, when *)
(* one of those calls back, with ids made here.  0 stands for the empty id. *)
(***************************************************************************)
EXTENDS Integers, Sequences, FiniteSets

CONSTANTS
  Goroutines,
  Names,       (* span names, URL paths among them                          *)
  Incoming,    (* trace ids that other services make; random ones, like     *)
               (* those made here, so that none is ever made twice          *)
  MaxSpans,    (* bound: spans created in all                               *)
  MaxDepth,    (* bound: spans a goroutine has open                         *)
  MaxResumed   (* bound: requests that resume a trace                       *)

ASSUME TracingAssumption ==
  /\ MaxSpans \in Nat
  /\ MaxDepth \in Nat
  /\ MaxResumed \in Nat
  /\ Incoming \subseteq Nat \ (0..MaxSpans)

VARIABLES
  bridge,      (* EnableOTel: whether the tracer is otelTracer              *)
  traceStack,  (* tracer.go's traceStack, the top last                      *)
  open,        (* open[g]: the spans g has started and not ended, innermost *)
               (* last                                                      *)
  pc,          (* where g is in otelTracer's StartTrace or EndTrace         *)
  spans,       (* otelTracer.spans: handles by trace id and name            *)
  ended,       (* handles on which otelSpan.End() was called                *)
  created,     (* spans created so far                                      *)
  resumed,     (* requests resumed so far                                   *)
  left,        (* history: ids whose span ended without a pop               *)
  taken,       (* history: the spans on file that resumed requests ended,   *)
               (* by key, and that whoever started them has still to end    *)
  overlapped   (* history: whether two goroutines ever had spans at a time  *)

vars == <<bridge, traceStack, open, pc, spans, ended, created, resumed, left,
          taken, overlapped>>

Ids  == 0..MaxSpans \union Incoming
Keys == Ids \X Names
Span == [id : Ids, name : Names, handle : 0..MaxSpans]

(* The key traceID#name of otelTracer.spans.                                *)
KeyOf(s) == <<s.id, s.name>>

Front(s) == SubSeq(s, 1, Len(s) - 1)
Top(s)   == s[Len(s)]

(* The span innermost in the context g works with: its own, or 0's if none. *)
NoSpan == [id |-> 0, name |-> "none", handle |-> 0]
Innermost(g) == IF open[g] = <<>> THEN NoSpan ELSE Top(open[g])

Busy(g) == open[g] # <<>> \/ pc[g] # "run"
Alone(g) == \A h \in Goroutines \ {g} : ~Busy(h)

(* g gets another span.                                                     *)
Opens(g, s) ==
  /\ open' = [open EXCEPT ![g] = Append(@, s)]
  /\ overlapped' = (overlapped \/ ~Alone(g))

-----------------------------------------------------------------------------
Init ==
  /\ bridge \in BOOLEAN
  /\ traceStack = <<>>
  /\ open = [g \in Goroutines |-> <<>>]
  /\ pc = [g \in Goroutines |-> "run"]
  /\ spans = [k \in Keys |-> <<>>]
  /\ ended = {}
  /\ created = 0
  /\ resumed = 0
  /\ left = 0
  /\ taken = [k \in Keys |-> 0]
  /\ overlapped = FALSE

PushActiveTraceID(id) == traceStack' = Append(traceStack, id)

(* Whichever id is on top goes; an empty stack stays empty.                 *)
PopActiveTraceID ==
  traceStack' = IF Len(traceStack) > 0 THEN Front(traceStack) ELSE traceStack

(* GetActiveTraceID: what Info and the outbound header carry.               *)
GetActiveTraceID == IF Len(traceStack) > 0 THEN Top(traceStack) ELSE 0

-----------------------------------------------------------------------------
(* LocalTracer.StartTrace: a random id, whatever the parent.                *)
LocalStart(g, name) ==
  /\ ~bridge
  /\ created < MaxSpans
  /\ Len(open[g]) < MaxDepth
  /\ created' = created + 1
  /\ Opens(g, [id |-> created', name |-> name, handle |-> 0])
  /\ PushActiveTraceID(created')
  /\ UNCHANGED <<bridge, pc, spans, ended, resumed, left, taken>>

(* LocalTracer.EndTrace: the span is exported and printed, then the stack   *)
(* is popped without a look at what is on it.                               *)
LocalEnd(g) ==
  /\ ~bridge
  /\ open[g] # <<>>
  /\ open' = [open EXCEPT ![g] = Front(@)]
  /\ PopActiveTraceID
  /\ UNCHANGED <<bridge, pc, spans, ended, created, resumed, left, taken,
                 overlapped>>

(* HTTPMiddleware with a trace header: only the id is pushed; the span is   *)
(* not known to the tracer that will end it.                                *)
Resume(g, name, id) ==
  /\ pc[g] = "run"
  /\ open[g] = <<>>
  /\ resumed < MaxResumed
  /\ resumed' = resumed + 1
  /\ Opens(g, [id |-> id, name |-> name, handle |-> 0])
  /\ PushActiveTraceID(id)
  /\ UNCHANGED <<bridge, pc, spans, ended, created, left, taken>>

-----------------------------------------------------------------------------
(* The SDK's tracer.Start (external): a child takes its parent's trace id,  *)
(* the parent being the innermost OpenTelemetry span of the context, here   *)
(* g's own or, in a goroutine that was handed one, that of another.         *)
Parents(g) ==
  IF open[g] # <<>>
  THEN {Innermost(g)}
  ELSE {NoSpan} \union {Innermost(h) : h \in {x \in Goroutines : pc[x] = "run"}}

TraceIDUnder(parent) == IF parent.handle = 0 THEN created + 1 ELSE parent.id

(* otelTracer.StartTrace, up to the push.                                   *)
OTelStart(g, name) ==
  /\ bridge
  /\ pc[g] = "run"
  /\ created < MaxSpans
  /\ Len(open[g]) < MaxDepth
  /\ \E parent \in Parents(g) :
       LET id == TraceIDUnder(parent) IN
       /\ Opens(g, [id |-> id, name |-> name, handle |-> created + 1])
       /\ PushActiveTraceID(id)
  /\ created' = created + 1
  /\ pc' = [pc EXCEPT ![g] = "register"]
  /\ UNCHANGED <<bridge, spans, ended, resumed, left, taken>>

(* otelTracer.StartTrace: the span is filed under its key.                  *)
OTelRegister(g) ==
  /\ pc[g] = "register"
  /\ LET s == Innermost(g)
     IN  spans' = [spans EXCEPT ![KeyOf(s)] = Append(@, s.handle)]
  /\ pc' = [pc EXCEPT ![g] = "run"]
  /\ UNCHANGED <<bridge, traceStack, open, ended, created, resumed, left,
                 taken, overlapped>>

(* Mutant of OTelEnd: the span is ended and stays on file.                  *)
OTelEndKeepsSpan(g) ==
  /\ bridge
  /\ pc[g] = "run"
  /\ open[g] # <<>>
  /\ open' = [open EXCEPT ![g] = Front(@)]
  /\ LET filed == spans[KeyOf(Innermost(g))] IN
       /\ filed # <<>>
       /\ ended' = ended \union {Top(filed)}
  /\ pc' = [pc EXCEPT ![g] = "pop"]
  /\ UNCHANGED <<bridge, traceStack, spans, created, resumed, left, taken,
                 overlapped>>

(* otelTracer.EndTrace, when a span is on file for the key: the newest one  *)
(* is taken out and ended, be it another goroutine's.  So a resumed request *)
(* ends the span of the request that its trace began with, if that is still *)
(* open here and has the same path.                                         *)
OTelEnd(g) ==
  /\ bridge
  /\ pc[g] = "run"
  /\ open[g] # <<>>
  /\ open' = [open EXCEPT ![g] = Front(@)]
  /\ LET k == KeyOf(Innermost(g)) IN
       /\ spans[k] # <<>>
       /\ ended' = ended \union {Top(spans[k])}
       /\ spans' = [spans EXCEPT ![k] = Front(@)]
       /\ taken' = IF Innermost(g).handle # 0 THEN taken
                   ELSE [taken EXCEPT ![k] = @ + 1]
  /\ pc' = [pc EXCEPT ![g] = "pop"]
  /\ UNCHANGED <<bridge, traceStack, created, resumed, left, overlapped>>

(* otelTracer.EndTrace, after otelSpan.End().                               *)
OTelPop(g) ==
  /\ pc[g] = "pop"
  /\ PopActiveTraceID
  /\ pc' = [pc EXCEPT ![g] = "run"]
  /\ UNCHANGED <<bridge, open, spans, ended, created, resumed, left, taken,
                 overlapped>>

(* otelTracer.EndTrace, when nothing is on file: nothing is ended and       *)
(* nothing is popped.  The span is that of a resumed request, or one that   *)
(* such a request has taken.                                                *)
OTelEndUnknown(g) ==
  /\ bridge
  /\ pc[g] = "run"
  /\ open[g] # <<>>
  /\ LET k == KeyOf(Innermost(g)) IN
       /\ spans[k] = <<>>
       /\ taken' = IF Innermost(g).handle = 0 THEN taken
                   ELSE [taken EXCEPT ![k] = @ - 1]
  /\ open' = [open EXCEPT ![g] = Front(@)]
  /\ left' = left + 1
  /\ UNCHANGED <<bridge, traceStack, pc, spans, ended, created, resumed,
                 overlapped>>

(* observability.go's StartSpan and EndSpan, with a global instance.        *)
StartSpan(g, name) == LocalStart(g, name) \/ OTelStart(g, name)
EndSpan(g) == LocalEnd(g) \/ OTelEnd(g) \/ OTelEndUnknown(g)

Next ==
  \E g \in Goroutines :
    \/ \E name \in Names :
         \/ StartSpan(g, name)
         \/ \E id \in Incoming \union 1..created : Resume(g, name, id)
    \/ EndSpan(g)
    \/ OTelRegister(g)
    \/ OTelPop(g)

Spec == Init /\ [][Next]_vars

-----------------------------------------------------------------------------
TypeOK ==
  /\ traceStack \in Seq(Ids \ {0})
  /\ open \in [Goroutines -> Seq(Span)]
  /\ pc \in [Goroutines -> {"run", "register", "pop"}]
  /\ spans \in [Keys -> Seq(1..MaxSpans)]
  /\ ended \subseteq 1..created
  /\ created \in 0..MaxSpans
  /\ resumed \in 0..MaxResumed
  /\ bridge \in BOOLEAN /\ overlapped \in BOOLEAN
  /\ left \in 0..resumed
  /\ taken \in [Keys -> Nat]

(* Entries g has on the stack: its open spans, and the one it is ending.    *)
HeldBy(g) == Len(open[g]) + (IF pc[g] = "pop" THEN 1 ELSE 0)
Held == UNION {{<<g, i>> : i \in 1..HeldBy(g)} : g \in Goroutines}

(* tracer.go: pushes and pops balance.  However the goroutines interleave,  *)
(* and although nobody looks whose id he pops, the stack is as deep as the  *)
(* spans in progress are many, and one deeper for every span that the bridge *)
(* had not on file: no other pop is missing, none is lost on an empty stack. *)
DepthMatchesOpen == Len(traceStack) = Cardinality(Held) + left

(* The spans a goroutine has filed with otelTracer and not yet ended.       *)
Filed(g) ==
  IF pc[g] = "register" THEN Front(open[g]) ELSE open[g]
FiledUnder(k) ==
  UNION {{<<g, i>> : i \in {j \in 1..Len(Filed(g)) :
            Filed(g)[j].handle # 0 /\ KeyOf(Filed(g)[j]) = k}} :
         g \in Goroutines}

(* otel_bridge.go: although EndTrace knows a span only by trace id and name *)
(* and siblings share both, each key has exactly as many spans on file as   *)
(* goroutines have open, but for those that resumed requests ended: a call  *)
(* that comes back to the path it began at, before that request is over,    *)
(* ends its span early.  So every other EndSpan of a span finds one to end, *)
(* and no span is ended twice, or lost and left running.                    *)
RegistryMatchesOpen ==
  /\ \A k \in Keys : Len(spans[k]) + taken[k] = Cardinality(FiledUnder(k))
  /\ \A k \in Keys : \A i \in 1..Len(spans[k]) : spans[k][i] \notin ended
  /\ \A g \in Goroutines : pc[g] = "run" /\ open[g] # <<>> =>
       LET k == KeyOf(Innermost(g)) IN
       Innermost(g).handle # 0 => spans[k] # <<>> \/ taken[k] > 0
  /\ bridge => \A h \in 1..created :
       \/ h \in ended
       \/ \E k \in Keys : \E i \in 1..Len(spans[k]) : spans[k][i] = h
       \/ \E g \in Goroutines : pc[g] = "register" /\ Innermost(g).handle = h

-----------------------------------------------------------------------------
(* README.md:68: whenever you write a log (like calling Info(...)), the     *)
(* logger grabs the id on top of the stack, and this correlates your logs.  *)
(* A goroutine inside a span logs with the id of its innermost span.        *)
InfoCarriesOwnTrace ==
  \A g \in Goroutines :
    open[g] # <<>> /\ pc[g] = "run" => GetActiveTraceID = Innermost(g).id
=============================================================================
