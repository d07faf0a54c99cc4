--------------------------- MODULE RequestPipeline ---------------------------
(***************************************************************************)
(* Requests on their way through HTTPMiddleware (observability/            *)
(* middleware.go), a handler with spans, responses and outbound calls of   *)
(* its own, and PanicRecoveryMiddleware (panic_middleware.go) inside it,   *)
(* around it or not there at all; beside them goroutines with spans of     *)
(* their own.  The spans and the shared stack are those of Tracing, the    *)
(* headers those of Propagation.                                           *)
(*                                                                         *)
(* A handler ends its spans with deferred calls, also when it panics, as   *)
(* the README's examples do; a span may be that of TraceSQL.  An outbound  *)
(* call changes nothing here: OutboundHeaders says what it would carry.    *)
(* Metrics and the lines about a request's start and end are left out but  *)
(* for the status and the payload they report.  Payloads are counted in    *)
(* bytes.                                                                  *)
(***************************************************************************)
EXTENDS Tracing, Propagation

CONSTANTS
  Dashed,      (* ids of Incoming whose text is that of the id before, a    *)
               (* dash and more                                             *)
  WideIncoming,(* ids of Incoming of 32 characters                          *)
  Responders,  (* goroutines whose handlers write responses                 *)
  MaxPayload,  (* MaxPayloadLogSizeBytes                                    *)
  MaxSent      (* bound: bytes a handler writes                             *)

ASSUME PipelineAssumption ==
  /\ Dashed \subseteq Incoming \ WideIncoming /\ WideIncoming \subseteq Incoming
  /\ \A id \in Dashed : id - 1 \in Incoming \ Dashed
  /\ MaxPayload \in Nat \ {0} /\ MaxSent \in Nat

VARIABLES
  recovery,   (* where PanicRecoveryMiddleware is: "inside", "outside", "no"*)
  stage,      (* where g's request is                                       *)
  ctxID,      (* the trace id in the context of g's request                 *)
  resp,       (* the responseWriterWrapper of g's request                   *)
  lastPanic   (* history: whose id the latest entry of                      *)
              (* PanicRecoveryMiddleware carries, and whether its goroutine *)
              (* was the only one with spans all along                      *)

request == <<stage, ctxID, resp>>
pipelineVars == <<vars, recovery, request, lastPanic>>

Text(id) ==
  IF id = 0 THEN Absent ELSE IF id \in Dashed THEN <<id - 1, 0>> ELSE <<id>>
IdOf(text) == CHOOSE id \in Ids : Text(id) = text
Wide == WideIncoming \union (IF bridge THEN 1..MaxSpans ELSE {})

(* Requests come without a trace, from a service that uses this package,    *)
(* or with one of the headers it reads; with an id of another service or,   *)
(* when one calls back, with one made here.                                 *)
Arrivals ==
  LET Known == Incoming \union 1..created IN
  {InjectTraceID(NoHeaders, Text(id)) : id \in Known \union {0}}
    \union {[NoHeaders EXCEPT !.xB3TraceId = Text(id)] : id \in Known}
    \union {[NoHeaders EXCEPT !.xTraceID = Text(id)] : id \in Known}

(* newResponseWriterWrapper; nothing sent to the client yet.                *)
Fresh == [status |-> 200, client |-> 0, again |-> FALSE, body |-> 0, sent |-> 0]

-----------------------------------------------------------------------------
PipelineInit ==
  /\ Init
  /\ recovery \in {"inside", "outside", "no"}
  /\ stage = [g \in Goroutines |-> "free"]
  /\ ctxID = [g \in Goroutines |-> 0]
  /\ resp = [g \in Goroutines |-> Fresh]
  /\ lastPanic = [id |-> "no entry", calm |-> TRUE]

(* HTTPMiddleware up to the handler: the trace is resumed or begun, and its *)
(* id put into the request's context.  A server's context has no span.      *)
Arrive(g, path, headers) ==
  LET id == IdOf(ExtractTraceID(headers, Wide)) IN
  /\ stage[g] = "free" /\ open[g] = <<>>
  /\ IF id # 0 THEN Resume(g, path, id)
     ELSE StartSpan(g, path) /\ Top(open'[g]).id = created'
  /\ stage' = [stage EXCEPT ![g] = "serve"]
  /\ ctxID' = [ctxID EXCEPT ![g] = Top(open'[g]).id]
  /\ UNCHANGED <<recovery, resp, lastPanic>>

(* responseWriterWrapper.WriteHeader: the wrapper takes every status, the   *)
(* server the first.                                                        *)
HeaderWritten(r, code) ==
  [r EXCEPT !.status = code,
            !.client = IF @ = 0 THEN code ELSE @,
            !.again = @ \/ r.client # 0]

(* Mutant of BodyWritten: the copy is cut when it is full already.          *)
BodyWrittenUncut(r, n) ==
  [r EXCEPT !.body = IF @ < MaxPayload THEN @ + n ELSE @,
            !.client = IF @ = 0 THEN 200 ELSE @,
            !.sent = @ + n]

(* responseWriterWrapper.Write of n bytes: as many as still fit are kept    *)
(* for the log; the server sends 200 first if nothing was sent.             *)
BodyWritten(r, n) ==
  LET rem == MaxPayload - r.body IN
  [r EXCEPT !.body = IF @ < MaxPayload THEN @ + (IF n < rem THEN n ELSE rem)
                     ELSE @,
            !.client = IF @ = 0 THEN 200 ELSE @,
            !.sent = @ + n]

Respond(g) ==
  /\ g \in Responders /\ stage[g] = "serve"
  /\ \/ \E code \in {200, 500} :
          resp' = [resp EXCEPT ![g] = HeaderWritten(@, code)]
     \/ \E n \in 1..(MaxSent - resp[g].sent) :
          resp' = [resp EXCEPT ![g] = BodyWritten(@, n)]
  /\ UNCHANGED <<vars, recovery, stage, ctxID, lastPanic>>

(* Spans inside a handler, with StartSpan or TraceSQL.                      *)
HandlerSpan(g) ==
  /\ stage[g] = "serve" /\ pc[g] = "run"
  /\ \/ \E name \in Names : StartSpan(g, name)
     \/ Len(open[g]) > 1 /\ EndSpan(g)
  /\ UNCHANGED <<recovery, request, lastPanic>>

(* Goroutines that serve no request, in whatever context they were handed.  *)
JobSpan(g) ==
  /\ stage[g] = "free"
  /\ (\E name \in Names : StartSpan(g, name)) \/ EndSpan(g)
  /\ UNCHANGED <<recovery, request, lastPanic>>

(* The bridge's steps after the push and before the pop.                    *)
BridgeSpan(g) ==
  /\ OTelRegister(g) \/ OTelPop(g)
  /\ UNCHANGED <<recovery, request, lastPanic>>

StageMoves(g, from, to) ==
  /\ stage[g] = from /\ pc[g] = "run"
  /\ stage' = [stage EXCEPT ![g] = to]
  /\ UNCHANGED recovery

(* The request and its wrapper are gone.                                    *)
Forget(g) ==
  /\ ctxID' = [ctxID EXCEPT ![g] = 0]
  /\ resp' = [resp EXCEPT ![g] = Fresh]

(* The handler returns, and executePipeline logs the finished request.      *)
Return(g) ==
  /\ Len(open[g]) = 1 /\ StageMoves(g, "serve", "return")
  /\ UNCHANGED <<vars, ctxID, resp, lastPanic>>

Panic(g) ==
  StageMoves(g, "serve", "panic") /\ UNCHANGED <<vars, ctxID, resp, lastPanic>>

(* The handler's deferred calls end its spans.                              *)
Unwind(g) ==
  /\ stage[g] = "panic" /\ Len(open[g]) > 1
  /\ EndSpan(g)
  /\ UNCHANGED <<recovery, request, lastPanic>>

PanicLogged(g, id) ==
  lastPanic' = [id |-> IF id = 0 THEN "none" ELSE IF id = ctxID[g] THEN "own"
                                                 ELSE "other",
                calm |-> Alone(g) /\ ~overlapped /\ left = 0]

(* Mutant of ResolveTraceID: the provider is asked first.                   *)
ProviderFirst(id) == IF GetActiveTraceID # 0 THEN GetActiveTraceID ELSE id

(* JSONLogger.resolveTraceID: the context's id, or the top of the stack.    *)
ResolveTraceID(id) == IF id # 0 THEN id ELSE GetActiveTraceID

(* runRecovery inside HTTPMiddleware: it has the request with its context   *)
(* and answers through the wrapper; the pipeline goes on as if the handler  *)
(* had returned.                                                            *)
RecoverInside(g) ==
  /\ recovery = "inside" /\ Len(open[g]) = 1
  /\ StageMoves(g, "panic", "return")
  /\ PanicLogged(g, ResolveTraceID(ctxID[g]))
  /\ resp' = [resp EXCEPT ![g] = BodyWritten(HeaderWritten(@, 500), 1)]
  /\ UNCHANGED <<vars, ctxID>>

(* HTTPMiddleware's deferred EndSpan, after a return.                       *)
EndRequest(g) ==
  /\ stage[g] = "return" /\ pc[g] = "run"
  /\ EndSpan(g)
  /\ stage' = [stage EXCEPT ![g] = "free"]
  /\ Forget(g)
  /\ UNCHANGED <<recovery, lastPanic>>

(* Mutant of UnwindRequest: the call is not deferred.                       *)
UnwindLeavesSpan(g) ==
  /\ recovery # "inside" /\ stage[g] = "panic" /\ pc[g] = "run"
  /\ Len(open[g]) = 1
  /\ open' = [open EXCEPT ![g] = <<>>]
  /\ stage' = [stage EXCEPT ![g] = "unwound"]
  /\ UNCHANGED <<bridge, traceStack, pc, spans, ended, created, resumed, left,
                 taken, overlapped, recovery, ctxID, resp, lastPanic>>

(* The same deferred EndSpan, when the panic goes through HTTPMiddleware.   *)
UnwindRequest(g) ==
  /\ recovery # "inside" /\ stage[g] = "panic" /\ pc[g] = "run"
  /\ Len(open[g]) = 1 /\ EndSpan(g)
  /\ stage' = [stage EXCEPT ![g] = "unwound"]
  /\ UNCHANGED <<recovery, ctxID, resp, lastPanic>>

(* runRecovery around HTTPMiddleware has the request as it came, without an *)
(* id, and answers the client past the wrapper.                             *)
RecoverOutside(g) ==
  /\ recovery = "outside" /\ StageMoves(g, "unwound", "free")
  /\ PanicLogged(g, ResolveTraceID(0))
  /\ Forget(g)
  /\ UNCHANGED vars

(* net/http (external) recovers and drops the connection.                   *)
Abort(g) ==
  /\ recovery = "no" /\ StageMoves(g, "unwound", "free")
  /\ Forget(g)
  /\ UNCHANGED <<vars, lastPanic>>

PipelineNext ==
  \E g \in Goroutines :
    \/ \E path \in Names, headers \in Arrivals : Arrive(g, path, headers)
    \/ Respond(g) \/ HandlerSpan(g) \/ JobSpan(g) \/ BridgeSpan(g)
    \/ Return(g) \/ EndRequest(g)
    \/ Panic(g) \/ Unwind(g) \/ RecoverInside(g)
    \/ UnwindRequest(g) \/ RecoverOutside(g) \/ Abort(g)

PipelineSpec == PipelineInit /\ [][PipelineNext]_pipelineVars

-----------------------------------------------------------------------------
PipelineTypeOK ==
  /\ TypeOK
  /\ recovery \in {"inside", "outside", "no"}
  /\ stage \in [Goroutines -> {"free", "serve", "return", "panic", "unwound"}]
  /\ ctxID \in [Goroutines -> Ids]
  /\ resp \in [Goroutines -> [status : {200, 500}, client : {0, 200, 500},
                              again : BOOLEAN, body : 0..MaxPayload,
                              sent : 0..(MaxSent + 1)]]
  /\ lastPanic \in [id : {"own", "other", "none", "no entry"}, calm : BOOLEAN]

OutboundHeaders == RoundTrip(NoHeaders, Text(GetActiveTraceID))

(* README.md:85, "End-to-end trace correlation": as long as goroutines had  *)
(* spans only one at a time, a call made inside a span carries the id of    *)
(* the innermost one, also across resumed requests, nested spans that ended *)
(* and panics, and the callee extracts it, up to its first dash.  A         *)
(* goroutine without spans sends none, unless the bridge left an id behind. *)
OutboundCarriesOwn ==
  ~overlapped =>
    \A g \in Goroutines :
      Alone(g) /\ pc[g] # "pop" /\ (open[g] # <<>> \/ left = 0) =>
        /\ GetActiveTraceID = Innermost(g).id
        /\ ExtractTraceID(OutboundHeaders, Wide) =
             SubSeq(Text(Innermost(g).id), 1, IF open[g] = <<>> THEN 0 ELSE 1)

(* runRecovery (README section 15, "logged context-aware"): inside          *)
(* HTTPMiddleware the entry about a panic carries the id of the request     *)
(* that panicked, whatever else runs.  Around it the context's id is out of *)
(* reach and the span has ended: the entry carries no id at all, or, when   *)
(* other goroutines have spans, the id of one of theirs.                    *)
PanicEntryTrace ==
  /\ recovery = "inside" => lastPanic.id \in {"no entry", "own"}
  /\ recovery = "outside" /\ lastPanic.calm => lastPanic.id \in {"no entry", "none"}

(* responseWriterWrapper: the status it reports is the one the client got,  *)
(* unless the handler, or runRecovery after it, set one when the response   *)
(* had begun; and the payload it reports is what the client got, up to      *)
(* MaxPayload bytes, however the handler cut it into writes.                *)
ResponseReported ==
  \A g \in Goroutines :
    LET r == resp[g] IN
    stage[g] \in {"serve", "return"} =>
      /\ r.status # (IF r.client = 0 THEN 200 ELSE r.client) => r.again
      /\ r.body = IF r.sent < MaxPayload THEN r.sent ELSE MaxPayload
=============================================================================
