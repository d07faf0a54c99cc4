----------------------------- MODULE Propagation -----------------------------
(***************************************************************************)
(* Trace ids in HTTP headers (observability/propagation.go and the         *)
(* tracing transport of transport.go).                                     *)
(*                                                                         *)
(* A text is the sequence of its parts between dashes, and a header that   *)
(* is absent is empty; wide is the set of the parts that are 32 characters *)
(* long.  The parts that are no beginning of an id (the version, the span  *)
(* id, the flags, the rest of an id with dashes) are all 0, never wide.    *)
(* Baggage, which goes from the header to the context and back on its own, *)
(* is left out.                                                            *)
(***************************************************************************)
EXTENDS Integers, Sequences

Absent == <<>>

NoHeaders ==
  [traceparent |-> Absent, b3 |-> Absent, xB3TraceId |-> Absent,
   xTraceID |-> Absent]

(* Mutant of ExtractTraceID: a b3 header is taken whole.                    *)
ExtractWhole(headers, wide) ==
  IF Len(headers.traceparent) >= 3 /\ headers.traceparent[2] \in wide
  THEN <<headers.traceparent[2]>>
  ELSE IF headers.b3 # Absent THEN headers.b3
  ELSE IF headers.xB3TraceId # Absent THEN headers.xB3TraceId
  ELSE headers.xTraceID

(* A traceparent counts when its second part is 32 characters long; of b3   *)
(* the part before the first dash is taken, of the others all.              *)
ExtractTraceID(headers, wide) ==
  IF Len(headers.traceparent) >= 3 /\ headers.traceparent[2] \in wide
  THEN <<headers.traceparent[2]>>
  ELSE IF headers.b3 # Absent THEN <<Head(headers.b3)>>
  ELSE IF headers.xB3TraceId # Absent THEN headers.xB3TraceId
  ELSE headers.xTraceID

(* The span id is the beginning of the trace id, or zeros.                  *)
InjectTraceID(headers, id) ==
  IF id = Absent THEN headers
  ELSE [headers EXCEPT !.traceparent = <<0>> \o id \o <<0, 0>>,
                       !.b3 = id \o <<0, 0>>,
                       !.xTraceID = id]

(* TracingRoundTripper.RoundTrip: the headers of the copy that is sent.     *)
RoundTrip(headers, activeID) == InjectTraceID(headers, activeID)
=============================================================================
