---------------------------- MODULE OTLPExporter ----------------------------
(***************************************************************************)
(* OTLPExporter (observability/otlp_exporter.go): goroutines that hand it  *)
(* spans and logs, the worker that batches and posts them, and Close.      *)
(* Each step is one channel operation or one HTTP exchange.                *)
(*                                                                         *)
(* Spans and logs take the same road in two channels and two batches, so   *)
(* both are functions of the kind.  The collector is external: a post ends *)
(* with a 2xx status or not (another status, an error, the client's 10 s   *)
(* timeout); building and marshalling the payload is left out.             *)
(***************************************************************************)
EXTENDS Integers, Sequences, FiniteSets

CONSTANTS
  Producers,  (* goroutines that end spans and write logs                   *)
  Closers,    (* goroutines that call Close                                 *)
  QueueSize,  (* capacity of each channel, 4096 in NewOTLPExporter          *)
  MaxItems    (* bound: items each producer exports                         *)

ASSUME ExporterAssumption ==
  /\ QueueSize \in Nat \ {0}
  /\ MaxItems \in Nat

VARIABLES
  chan,        (* spansChan and logsChan, oldest first                      *)
  batch,       (* the worker's spans and logs                               *)
  stopClosed,  (* whether stopChan has been closed                          *)
  wpc,         (* where the worker is in worker, drain and flush            *)
  cpc,         (* where each closer is in Close                             *)
  exports,     (* exports[p]: items p has exported                          *)
  dropped,     (* the counter observability_dropped_logs_total              *)
  errors,      (* the counter observability_internal_errors_total           *)
  queued,      (* history: what was sent on each channel, in order          *)
  resolved,    (* history: what was posted of each kind, in order           *)
  failed,      (* history: the items of posts that failed                   *)
  late         (* history: items queued after stopChan was closed           *)

vars == <<chan, batch, stopClosed, wpc, cpc, exports, dropped, errors,
          queued, resolved, failed, late>>

Kinds == {"span", "log"}
Items == Producers \X (1..MaxItems)

Elements(s) == {s[i] : i \in 1..Len(s)}
Nothing == [k \in Kinds |-> <<>>]

-----------------------------------------------------------------------------
(* NewOTLPExporter with an endpoint configured.                             *)
Init ==
  /\ chan = Nothing
  /\ batch = Nothing
  /\ stopClosed = FALSE
  /\ wpc = "select"
  /\ cpc = [c \in Closers |-> "idle"]
  /\ exports = [p \in Producers |-> 0]
  /\ dropped = 0
  /\ errors = 0
  /\ queued = Nothing
  /\ resolved = Nothing
  /\ failed = {}
  /\ late = {}

(* ExportSpan and ExportLog: a full channel drops the item and counts it.   *)
(* A closed exporter is not noticed.                                        *)
Export(p, k) ==
  /\ exports[p] < MaxItems
  /\ exports' = [exports EXCEPT ![p] = @ + 1]
  /\ LET item == <<p, exports'[p]>> IN
       \/ /\ Len(chan[k]) < QueueSize
          /\ chan' = [chan EXCEPT ![k] = Append(@, item)]
          /\ queued' = [queued EXCEPT ![k] = Append(@, item)]
          /\ late' = IF stopClosed THEN late \union {item} ELSE late
          /\ UNCHANGED dropped
       \/ /\ Len(chan[k]) >= QueueSize
          /\ dropped' = dropped + 1
          /\ UNCHANGED <<chan, queued, late>>
  /\ UNCHANGED <<batch, stopClosed, wpc, cpc, errors, resolved, failed>>

-----------------------------------------------------------------------------
(* worker, drain, flush                                                     *)

Receive(k) ==
  /\ chan[k] # <<>>
  /\ batch' = [batch EXCEPT ![k] = Append(@, Head(chan[k]))]
  /\ chan' = [chan EXCEPT ![k] = Tail(@)]
  /\ UNCHANGED <<stopClosed, cpc, exports, dropped, errors, queued, resolved,
                 failed, late>>

WorkerMoves(from, to) ==
  /\ wpc = from
  /\ wpc' = to
  /\ UNCHANGED <<chan, batch, stopClosed, cpc, exports, dropped, errors,
                 queued, resolved, failed, late>>

Collect(k) == wpc = "select" /\ Receive(k) /\ UNCHANGED wpc

(* The ticker fires.  With nothing collected flush does nothing, and the    *)
(* step is left out.                                                        *)
WorkerTick == batch # Nothing /\ WorkerMoves("select", "postSpans")

(* Mutant of WorkerStop: what was collected is posted, nothing is drained.  *)
WorkerStopNoDrain == stopClosed /\ WorkerMoves("select", "lastSpans")

(* The select's stop case.                                                  *)
WorkerStop == stopClosed /\ WorkerMoves("select", "drainSpans")

DrainSpan == wpc = "drainSpans" /\ Receive("span") /\ UNCHANGED wpc
DrainSpansDone == chan["span"] = <<>> /\ WorkerMoves("drainSpans", "drainLogs")
DrainLog == wpc = "drainLogs" /\ Receive("log") /\ UNCHANGED wpc

DrainLogsDone == chan["log"] = <<>> /\ WorkerMoves("drainLogs", "lastSpans")

(* buildTracesPayload and buildLogsPayload: one record for each item of the *)
(* batch, in its order; what the record says of the item is left out.       *)
Payload(k) == batch[k]

(* Mutant of Post: the batch is not emptied.                                *)
PostKeepsBatch(k) ==
  /\ resolved' = [resolved EXCEPT ![k] = @ \o batch[k]]
  /\ IF batch[k] = <<>>
     THEN UNCHANGED <<errors, failed>>
     ELSE \/ UNCHANGED <<errors, failed>>
          \/ /\ errors' = errors + 1
             /\ failed' = failed \union Elements(batch[k])
  /\ UNCHANGED <<chan, batch, stopClosed, cpc, exports, dropped, queued,
                 late>>

(* sendTraces or sendLogs, and post: a batch that is not empty goes out in  *)
(* one request, and is forgotten whether the collector took it or not.      *)
Post(k) ==
  /\ resolved' = [resolved EXCEPT ![k] = @ \o Payload(k)]
  /\ batch' = [batch EXCEPT ![k] = <<>>]
  /\ IF batch[k] = <<>>
     THEN UNCHANGED <<errors, failed>>
     ELSE \/ UNCHANGED <<errors, failed>>
          \/ /\ errors' = errors + 1
             /\ failed' = failed \union Elements(batch[k])
  /\ UNCHANGED <<chan, stopClosed, cpc, exports, dropped, queued, late>>

(* flush, from the ticker and from drain.                                   *)
PostSpans == wpc = "postSpans" /\ wpc' = "postLogs" /\ Post("span")
PostLogs  == wpc = "postLogs" /\ wpc' = "select" /\ Post("log")
LastSpans == wpc = "lastSpans" /\ wpc' = "lastLogs" /\ Post("span")
LastLogs  == wpc = "lastLogs" /\ wpc' = "done" /\ Post("log")

Worker ==
  \/ \E k \in Kinds : Collect(k)
  \/ WorkerTick \/ WorkerStop
  \/ DrainSpan \/ DrainSpansDone \/ DrainLog \/ DrainLogsDone
  \/ PostSpans \/ PostLogs \/ LastSpans \/ LastLogs

-----------------------------------------------------------------------------
(* Close                                                                    *)

CloserAt(c, from, to) ==
  /\ cpc[c] = from
  /\ cpc' = [cpc EXCEPT ![c] = to]
  /\ UNCHANGED <<chan, batch, wpc, exports, dropped, errors, queued,
                 resolved, failed, late>>

CloseStop(c) ==
  /\ ~stopClosed
  /\ CloserAt(c, "idle", "wait")
  /\ stopClosed' = TRUE

(* Closing stopChan a second time panics.                                   *)
CloseStopPanics(c) ==
  /\ stopClosed
  /\ CloserAt(c, "idle", "panicked")
  /\ UNCHANGED stopClosed

(* Mutant of CloseWait: Close does not wait for the worker.                 *)
CloseNoWait(c) == CloserAt(c, "wait", "done") /\ UNCHANGED stopClosed

CloseWait(c) ==
  /\ wpc = "done"
  /\ CloserAt(c, "wait", "done")
  /\ UNCHANGED stopClosed

Closer(c) == CloseStop(c) \/ CloseStopPanics(c) \/ CloseWait(c)

Next ==
  \/ \E p \in Producers : \E k \in Kinds : Export(p, k)
  \/ Worker
  \/ \E c \in Closers : Closer(c)

(* The scheduler runs the worker, the ticker fires, and a post ends, by the *)
(* client's timeout at the latest; a closer that waits sees the worker end. *)
Fairness ==
  /\ WF_vars(Worker)
  /\ \A c \in Closers : WF_vars(CloseWait(c))

Spec == Init /\ [][Next]_vars /\ Fairness

-----------------------------------------------------------------------------
TypeOK ==
  /\ chan \in [Kinds -> Seq(Items)]
  /\ \A k \in Kinds : Len(chan[k]) <= QueueSize
  /\ batch \in [Kinds -> Seq(Items)]
  /\ stopClosed \in BOOLEAN
  /\ wpc \in {"select", "postSpans", "postLogs", "drainSpans", "drainLogs",
              "lastSpans", "lastLogs", "done"}
  /\ cpc \in [Closers -> {"idle", "wait", "done", "panicked"}]
  /\ exports \in [Producers -> 0..MaxItems]
  /\ dropped \in Nat
  /\ errors \in Nat
  /\ queued \in [Kinds -> Seq(Items)]
  /\ resolved \in [Kinds -> Seq(Items)]
  /\ failed \subseteq Items
  /\ late \subseteq Items

(* worker, drain and flush post every queued item in at most one request    *)
(* and in the order of its channel, across ticks, failed posts and the      *)
(* drain: what was queued is what was posted, then the batch, then the      *)
(* channel.                                                                 *)
PostedOnceInOrder ==
  \A k \in Kinds : queued[k] = resolved[k] \o batch[k] \o chan[k]

(* drain: when Close returns, the worker has returned, and everything that  *)
(* was queued before stopChan was closed has been posted.                   *)
CloseDrains ==
  \A c \in Closers : cpc[c] = "done" =>
    \A k \in Kinds : Elements(queued[k]) \ late \subseteq Elements(resolved[k])

(* worker: an item queued in time is posted in the end, by a tick or by the *)
(* drain, with posts failing and exports and Close going on around it.      *)
QueuedIsPosted ==
  \A k \in Kinds : \A i \in Items :
    (i \in Elements(queued[k]) \ late) ~> (i \in Elements(resolved[k]))

=============================================================================
