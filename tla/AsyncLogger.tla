----------------------------- MODULE AsyncLogger -----------------------------
(***************************************************************************)
(* The delivery half of JSONLogger (observability/logger.go): deliverLog   *)
(* on the goroutines that log, the background worker behind asyncChan, and *)
(* Close.  The goroutines share asyncEnabled, a plain bool, and the two    *)
(* channels; every step below is one channel operation, one access of the  *)
(* flag or one write.                                                      *)
(*                                                                         *)
(* An entry is the n-th line a goroutine logs; its text, the exporter and  *)
(* the saturation gauge are left out.  A goroutine that operates on a      *)
(* closed channel the way Go forbids is "panicked" and takes no more steps *)
(* (net/http or PanicRecoveryMiddleware keeps the process alive).          *)
(***************************************************************************)
EXTENDS Integers, Sequences, FiniteSets

CONSTANTS
  Producers,       (* goroutines that log                                   *)
  Closers,         (* goroutines that call JSONLogger.Close                 *)
  RequestedSize,   (* the size ConfigureAsync is given                      *)
  WriterIsCloser,  (* whether the writer implements io.Closer               *)
  MaxEntries       (* bound: lines each producer logs                       *)

ASSUME AsyncAssumption ==
  /\ RequestedSize \in Int
  /\ WriterIsCloser \in BOOLEAN
  /\ MaxEntries \in Nat

VARIABLES
  asyncEnabled,  (* JSONLogger.asyncEnabled                                 *)
  asyncChan,     (* the entries in JSONLogger.asyncChan, oldest first       *)
  chanClosed,    (* whether asyncChan has been closed                       *)
  stopClosed,    (* whether asyncStop has been closed                       *)
  writerClosed,  (* whether the writer has been closed                      *)
  calls,         (* calls[p]: lines p has begun to deliver                  *)
  pc,            (* where each producer is in deliverLog                    *)
  wpc,           (* where the worker is in asyncWorker and flushChan        *)
  wmsg,          (* the entries the worker has received and not written     *)
  cpc,           (* where each closer is in Close                           *)
  dropped,       (* the counter observability_dropped_logs_total            *)
  drained,       (* history: what the worker wrote, in order                *)
  direct,        (* history: what the producers wrote themselves            *)
  refused,       (* history: what was written to a closed writer            *)
  queued,        (* history: what was sent on asyncChan, in order           *)
  late           (* history: what was sent after asyncStop was closed       *)

shared  == <<asyncEnabled, asyncChan, chanClosed, stopClosed, writerClosed>>
history == <<drained, direct, refused, queued, late>>
vars == <<shared, calls, pc, wpc, wmsg, cpc, dropped, history>>

Entries == Producers \X (1..MaxEntries)

(* ConfigureAsync's default for a size that is not positive.                *)
Cap == IF RequestedSize <= 0 THEN 4096 ELSE RequestedSize

(* The entry p is delivering.                                               *)
Current(p) == <<p, calls[p]>>

Elements(s) == {s[i] : i \in 1..Len(s)}

-----------------------------------------------------------------------------
(* A logger built by NewJSONLogger, after ConfigureAsync or without it.     *)
(* Without it there is no worker.                                           *)
Init ==
  /\ asyncEnabled \in BOOLEAN
  /\ asyncChan = <<>>
  /\ chanClosed = FALSE
  /\ stopClosed = FALSE
  /\ writerClosed = FALSE
  /\ calls = [p \in Producers |-> 0]
  /\ pc = [p \in Producers |-> "idle"]
  /\ wpc = IF asyncEnabled THEN "select" ELSE "done"
  /\ wmsg = <<>>
  /\ cpc = [c \in Closers |-> "idle"]
  /\ dropped = 0
  /\ drained = <<>>
  /\ direct = {}
  /\ refused = {}
  /\ queued = <<>>
  /\ late = {}

-----------------------------------------------------------------------------
(* deliverLog                                                               *)

(* A new line reaches deliverLog, which reads asyncEnabled.                 *)
Deliver(p) ==
  /\ pc[p] = "idle"
  /\ calls[p] < MaxEntries
  /\ calls' = [calls EXCEPT ![p] = @ + 1]
  /\ pc' = [pc EXCEPT ![p] = IF asyncEnabled THEN "send" ELSE "write"]
  /\ UNCHANGED <<shared, wpc, wmsg, cpc, dropped, history>>

(* The select's send case: there is room in the channel.                    *)
Send(p) ==
  /\ pc[p] = "send"
  /\ ~chanClosed
  /\ Len(asyncChan) < Cap
  /\ asyncChan' = Append(asyncChan, Current(p))
  /\ queued' = Append(queued, Current(p))
  /\ late' = IF stopClosed THEN late \union {Current(p)} ELSE late
  /\ pc' = [pc EXCEPT ![p] = "idle"]
  /\ UNCHANGED <<asyncEnabled, chanClosed, stopClosed, writerClosed, calls,
                 wpc, wmsg, cpc, dropped, drained, direct, refused>>

(* Mutant of FallBack: a full channel really drops the line.                *)
FallBackDrops(p) ==
  /\ pc[p] = "send"
  /\ ~chanClosed
  /\ Len(asyncChan) >= Cap
  /\ dropped' = dropped + 1
  /\ pc' = [pc EXCEPT ![p] = "idle"]
  /\ UNCHANGED <<shared, calls, wpc, wmsg, cpc, history>>

(* The select's default case: the channel is full, the line is counted as   *)
(* dropped and then written on the caller's goroutine.                      *)
FallBack(p) ==
  /\ pc[p] = "send"
  /\ ~chanClosed
  /\ Len(asyncChan) >= Cap
  /\ dropped' = dropped + 1
  /\ pc' = [pc EXCEPT ![p] = "write"]
  /\ UNCHANGED <<shared, calls, wpc, wmsg, cpc, history>>

(* A send on a closed channel panics.                                       *)
SendPanics(p) ==
  /\ pc[p] = "send"
  /\ chanClosed
  /\ pc' = [pc EXCEPT ![p] = "panicked"]
  /\ UNCHANGED <<shared, calls, wpc, wmsg, cpc, dropped, history>>

(* The line is written on the caller's goroutine; a closed writer answers   *)
(* with an error that is discarded.                                         *)
WriteDirect(p) ==
  /\ pc[p] = "write"
  /\ IF writerClosed
     THEN refused' = refused \union {Current(p)} /\ UNCHANGED direct
     ELSE direct' = direct \union {Current(p)} /\ UNCHANGED refused
  /\ pc' = [pc EXCEPT ![p] = "idle"]
  /\ UNCHANGED <<shared, calls, wpc, wmsg, cpc, dropped, drained, queued,
                 late>>

Producer(p) ==
  Deliver(p) \/ Send(p) \/ FallBack(p) \/ SendPanics(p) \/ WriteDirect(p)

-----------------------------------------------------------------------------
(* asyncWorker and flushChan.  Their !ok branches need a closed asyncChan   *)
(* while the worker runs: TeardownOrder says there is none.                 *)

Receive ==
  /\ asyncChan # <<>>
  /\ wmsg' = <<Head(asyncChan)>>
  /\ asyncChan' = Tail(asyncChan)
  /\ UNCHANGED <<asyncEnabled, chanClosed, stopClosed, writerClosed, calls,
                 pc, cpc, dropped, history>>

(* l.writer.Write on the worker's goroutine.                                *)
WriteReceived ==
  /\ drained' = drained \o wmsg
  /\ wmsg' = <<>>
  /\ UNCHANGED <<shared, calls, pc, cpc, dropped, direct, refused, queued,
                 late>>

WorkerReceive == wpc = "select" /\ wpc' = "write" /\ Receive
WorkerWrite   == wpc = "write" /\ wpc' = "select" /\ WriteReceived

(* Mutant of WorkerStop: the worker returns without flushing.               *)
WorkerStopNoFlush ==
  /\ wpc = "select"
  /\ stopClosed
  /\ wpc' = "done"
  /\ UNCHANGED <<shared, calls, pc, wmsg, cpc, dropped, history>>

(* The select's stop case; Go chooses freely between two ready cases.       *)
WorkerStop ==
  /\ wpc = "select"
  /\ stopClosed
  /\ wpc' = "flush"
  /\ UNCHANGED <<shared, calls, pc, wmsg, cpc, dropped, history>>

(* Mutant of FlushReceive: what flushChan receives is thrown away.          *)
FlushDiscards ==
  /\ wpc = "flush"
  /\ asyncChan # <<>>
  /\ asyncChan' = Tail(asyncChan)
  /\ UNCHANGED <<asyncEnabled, chanClosed, stopClosed, writerClosed, calls,
                 pc, wpc, wmsg, cpc, dropped, history>>

FlushReceive == wpc = "flush" /\ wpc' = "flushWrite" /\ Receive

FlushWrite   == wpc = "flushWrite" /\ wpc' = "flush" /\ WriteReceived

(* Mutant of FlushDone: the flush goes on until asyncChan is closed.        *)
FlushUntilClosed ==
  /\ wpc = "flush"
  /\ asyncChan = <<>>
  /\ chanClosed
  /\ wpc' = "done"
  /\ UNCHANGED <<shared, calls, pc, wmsg, cpc, dropped, history>>

(* flushChan finds the channel empty; the worker signals asyncWg.           *)
FlushDone ==
  /\ wpc = "flush"
  /\ asyncChan = <<>>
  /\ wpc' = "done"
  /\ UNCHANGED <<shared, calls, pc, wmsg, cpc, dropped, history>>

Worker ==
  \/ WorkerReceive \/ WorkerWrite \/ WorkerStop
  \/ FlushReceive \/ FlushWrite \/ FlushDone

-----------------------------------------------------------------------------
(* Close                                                                    *)

CloserAt(c, from, to) ==
  /\ cpc[c] = from
  /\ cpc' = [cpc EXCEPT ![c] = to]
  /\ UNCHANGED <<calls, pc, wpc, wmsg, dropped, history>>

(* Close reads asyncEnabled.                                                *)
CloseCall(c) ==
  /\ CloserAt(c, "idle", IF asyncEnabled THEN "stop" ELSE "closeWriter")
  /\ UNCHANGED shared

(* close(l.asyncStop)                                                       *)
CloseStop(c) ==
  /\ ~stopClosed
  /\ CloserAt(c, "stop", "wait")
  /\ stopClosed' = TRUE
  /\ UNCHANGED <<asyncEnabled, asyncChan, chanClosed, writerClosed>>

(* Closing asyncStop a second time panics.                                  *)
CloseStopPanics(c) ==
  /\ stopClosed
  /\ CloserAt(c, "stop", "panicked")
  /\ UNCHANGED shared

(* Mutant of CloseWait: Close does not wait for the worker.                 *)
CloseNoWait(c) ==
  /\ CloserAt(c, "wait", "closeChan")
  /\ UNCHANGED shared

(* l.asyncWg.Wait()                                                         *)
CloseWait(c) ==
  /\ wpc = "done"
  /\ CloserAt(c, "wait", "closeChan")
  /\ UNCHANGED shared

(* close(l.asyncChan): only the closer that closed asyncStop comes here.    *)
CloseChan(c) ==
  /\ CloserAt(c, "closeChan", "disable")
  /\ chanClosed' = TRUE
  /\ UNCHANGED <<asyncEnabled, asyncChan, stopClosed, writerClosed>>

CloseDisable(c) ==
  /\ CloserAt(c, "disable", "closeWriter")
  /\ asyncEnabled' = FALSE
  /\ UNCHANGED <<asyncChan, chanClosed, stopClosed, writerClosed>>

CloseWriter(c) ==
  /\ CloserAt(c, "closeWriter", "done")
  /\ writerClosed' = (writerClosed \/ WriterIsCloser)
  /\ UNCHANGED <<asyncEnabled, asyncChan, chanClosed, stopClosed>>

Closer(c) ==
  \/ CloseCall(c) \/ CloseStop(c) \/ CloseStopPanics(c) \/ CloseWait(c)
  \/ CloseChan(c) \/ CloseDisable(c) \/ CloseWriter(c)

Next ==
  \/ \E p \in Producers : Producer(p)
  \/ Worker
  \/ \E c \in Closers : Closer(c)

(* The Go scheduler runs every goroutine that can run.  Nobody has to call  *)
(* the logger, or Close: only a call that has begun must go on.             *)
Fairness ==
  /\ \A p \in Producers : WF_vars(pc[p] # "idle" /\ Producer(p))
  /\ WF_vars(Worker)
  /\ \A c \in Closers : WF_vars(cpc[c] # "idle" /\ Closer(c))

Spec == Init /\ [][Next]_vars /\ Fairness

-----------------------------------------------------------------------------
TypeOK ==
  /\ asyncEnabled \in BOOLEAN
  /\ chanClosed \in BOOLEAN
  /\ stopClosed \in BOOLEAN
  /\ writerClosed \in BOOLEAN
  /\ asyncChan \in Seq(Entries)
  /\ Len(asyncChan) <= Cap
  /\ calls \in [Producers -> 0..MaxEntries]
  /\ pc \in [Producers -> {"idle", "send", "write", "panicked"}]
  /\ \A p \in Producers : pc[p] # "idle" => calls[p] >= 1
  /\ wpc \in {"select", "write", "flush", "flushWrite", "done"}
  /\ wmsg \in Seq(Entries)
  /\ cpc \in [Closers -> {"idle", "stop", "wait", "closeChan", "disable",
                          "closeWriter", "done", "panicked"}]
  /\ dropped \in Nat
  /\ drained \in Seq(Entries)
  /\ queued \in Seq(Entries)
  /\ direct \subseteq Entries
  /\ refused \subseteq Entries
  /\ late \subseteq Entries

(* asyncWorker and flushChan hand the writer what was sent on asyncChan,    *)
(* in that order, and leave nothing out: what was sent is what is written,  *)
(* then what the worker holds, then what the channel holds.                 *)
QueueConservation == queued = drained \o wmsg \o asyncChan

(* Close (logger.go:317, "flushes all pending logs"): once the worker has   *)
(* returned, whatever is still in the channel was sent after Close had      *)
(* closed asyncStop.  No entry sent before that is left behind.             *)
OnlyLateEntriesStranded ==
  wpc = "done" => \A i \in 1..Len(asyncChan) : asyncChan[i] \in late

(* Close takes the channel and the writer away only from a worker that has  *)
(* returned, so that the worker never receives from a closed channel and    *)
(* never writes to a closed writer; this with two Close calls racing.       *)
TeardownOrder == chanClosed \/ writerClosed => wpc = "done" /\ wmsg = <<>>

(* Refinement: an entry is pending while deliverLog, the channel or the     *)
(* worker has it.  It is lost when it is written to a closed writer, when   *)
(* its send panics, and when it sits in a channel without a worker.         *)
InHand(p) == IF pc[p] \in {"send", "write"} THEN {Current(p)} ELSE {}
Panicked  == {p \in Producers : pc[p] = "panicked"}
InChan    == Elements(asyncChan)
Pending   == (UNION {InHand(p) : p \in Producers}) \union Elements(wmsg)
               \union (IF wpc = "done" THEN {} ELSE InChan)
Written   == Elements(drained) \union direct
Lost      == refused \union {Current(p) : p \in Panicked}
               \union (IF wpc = "done" THEN InChan ELSE {})

Sink == INSTANCE LogSink WITH
  pending <- Pending, written <- Written, lost <- Lost,
  closing <- stopClosed \/ writerClosed

(* The logger with its channel, worker and fallback implements the sink:    *)
(* every entry is resolved eventually, and lost only once a Close began.    *)
ImplementsSink == Sink!Spec

(* A Close that is the first to stop the worker returns: it never waits for *)
(* a worker that waits for it, whatever is still in the channel.            *)
CloseReturns ==
  \A c \in Closers : cpc[c] = "wait" ~> cpc[c] = "done"
=============================================================================
