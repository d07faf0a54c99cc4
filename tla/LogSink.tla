------------------------------- MODULE LogSink -------------------------------
(***************************************************************************)
(* What a logger promises about its entries, whatever queues and           *)
(* goroutines it uses: an entry handed over stays pending until it is      *)
(* written or lost, it is resolved once, eventually, and none is lost      *)
(* before the logger is being closed.                                      *)
(*                                                                         *)
(* AsyncLogger (observability/logger.go) is shown to implement this.       *)
(***************************************************************************)
CONSTANT Entries

VARIABLES
  pending,  (* entries handed over and not yet resolved                     *)
  written,  (* entries that reached the writer                              *)
  lost,     (* entries that never will                                      *)
  closing   (* whether somebody has begun to close the logger               *)

sinkVars == <<pending, written, lost, closing>>

Init ==
  /\ pending = {}
  /\ written = {}
  /\ lost = {}
  /\ closing = FALSE

Accept(e) ==
  /\ e \notin pending \union written \union lost
  /\ pending' = pending \union {e}
  /\ UNCHANGED <<written, lost, closing>>

Write(e) ==
  /\ e \in pending
  /\ pending' = pending \ {e}
  /\ written' = written \union {e}
  /\ UNCHANGED <<lost, closing>>

Lose(e) ==
  /\ closing
  /\ e \in pending
  /\ pending' = pending \ {e}
  /\ lost' = lost \union {e}
  /\ UNCHANGED <<written, closing>>

BeginClose ==
  /\ closing' = TRUE
  /\ UNCHANGED <<pending, written, lost>>

Resolve(e) == Write(e) \/ Lose(e)

Next ==
  \/ \E e \in Entries : Accept(e) \/ Resolve(e)
  \/ BeginClose

Spec == Init /\ [][Next]_sinkVars /\ \A e \in Entries : WF_sinkVars(Resolve(e))
=============================================================================
