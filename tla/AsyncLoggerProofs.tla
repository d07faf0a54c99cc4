-------------------------- MODULE AsyncLoggerProofs --------------------------
(***************************************************************************)
(* The safety of AsyncLogger for any number of goroutines that log or      *)
(* close, any channel size and any number of lines.                        *)
(***************************************************************************)
EXTENDS AsyncLogger, SequenceTheorems, TLAPS

(* The worker holds an entry only between a receive and its write.          *)
HandsEmpty == wpc \in {"select", "flush", "done"} => wmsg = <<>>

(* A logger without a worker: no line ever takes the way of the channel.    *)
Synchronous ==
  /\ ~asyncEnabled
  /\ asyncChan = <<>>
  /\ \A p \in Producers : pc[p] # "send"

(* Only a closed asyncStop ends the worker, unless there was none.          *)
StopEndsWorker ==
  wpc \in {"flush", "flushWrite", "done"} => stopClosed \/ Synchronous

(* Whatever a Close does after asyncWg.Wait, and whatever a reader of the   *)
(* flag can conclude from it, the worker has returned before.               *)
TornDown ==
  \/ ~asyncEnabled
  \/ chanClosed
  \/ writerClosed
  \/ \E c \in Closers : cpc[c] \in {"closeChan", "disable", "closeWriter", "done"}

WorkerFirst == TornDown => wpc = "done"

IInv ==
  /\ TypeOK
  /\ HandsEmpty
  /\ StopEndsWorker
  /\ WorkerFirst
  /\ OnlyLateEntriesStranded
  /\ QueueConservation

-----------------------------------------------------------------------------
(* ConfigureAsync makes a channel with room for one entry at least.         *)
LEMMA CapType == Cap \in Nat \ {0}
BY AsyncAssumption DEF Cap

LEMMA CurrentType ==
  ASSUME TypeOK, NEW p \in Producers, pc[p] # "idle"
  PROVE  Current(p) \in Entries
BY AsyncAssumption DEF TypeOK, Current, Entries

(* A send extends what was sent and what the channel holds alike.           *)
LEMMA AppendToTail ==
  ASSUME NEW d \in Seq(Entries), NEW w \in Seq(Entries),
         NEW q \in Seq(Entries), NEW e \in Entries
  PROVE  Append(d \o w \o q, e) = d \o w \o Append(q, e)
<1>1. d \o w \in Seq(Entries) /\ <<e>> \in Seq(Entries) /\ d \o w \o q \in Seq(Entries)
  BY ConcatProperties
<1>2. Append(d \o w \o q, e) = (d \o w \o q) \o <<e>>
  BY <1>1, AppendIsConcat
<1>3. (d \o w \o q) \o <<e>> = d \o w \o (q \o <<e>>)
  BY <1>1, ConcatAssociative
<1>4. q \o <<e>> = Append(q, e)
  BY AppendIsConcat
<1> QED
  BY <1>2, <1>3, <1>4

(* A receive by an empty-handed worker moves the head of the channel.       *)
LEMMA ReceiveMovesHead ==
  ASSUME NEW S, NEW d \in Seq(S), NEW q \in Seq(S), q # <<>>
  PROVE  /\ Head(q) \in S
         /\ <<Head(q)>> \in Seq(S)
         /\ Tail(q) \in Seq(S)
         /\ Len(Tail(q)) < Len(q)
         /\ d \o <<>> \o q = d \o <<Head(q)>> \o Tail(q)
<1>1. Head(q) \in S /\ Tail(q) \in Seq(S) /\ Len(Tail(q)) = Len(q) - 1
  BY HeadTailProperties
<1>2. <<Head(q)>> \in Seq(S) /\ Len(q) \in Nat
  BY <1>1
<1>3. q = <<Head(q)>> \o Tail(q)
  BY <1>1, <1>2
<1>4. d \o <<>> = d
  BY ConcatEmptySeq
<1>5. d \o (<<Head(q)>> \o Tail(q)) = d \o <<Head(q)>> \o Tail(q)
  BY <1>1, <1>2, ConcatAssociative
<1> QED
  BY <1>1, <1>2, <1>3, <1>4, <1>5

(* A write moves what the worker holds to what it has written.              *)
LEMMA WriteMovesHand ==
  ASSUME NEW S, NEW d \in Seq(S), NEW w \in Seq(S)
  PROVE  d \o w \in Seq(S) /\ (d \o w) \o <<>> = d \o w
BY ConcatProperties, ConcatEmptySeq

-----------------------------------------------------------------------------
LEMMA InitIInv == Init => IInv
<1> SUFFICES ASSUME Init PROVE IInv
  OBVIOUS
<1>1. Cap \in Nat /\ <<>> \in Seq(Entries) /\ Len(<<>>) = 0 /\ MaxEntries \in Nat
  BY CapType, EmptySeq, AsyncAssumption
<1>2. TypeOK
  <2>1. /\ calls \in [Producers -> 0..MaxEntries]
        /\ pc \in [Producers -> {"idle", "send", "write", "panicked"}]
        /\ \A p \in Producers : pc[p] = "idle"
    BY <1>1 DEF Init
  <2>2. cpc \in [Closers -> {"idle", "stop", "wait", "closeChan", "disable",
                            "closeWriter", "done", "panicked"}]
    BY DEF Init
  <2>3. wpc \in {"select", "write", "flush", "flushWrite", "done"}
    BY DEF Init
  <2>4. asyncEnabled \in BOOLEAN /\ chanClosed \in BOOLEAN
        /\ stopClosed \in BOOLEAN /\ writerClosed \in BOOLEAN
    BY DEF Init
  <2>5. /\ asyncChan \in Seq(Entries) /\ Len(asyncChan) <= Cap
        /\ wmsg \in Seq(Entries) /\ drained \in Seq(Entries)
        /\ queued \in Seq(Entries) /\ dropped \in Nat
        /\ direct \subseteq Entries /\ refused \subseteq Entries
        /\ late \subseteq Entries
    BY <1>1 DEF Init
  <2> QED
    BY <2>1, <2>2, <2>3, <2>4, <2>5 DEF TypeOK
<1>3. HandsEmpty /\ StopEndsWorker /\ WorkerFirst
  BY DEF Init, HandsEmpty, StopEndsWorker, Synchronous, WorkerFirst, TornDown
<1>4. OnlyLateEntriesStranded
  BY <1>1 DEF Init, OnlyLateEntriesStranded
<1>5. QueueConservation
  <2>1. <<>> \o <<>> = <<>>
    BY <1>1, ConcatEmptySeq
  <2> QED
    BY <2>1 DEF Init, QueueConservation
<1> QED
  BY <1>2, <1>3, <1>4, <1>5 DEF IInv

-----------------------------------------------------------------------------
LEMMA ProducerIInv ==
  ASSUME IInv, NEW p \in Producers, Producer(p)
  PROVE  IInv'
<1> USE DEF IInv
<1>0. /\ MaxEntries \in Nat /\ Cap \in Nat /\ Entries = Entries
      /\ pc[p] # "idle" => Current(p) \in Entries
  BY CapType, CurrentType, AsyncAssumption
<1>1. CASE Deliver(p)
  <2>1. calls' \in [Producers -> 0..MaxEntries] /\ calls'[p] >= 1
    BY <1>0, <1>1 DEF Deliver, TypeOK
  <2>2. /\ pc' \in [Producers -> {"idle", "send", "write", "panicked"}]
        /\ \A q \in Producers : pc'[q] # "idle" => calls'[q] >= 1
        /\ \A q \in Producers : pc'[q] = "send" => asyncEnabled \/ pc[q] = "send"
    BY <1>0, <1>1 DEF Deliver, TypeOK
  <2>3. UNCHANGED <<shared, wpc, wmsg, cpc, dropped, history>>
    BY <1>1 DEF Deliver
  <2>4. TypeOK'
    BY <2>1, <2>2, <2>3 DEF shared, history, TypeOK
  <2>5. StopEndsWorker'
    BY <2>2, <2>3 DEF shared, StopEndsWorker, Synchronous
  <2> QED
    BY <2>3, <2>4, <2>5 DEF shared, history, HandsEmpty, WorkerFirst, TornDown,
      OnlyLateEntriesStranded, QueueConservation
<1>2. CASE Send(p)
  <2> DEFINE e == Current(p)
  <2>1. /\ pc[p] = "send" /\ e \in Entries /\ Len(asyncChan) < Cap
        /\ asyncChan' = Append(asyncChan, e) /\ queued' = Append(queued, e)
        /\ late' = IF stopClosed THEN late \union {e} ELSE late
        /\ pc' = [pc EXCEPT ![p] = "idle"]
        /\ UNCHANGED <<asyncEnabled, chanClosed, stopClosed, writerClosed, calls,
                       wpc, wmsg, cpc, dropped, drained, direct, refused>>
    BY <1>0, <1>2 DEF Send
  <2> HIDE DEF e
  <2>2. /\ asyncChan' \in Seq(Entries) /\ Len(asyncChan') = Len(asyncChan) + 1
        /\ \A i \in 1..Len(asyncChan) : asyncChan'[i] = asyncChan[i]
        /\ asyncChan'[Len(asyncChan) + 1] = e
    BY <2>1, AppendProperties DEF TypeOK
  <2>3. queued' \in Seq(Entries)
    BY <2>1, AppendProperties DEF TypeOK
  <2>4. /\ pc' \in [Producers -> {"idle", "send", "write", "panicked"}]
        /\ \A q \in Producers : pc'[q] # "idle" => calls'[q] >= 1
    BY <2>1 DEF TypeOK
  <2>5. late' \subseteq Entries /\ late \subseteq late'
    BY <2>1 DEF TypeOK
  <2>6. Len(asyncChan') <= Cap /\ Len(asyncChan) \in Nat
    BY <1>0, <2>1, <2>2, LenProperties DEF TypeOK
  <2>7. TypeOK'
    BY <2>1, <2>2, <2>3, <2>4, <2>5, <2>6 DEF TypeOK
  <2>8. HandsEmpty' /\ WorkerFirst'
    BY <2>1 DEF HandsEmpty, WorkerFirst, TornDown
  <2>9. StopEndsWorker' /\ (wpc = "done" => stopClosed)
    BY <2>1 DEF StopEndsWorker, Synchronous
  <2>10. OnlyLateEntriesStranded'
    <3> SUFFICES ASSUME wpc = "done", NEW i \in 1..Len(asyncChan')
                 PROVE  asyncChan'[i] \in late'
      BY <2>1 DEF OnlyLateEntriesStranded
    <3>1. CASE i \in 1..Len(asyncChan)
      BY <2>2, <2>5, <3>1 DEF OnlyLateEntriesStranded
    <3>2. CASE i = Len(asyncChan) + 1
      BY <2>1, <2>2, <2>9, <3>2
    <3> QED
      BY <2>2, <2>6, <3>1, <3>2
  <2>11. QueueConservation'
    <3>0. /\ drained \in Seq(Entries) /\ wmsg \in Seq(Entries)
          /\ asyncChan \in Seq(Entries) /\ e \in Entries
      BY <2>1 DEF TypeOK
    <3>1. Append(drained \o wmsg \o asyncChan, e)
            = drained \o wmsg \o Append(asyncChan, e)
      BY <3>0, AppendToTail
    <3> QED
      BY <2>1, <3>1 DEF QueueConservation
  <2> QED
    BY <2>7, <2>8, <2>9, <2>10, <2>11
<1>3. CASE FallBack(p) \/ SendPanics(p)
  <2>1. /\ pc' \in [Producers -> {"idle", "send", "write", "panicked"}]
        /\ \A q \in Producers : pc'[q] # "idle" => calls'[q] >= 1
        /\ \A q \in Producers : pc'[q] = "send" => pc[q] = "send"
        /\ dropped' \in Nat
        /\ UNCHANGED <<shared, calls, wpc, wmsg, cpc, history>>
    <3>1. CASE FallBack(p)
      BY <3>1 DEF FallBack, TypeOK
    <3>2. CASE SendPanics(p)
      BY <3>2 DEF SendPanics, TypeOK
    <3> QED
      BY <1>3, <3>1, <3>2
  <2>2. TypeOK' /\ StopEndsWorker'
    BY <2>1 DEF shared, history, TypeOK, StopEndsWorker, Synchronous
  <2> QED
    BY <2>1, <2>2 DEF shared, history, HandsEmpty, WorkerFirst, TornDown,
      OnlyLateEntriesStranded, QueueConservation
<1>4. CASE WriteDirect(p)
  <2>1. /\ pc' \in [Producers -> {"idle", "send", "write", "panicked"}]
        /\ \A q \in Producers : pc'[q] # "idle" => calls'[q] >= 1
        /\ \A q \in Producers : pc'[q] = "send" => pc[q] = "send"
        /\ UNCHANGED <<shared, calls, wpc, wmsg, cpc, dropped, drained, queued, late>>
    BY <1>4 DEF WriteDirect, TypeOK
  <2>2. direct' \subseteq Entries /\ refused' \subseteq Entries
    <3>1. Current(p) \in Entries
      BY <1>0, <1>4 DEF WriteDirect
    <3> QED
      BY <1>4, <3>1 DEF WriteDirect, TypeOK
  <2>3. TypeOK' /\ StopEndsWorker'
    BY <2>1, <2>2 DEF shared, TypeOK, StopEndsWorker, Synchronous
  <2> QED
    BY <2>1, <2>3 DEF shared, HandsEmpty, WorkerFirst, TornDown,
      OnlyLateEntriesStranded, QueueConservation
<1> QED
  BY <1>1, <1>2, <1>3, <1>4 DEF Producer

LEMMA WorkerIInv ==
  ASSUME IInv, Worker
  PROVE  IInv'
<1> USE DEF IInv
<1>1. ASSUME Receive, wpc \in {"select", "flush"}, wpc' \in {"write", "flushWrite"},
             wpc' = "flushWrite" => wpc = "flush"
      PROVE  IInv'
  <2>1. /\ wmsg = <<>> /\ wpc # "done" /\ wpc' # "done" /\ asyncChan # <<>>
        /\ wmsg' = <<Head(asyncChan)>> /\ asyncChan' = Tail(asyncChan)
        /\ UNCHANGED <<asyncEnabled, chanClosed, stopClosed, writerClosed, calls,
                       pc, cpc, dropped, history>>
    BY <1>1 DEF Receive, HandsEmpty
  <2>2. /\ wmsg' \in Seq(Entries) /\ asyncChan' \in Seq(Entries)
        /\ Len(asyncChan') < Len(asyncChan)
        /\ QueueConservation'
    BY <2>1, ReceiveMovesHead DEF history, TypeOK, QueueConservation
  <2>3. Len(asyncChan') <= Cap
    BY <2>2, CapType, LenProperties DEF TypeOK
  <2>4. TypeOK'
    BY <1>1, <2>1, <2>2, <2>3 DEF history, TypeOK
  <2>5. HandsEmpty' /\ OnlyLateEntriesStranded'
    BY <1>1 DEF HandsEmpty, OnlyLateEntriesStranded
  <2>6. StopEndsWorker' /\ WorkerFirst'
    BY <1>1, <2>1 DEF StopEndsWorker, Synchronous, WorkerFirst, TornDown
  <2> QED
    BY <2>2, <2>4, <2>5, <2>6
<1>2. ASSUME WriteReceived, \/ wpc = "write" /\ wpc' = "select"
                            \/ wpc = "flushWrite" /\ wpc' = "flush"
      PROVE  IInv'
  <2>1. /\ wpc # "done" /\ wpc' # "done"
        /\ wmsg' = <<>> /\ drained' = drained \o wmsg
        /\ UNCHANGED <<shared, calls, pc, cpc, dropped, direct, refused, queued, late>>
    BY <1>2 DEF WriteReceived
  <2>2. /\ drained' \in Seq(Entries) /\ wmsg' \in Seq(Entries)
        /\ drained' \o wmsg' = drained \o wmsg
    BY <2>1, WriteMovesHand, EmptySeq DEF TypeOK
  <2>3. TypeOK'
    BY <1>2, <2>1, <2>2 DEF shared, TypeOK
  <2>4. HandsEmpty' /\ OnlyLateEntriesStranded'
    BY <2>1 DEF HandsEmpty, OnlyLateEntriesStranded
  <2>5. StopEndsWorker' /\ WorkerFirst'
    BY <1>2, <2>1 DEF shared, StopEndsWorker, Synchronous, WorkerFirst, TornDown
  <2>6. QueueConservation'
    BY <2>1, <2>2 DEF shared, QueueConservation
  <2> QED
    BY <2>3, <2>4, <2>5, <2>6
<1>3. ASSUME WorkerStop \/ FlushDone PROVE IInv'
  <2>1. /\ wpc \in {"select", "flush"} /\ wpc' \in {"flush", "done"}
        /\ wpc' = "flush" => stopClosed
        /\ wpc' = "done" => wpc = "flush" /\ asyncChan = <<>>
        /\ wpc # "done"
        /\ UNCHANGED <<shared, calls, pc, wmsg, cpc, dropped, history>>
    BY <1>3 DEF WorkerStop, FlushDone
  <2>2. TypeOK'
    BY <2>1 DEF shared, history, TypeOK
  <2>3. HandsEmpty' /\ StopEndsWorker' /\ WorkerFirst'
    BY <2>1 DEF shared, HandsEmpty, StopEndsWorker, Synchronous, WorkerFirst, TornDown
  <2>4. OnlyLateEntriesStranded' /\ QueueConservation'
    BY <2>1 DEF shared, history, OnlyLateEntriesStranded, QueueConservation
  <2> QED
    BY <2>2, <2>3, <2>4
<1> QED
  BY <1>1, <1>2, <1>3 DEF Worker, WorkerReceive, WorkerWrite, FlushReceive, FlushWrite

LEMMA CloserIInv ==
  ASSUME IInv, NEW c \in Closers, Closer(c)
  PROVE  IInv'
<1> USE DEF IInv
<1> DEFINE Points == {"idle", "stop", "wait", "closeChan", "disable",
                      "closeWriter", "done", "panicked"}
           After  == {"closeChan", "disable", "closeWriter", "done"}
(* What every step of Close does: it moves on, past the wait only when the  *)
(* worker has returned, and takes nothing away before that.                 *)
<1>1. /\ cpc' \in [Closers -> Points]
      /\ wpc = "done" \/ \A d \in Closers : cpc'[d] \in After => cpc[d] \in After
      /\ UNCHANGED <<asyncChan, calls, pc, wpc, wmsg, dropped, history>>
      /\ wpc = "done" \/ UNCHANGED <<asyncEnabled, chanClosed, writerClosed>>
      /\ stopClosed => stopClosed'
      /\ ~asyncEnabled => ~asyncEnabled'
      /\ asyncEnabled' \in BOOLEAN /\ chanClosed' \in BOOLEAN
      /\ stopClosed' \in BOOLEAN /\ writerClosed' \in BOOLEAN
  <2>1. CASE CloseCall(c)
    BY <2>1 DEF CloseCall, CloserAt, shared, TypeOK, WorkerFirst, TornDown
  <2>2. CASE CloseStop(c) \/ CloseStopPanics(c) \/ CloseWait(c)
    <3>1. CASE CloseStop(c)
      BY <3>1 DEF CloseStop, CloserAt, TypeOK
    <3>2. CASE CloseStopPanics(c)
      BY <3>2 DEF CloseStopPanics, CloserAt, shared, TypeOK
    <3>3. CASE CloseWait(c)
      BY <3>3 DEF CloseWait, CloserAt, shared, TypeOK
    <3> QED
      BY <2>2, <3>1, <3>2, <3>3
  <2>3. CASE CloseChan(c) \/ CloseDisable(c) \/ CloseWriter(c)
    <3>1. wpc = "done"
      BY <2>3 DEF CloseChan, CloseDisable, CloseWriter, CloserAt, WorkerFirst, TornDown
    <3>2. /\ cpc' \in [Closers -> Points]
          /\ UNCHANGED <<asyncChan, calls, pc, wpc, wmsg, dropped, history>>
          /\ stopClosed' = stopClosed
      BY <2>3 DEF CloseChan, CloseDisable, CloseWriter, CloserAt, TypeOK
    <3>3. /\ ~asyncEnabled => ~asyncEnabled'
          /\ asyncEnabled' \in BOOLEAN /\ chanClosed' \in BOOLEAN
          /\ stopClosed' \in BOOLEAN /\ writerClosed' \in BOOLEAN
      <4>1. CASE CloseChan(c)
        BY <4>1 DEF CloseChan, TypeOK
      <4>2. CASE CloseDisable(c)
        BY <4>2 DEF CloseDisable, TypeOK
      <4>3. CASE CloseWriter(c)
        BY <4>3 DEF CloseWriter, TypeOK
      <4> QED
        BY <2>3, <4>1, <4>2, <4>3
    <3> QED
      BY <3>1, <3>2, <3>3
  <2> QED
    BY <2>1, <2>2, <2>3 DEF Closer
<1> HIDE DEF Points, After
<1>2. TypeOK'
  BY <1>1 DEF Points, history, TypeOK
<1>3. HandsEmpty' /\ StopEndsWorker'
  <2>1. UNCHANGED <<wpc, wmsg, asyncChan, pc>>
    BY <1>1
  <2>2. HandsEmpty'
    BY <2>1 DEF HandsEmpty
  <2>3. Synchronous => Synchronous'
    BY <1>1, <2>1 DEF Synchronous
  <2>4. StopEndsWorker'
    BY <1>1, <2>1, <2>3 DEF StopEndsWorker
  <2> QED
    BY <2>2, <2>4
<1>4. WorkerFirst'
  BY <1>1 DEF After, WorkerFirst, TornDown
<1>5. OnlyLateEntriesStranded' /\ QueueConservation'
  BY <1>1 DEF history, OnlyLateEntriesStranded, QueueConservation
<1> QED
  BY <1>2, <1>3, <1>4, <1>5

LEMMA NextIInv == IInv /\ [Next]_vars => IInv'
<1> SUFFICES ASSUME IInv, [Next]_vars PROVE IInv'
  OBVIOUS
<1>1. CASE UNCHANGED vars
  BY <1>1 DEF vars, shared, history, IInv, TypeOK, HandsEmpty, StopEndsWorker,
    Synchronous, WorkerFirst, TornDown, OnlyLateEntriesStranded, QueueConservation
<1>2. CASE Next
  BY <1>2, ProducerIInv, WorkerIInv, CloserIInv DEF Next
<1> QED
  BY <1>1, <1>2

-----------------------------------------------------------------------------
LEMMA SpecIInv == Spec => []IInv
BY InitIInv, NextIInv, PTL DEF Spec

(* The logger's fields and its goroutines' positions keep their types: the  *)
(* channel never holds more than ConfigureAsync made room for.              *)
THEOREM TypeCorrect == Spec => []TypeOK
<1>1. IInv => TypeOK
  BY DEF IInv
<1> QED
  BY SpecIInv, <1>1, PTL

(* The worker writes exactly what was sent, in the order it was sent, and   *)
(* leaves out nothing but what it still holds or the channel still has.     *)
THEOREM QueueConserved == Spec => []QueueConservation
<1>1. IInv => QueueConservation
  BY DEF IInv
<1> QED
  BY SpecIInv, <1>1, PTL

(* However many goroutines call Close, the channel and the writer are       *)
(* closed only after the worker has written its last entry and returned.    *)
THEOREM TeardownOrdered == Spec => []TeardownOrder
<1>1. IInv => TeardownOrder
  BY DEF IInv, HandsEmpty, WorkerFirst, TornDown, TeardownOrder
<1> QED
  BY SpecIInv, <1>1, PTL

(* What the worker leaves behind was sent after Close had closed asyncStop. *)
THEOREM OnlyLateStranded == Spec => []OnlyLateEntriesStranded
<1>1. IInv => OnlyLateEntriesStranded
  BY DEF IInv
<1> QED
  BY SpecIInv, <1>1, PTL

-----------------------------------------------------------------------------
(* Refinement of LogSink.  Every entry is in one place: nothing is queued   *)
(* twice, and what was queued or written is not being delivered any more.   *)
Past(e) ==
  e[2] <= calls[e[1]] /\ (pc[e[1]] # "idle" => e[2] # calls[e[1]])

Distinct(s) == \A i, j \in 1..Len(s) : s[i] = s[j] => i = j

Placed ==
  /\ \A e \in Elements(queued) \union direct \union refused : Past(e)
  /\ Distinct(queued)
  /\ wpc \in {"write", "flushWrite"} => \E e \in Entries : wmsg = <<e>>

(* What a channel holds after it is extended, divided or joined.            *)
LEMMA ElementsAppend ==
  ASSUME NEW S, NEW s \in Seq(S), NEW e \in S
  PROVE  /\ Elements(Append(s, e)) = Elements(s) \union {e}
         /\ Distinct(s) /\ e \notin Elements(s) => Distinct(Append(s, e))
<1>1. /\ Len(Append(s, e)) = Len(s) + 1 /\ Len(s) \in Nat
      /\ \A i \in 1..Len(s) : Append(s, e)[i] = s[i]
      /\ Append(s, e)[Len(s) + 1] = e
  BY AppendProperties, LenProperties
<1>2. \A i : i \in 1..(Len(s) + 1) <=> i \in 1..Len(s) \/ i = Len(s) + 1
  BY <1>1
<1>3. Elements(Append(s, e)) = Elements(s) \union {e}
  BY <1>1, <1>2 DEF Elements
<1>4. ASSUME Distinct(s), e \notin Elements(s) PROVE Distinct(Append(s, e))
  BY <1>1, <1>2, <1>4 DEF Elements, Distinct
<1> QED
  BY <1>3, <1>4

LEMMA ElementsHead ==
  ASSUME NEW S, NEW s \in Seq(S), s # <<>>
  PROVE  Elements(s) = {Head(s)} \union Elements(Tail(s))
<1>1. /\ Len(s) \in Nat \ {0} /\ Head(s) = s[1] /\ Len(Tail(s)) = Len(s) - 1
      /\ \A i \in 1..Len(Tail(s)) : Tail(s)[i] = s[i + 1]
  BY HeadTailProperties, EmptySeq, LenProperties
<1>2. ASSUME NEW i \in 1..Len(s) PROVE s[i] \in {Head(s)} \union Elements(Tail(s))
  <2>1. CASE i = 1
    BY <1>1, <2>1
  <2>2. CASE i # 1
    <3>1. i - 1 \in 1..Len(Tail(s)) /\ Tail(s)[i - 1] = s[i]
      BY <1>1, <2>2
    <3> QED
      BY <3>1 DEF Elements
  <2> QED
    BY <2>1, <2>2
<1>3. ASSUME NEW i \in 1..Len(Tail(s)) PROVE Tail(s)[i] \in Elements(s)
  <2>1. i + 1 \in 1..Len(s) /\ Tail(s)[i] = s[i + 1]
    BY <1>1
  <2> QED
    BY <2>1 DEF Elements
<1>4. Head(s) \in Elements(s)
  <2>1. 1 \in 1..Len(s)
    BY <1>1
  <2> QED
    BY <1>1, <2>1 DEF Elements
<1> QED
  BY <1>2, <1>3, <1>4 DEF Elements

LEMMA ElementsOfOne ==
  ASSUME NEW e
  PROVE  Elements(<<e>>) = {e} /\ Elements(<<>>) = {}
BY DEF Elements

(* The one entry the worker holds is not in the channel as well.            *)
LEMMA HeldOnce ==
  ASSUME NEW S, NEW d \in Seq(S), NEW e \in S, NEW q \in Seq(S),
         Distinct(d \o <<e>> \o q)
  PROVE  e \notin Elements(q)
<1> DEFINE de == d \o <<e>>
<1>1. de \in Seq(S) /\ Len(de) = Len(d) + 1 /\ de[Len(d) + 1] = e /\ Len(d) \in Nat
  <2>1. <<e>> \in Seq(S) /\ Len(<<e>>) = 1 /\ <<e>>[1] = e
    OBVIOUS
  <2> QED
    BY <2>1, ConcatProperties, LenProperties
<1> HIDE DEF de
<1>2. /\ Len(de \o q) = Len(de) + Len(q) /\ Len(q) \in Nat
      /\ \A i \in 1..(Len(de) + Len(q)) :
           (de \o q)[i] = IF i <= Len(de) THEN de[i] ELSE q[i - Len(de)]
  BY <1>1, ConcatProperties, LenProperties
<1>3. ASSUME NEW i \in 1..Len(q) PROVE q[i] # e
  <2>1. /\ Len(de) \in 1..Len(de \o q) /\ (de \o q)[Len(de)] = e
        /\ Len(de) + i \in 1..Len(de \o q) /\ (de \o q)[Len(de) + i] = q[i]
    BY <1>1, <1>2
  <2>2. Distinct(de \o q)
    BY DEF de
  <2> QED
    BY <1>1, <2>1, <2>2 DEF Distinct
<1> QED
  BY <1>3 DEF Elements

LEMMA ElementsConcat ==
  ASSUME NEW S, NEW s \in Seq(S), NEW t \in Seq(S)
  PROVE  Elements(s \o t) = Elements(s) \union Elements(t)
<1>1. /\ Len(s \o t) = Len(s) + Len(t) /\ Len(s) \in Nat /\ Len(t) \in Nat
      /\ \A i \in 1..(Len(s) + Len(t)) :
           (s \o t)[i] = IF i <= Len(s) THEN s[i] ELSE t[i - Len(s)]
  BY ConcatProperties, LenProperties
<1>2. ASSUME NEW i \in 1..Len(s \o t) PROVE (s \o t)[i] \in Elements(s) \union Elements(t)
  <2>1. CASE i <= Len(s)
    BY <1>1, <2>1 DEF Elements
  <2>2. CASE i > Len(s)
    <3>1. i - Len(s) \in 1..Len(t) /\ (s \o t)[i] = t[i - Len(s)]
      BY <1>1, <2>2
    <3> QED
      BY <3>1 DEF Elements
  <2> QED
    BY <1>1, <2>1, <2>2
<1>3. ASSUME NEW i \in 1..Len(s) PROVE s[i] \in Elements(s \o t)
  <2>1. i \in 1..Len(s \o t) /\ (s \o t)[i] = s[i]
    BY <1>1
  <2> QED
    BY <2>1 DEF Elements
<1>4. ASSUME NEW i \in 1..Len(t) PROVE t[i] \in Elements(s \o t)
  <2>1. i + Len(s) \in 1..Len(s \o t) /\ (s \o t)[i + Len(s)] = t[i]
    BY <1>1
  <2> QED
    BY <2>1 DEF Elements
<1> QED
  BY <1>2, <1>3, <1>4 DEF Elements

LEMMA InitPlaced == Init => Placed
<1> SUFFICES ASSUME Init PROVE Placed
  OBVIOUS
<1>1. Elements(queued) = {} /\ direct = {} /\ refused = {}
  BY ElementsOfOne DEF Init
<1>2. Len(queued) = 0
  BY DEF Init
<1>3. wpc \notin {"write", "flushWrite"}
  BY DEF Init
<1> QED
  BY <1>1, <1>2, <1>3 DEF Placed, Distinct

(* A producer's step leaves what is past there, and the entry it delivers,  *)
(* which is not past before, is past afterwards.                            *)
LEMMA PastKept ==
  ASSUME IInv, NEW p \in Producers, Producer(p), NEW e \in Entries, Past(e)
  PROVE  Past(e)'
<1>0. /\ calls \in [Producers -> 0..MaxEntries] /\ MaxEntries \in Nat
      /\ pc \in [Producers -> {"idle", "send", "write", "panicked"}]
      /\ e[1] \in Producers /\ e[2] \in 1..MaxEntries
  BY AsyncAssumption DEF IInv, TypeOK, Entries
<1>1. CASE Deliver(p)
  <2>1. /\ pc[p] = "idle" /\ calls' = [calls EXCEPT ![p] = @ + 1]
        /\ \A q \in Producers : q # p => pc'[q] = pc[q]
    BY <1>0, <1>1 DEF Deliver
  <2>2. CASE e[1] = p
    <3>1. calls'[e[1]] = calls[e[1]] + 1
      BY <1>0, <2>1, <2>2
    <3>2. calls[e[1]] \in Nat /\ e[2] \in Nat /\ e[2] <= calls[e[1]]
      BY <1>0 DEF Past
    <3> QED
      BY <3>1, <3>2 DEF Past
  <2>3. CASE e[1] # p
    <3>1. calls'[e[1]] = calls[e[1]] /\ pc'[e[1]] = pc[e[1]]
      BY <1>0, <2>1, <2>3
    <3> QED
      BY <3>1 DEF Past
  <2> QED
    BY <2>2, <2>3
<1>2. CASE Send(p) \/ FallBack(p) \/ SendPanics(p) \/ WriteDirect(p)
  <2>1. /\ pc[p] # "idle" /\ calls' = calls
        /\ \A q \in Producers : q # p => pc'[q] = pc[q]
    BY <1>0, <1>2 DEF Send, FallBack, SendPanics, WriteDirect
  <2> QED
    BY <1>0, <2>1 DEF Past
<1> QED
  BY <1>1, <1>2 DEF Producer

LEMMA CurrentNotPast ==
  ASSUME IInv, NEW p \in Producers
  PROVE  /\ pc[p] # "idle" => ~Past(Current(p))
         /\ pc[p] = "idle" => \A n : n = calls[p] + 1 => ~Past(<<p, n>>)
<1>1. calls[p] \in Nat
  BY AsyncAssumption DEF IInv, TypeOK
<1> QED
  BY <1>1 DEF Past, Current

LEMMA NextPlaced == IInv /\ Placed /\ [Next]_vars => Placed'
<1> SUFFICES ASSUME IInv, Placed, [Next]_vars PROVE Placed'
  OBVIOUS
<1>0. /\ queued \in Seq(Entries) /\ direct \subseteq Entries /\ refused \subseteq Entries
      /\ Elements(queued) \subseteq Entries
  BY LenProperties DEF IInv, TypeOK, Elements
<1>1. ASSUME UNCHANGED <<queued, direct, refused, calls, pc>>,
             wpc' \in {"write", "flushWrite"} => \E e \in Entries : wmsg' = <<e>>
      PROVE  Placed'
  BY <1>1 DEF Placed, Past
<1>2. CASE UNCHANGED vars
  BY <1>1, <1>2 DEF vars, history, Placed
<1>3. ASSUME NEW p \in Producers, Producer(p) PROVE Placed'
  <2>1. UNCHANGED <<wpc, wmsg>>
    BY <1>3 DEF Producer, Deliver, Send, FallBack, SendPanics, WriteDirect
  <2>2. \A e \in Elements(queued) \union direct \union refused : Past(e)'
    BY <1>0, <1>3, PastKept DEF Placed
  <2>3. CASE Send(p)
    <3>0. PICK e : e = Current(p)
      OBVIOUS
    <3>1. /\ e \in Entries /\ ~Past(e) /\ queued' = Append(queued, e)
          /\ UNCHANGED <<direct, refused, calls>> /\ pc' = [pc EXCEPT ![p] = "idle"]
          /\ e = <<p, calls[p]>>
      BY <2>3, <3>0, CurrentType, CurrentNotPast DEF Send, Current, IInv
    <3>2. e \notin Elements(queued)
      BY <3>1 DEF Placed
    <3>3. Elements(queued') = Elements(queued) \union {e} /\ Distinct(queued')
      BY <1>0, <3>1, <3>2, ElementsAppend DEF Placed
    <3>4. Past(e)'
      <4>1. calls[p] \in Nat /\ pc'[p] = "idle"
        BY <3>1, AsyncAssumption DEF IInv, TypeOK
      <4> QED
        BY <3>1, <4>1 DEF Past
    <3> QED
      BY <2>1, <2>2, <3>1, <3>3, <3>4 DEF Placed
  <2>4. CASE WriteDirect(p)
    <3>0. PICK e : e = Current(p)
      OBVIOUS
    <3>1. /\ queued' = queued /\ direct' \union refused' = direct \union refused \union {e}
          /\ calls' = calls /\ pc' = [pc EXCEPT ![p] = "idle"] /\ e = <<p, calls[p]>>
      BY <2>4, <3>0 DEF WriteDirect, Current
    <3>2. Past(e)'
      <4>1. calls[p] \in Nat /\ pc'[p] = "idle"
        BY <3>1, AsyncAssumption DEF IInv, TypeOK
      <4> QED
        BY <3>1, <4>1 DEF Past
    <3> QED
      BY <2>1, <2>2, <3>1, <3>2 DEF Placed
  <2>5. CASE Deliver(p) \/ FallBack(p) \/ SendPanics(p)
    <3>1. UNCHANGED <<queued, direct, refused>>
      BY <2>5 DEF Deliver, FallBack, SendPanics, history
    <3> QED
      BY <2>1, <2>2, <3>1 DEF Placed
  <2> QED
    BY <1>3, <2>3, <2>4, <2>5 DEF Producer
<1>4. CASE Worker
  <2>1. ASSUME Receive PROVE \E e \in Entries : wmsg' = <<e>>
    <3>1. Head(asyncChan) \in Entries
      BY <2>1, HeadTailProperties DEF Receive, IInv, TypeOK
    <3> QED
      BY <2>1, <3>1 DEF Receive
  <2>2. UNCHANGED <<queued, direct, refused, calls, pc>>
    BY <1>4 DEF Worker, WorkerReceive, WorkerWrite, WorkerStop, FlushReceive,
      FlushWrite, FlushDone, Receive, WriteReceived, history
  <2>3. wpc' \in {"write", "flushWrite"} => Receive
    BY <1>4 DEF Worker, WorkerReceive, WorkerWrite, WorkerStop, FlushReceive,
      FlushWrite, FlushDone
  <2> QED
    BY <1>1, <2>1, <2>2, <2>3
<1>5. ASSUME NEW c \in Closers, Closer(c) PROVE Placed'
  <2>1. UNCHANGED <<calls, pc, wpc, wmsg, history>>
    BY <1>5 DEF Closer, CloseCall, CloseStop, CloseStopPanics, CloseWait, CloseChan,
      CloseDisable, CloseWriter, CloserAt
  <2> QED
    BY <1>1, <2>1 DEF history, Placed
<1> QED
  BY <1>2, <1>3, <1>4, <1>5 DEF Next

-----------------------------------------------------------------------------
Hands      == {Current(p) : p \in {q \in Producers : pc[q] \in {"send", "write"}}}
Casualties == {Current(p) : p \in Panicked}
Waiting    == IF wpc = "done" THEN {} ELSE InChan
Stranded   == IF wpc = "done" THEN InChan ELSE {}

SinkStep == [Sink!Next]_(Sink!sinkVars)

SinkIs ==
  /\ Pending = Hands \union Elements(wmsg) \union Waiting
  /\ Lost = refused \union Casualties \union Stranded

LEMMA PendingNow == SinkIs
<1>1. UNION {InHand(p) : p \in Producers} = Hands
  BY DEF InHand, Hands
<1>2. Pending = Hands \union Elements(wmsg) \union Waiting
  BY <1>1, Zenon DEF Pending, Waiting
<1>3. Lost = refused \union Casualties \union Stranded
  BY Zenon DEF Lost, Casualties, Stranded
<1> QED
  BY <1>2, <1>3 DEF SinkIs

LEMMA PendingNext == SinkIs'
BY PendingNow, PTL

LEMMA PendingIs ==
  /\ Pending = Hands \union Elements(wmsg) \union Waiting
  /\ Lost = refused \union Casualties \union Stranded
  /\ Pending' = Hands' \union Elements(wmsg') \union Waiting'
  /\ Lost' = refused' \union Casualties' \union Stranded'
BY PendingNow, PendingNext DEF SinkIs

(* What is in hand, what is queued and what was written are apart.          *)
LEMMA Apart ==
  ASSUME IInv, Placed
  PROVE  /\ Elements(drained) \union Elements(wmsg) \union InChan \subseteq Elements(queued)
         /\ \A p \in Producers : pc[p] # "idle" =>
              Current(p) \notin Elements(queued) \union direct \union refused
         /\ \A p \in Producers : \A n : pc[p] = "idle" /\ n = calls[p] + 1 =>
              <<p, n>> \notin Elements(queued) \union direct \union refused
<1>1. /\ drained \in Seq(Entries) /\ wmsg \in Seq(Entries) /\ asyncChan \in Seq(Entries)
      /\ queued = drained \o wmsg \o asyncChan
  BY DEF IInv, TypeOK, QueueConservation
<1>2. drained \o wmsg \in Seq(Entries)
  BY <1>1, ConcatProperties
<1>3. Elements(queued) = Elements(drained \o wmsg) \union Elements(asyncChan)
  <2>1. PICK w \in Seq(Entries) : w = drained \o wmsg
    BY <1>2
  <2>2. Elements(w \o asyncChan) = Elements(w) \union Elements(asyncChan)
    BY <1>1, <2>1, ElementsConcat
  <2> QED
    BY <1>1, <2>1, <2>2
<1>4. Elements(drained \o wmsg) = Elements(drained) \union Elements(wmsg)
  BY <1>1, ElementsConcat, Zenon
<1> QED
  BY <1>3, <1>4, CurrentNotPast DEF Placed, InChan

(* A producer that goes on with the entry it has, or is done with it.       *)
LEMMA HandsMove ==
  ASSUME IInv, NEW p \in Producers, NEW at \in {"idle", "write", "panicked"},
         pc[p] \in {"send", "write"}, pc' = [pc EXCEPT ![p] = at], calls' = calls
  PROVE  /\ Current(p) \in Hands
         /\ Hands' = IF at = "write" THEN Hands ELSE Hands \ {Current(p)}
         /\ Casualties' = IF at = "panicked" THEN Casualties \union {Current(p)}
                                             ELSE Casualties
<1>1. /\ \A q \in Producers : Current(q)' = Current(q) /\ (Current(q) = Current(p) => q = p)
      /\ \A q \in Producers : q # p => pc'[q] = pc[q]
      /\ pc'[p] = at
  BY DEF Current, IInv, TypeOK
<1> QED
  BY <1>1 DEF Hands, Casualties, Panicked

LEMMA SinkRests ==
  ASSUME Pending' = Pending, Lost' = Lost, Written' = Written,
         stopClosed \/ writerClosed => stopClosed' \/ writerClosed'
  PROVE  SinkStep
<1>1. CASE (stopClosed \/ writerClosed)' <=> (stopClosed \/ writerClosed)
  BY <1>1 DEF SinkStep, Sink!sinkVars
<1>2. CASE stopClosed' \/ writerClosed'
  BY <1>2 DEF SinkStep, Sink!Next, Sink!BeginClose
<1> QED
  BY <1>1, <1>2

LEMMA SinkResolves ==
  ASSUME NEW e \in Entries, e \in Pending, Pending' = Pending \ {e},
         UNCHANGED <<stopClosed, writerClosed>>,
         \/ Written' = Written \union {e} /\ Lost' = Lost
         \/ /\ stopClosed \/ writerClosed
            /\ Lost' = Lost \union {e} /\ Written' = Written
  PROVE  SinkStep
<1>1. Sink!Write(e) \/ Sink!Lose(e)
  BY DEF Sink!Write, Sink!Lose
<1> QED
  BY <1>1 DEF SinkStep, Sink!Next, Sink!Resolve

LEMMA ProducerSinks ==
  ASSUME IInv, Placed, NEW p \in Producers, Producer(p)
  PROVE  SinkStep
<1>1. CASE Deliver(p)
  <2>0. PICK e : e = <<p, calls[p] + 1>>
    OBVIOUS
  <2>1. /\ pc[p] = "idle" /\ calls' = [calls EXCEPT ![p] = @ + 1]
        /\ pc'[p] \in {"send", "write"} /\ \A q \in Producers : q # p => pc'[q] = pc[q]
        /\ calls[p] \in Nat /\ calls[p] + 1 \in 1..MaxEntries
        /\ UNCHANGED <<shared, wpc, wmsg, history>>
    BY <1>1, AsyncAssumption DEF Deliver, IInv, TypeOK
  <2>2. e \in Entries
    BY <2>0, <2>1 DEF Entries
  <2>3. /\ Current(p)' = e /\ \A q \in Producers : q # p => Current(q)' = Current(q)
        /\ \A q \in Producers : Current(q) = e => q = p
        /\ Current(p) # e
    BY <2>0, <2>1 DEF Current, IInv, TypeOK
  <2>4. Hands' = Hands \union {e} /\ e \notin Hands
    BY <2>1, <2>3 DEF Hands
  <2>5. Casualties' = Casualties /\ e \notin Casualties
    BY <2>1, <2>3 DEF Casualties, Panicked
  <2>6. e \notin Elements(queued) \union direct \union refused
    BY <2>0, <2>1, Apart
  <2>7. UNCHANGED <<Waiting, Stranded, Written, stopClosed, writerClosed, wmsg, refused>>
    BY <2>1 DEF shared, history, Waiting, Stranded, InChan, Written
  <2>8. Pending' = Pending \union {e} /\ Lost' = Lost
    <3>1. Elements(wmsg') = Elements(wmsg)
      BY <2>7
    <3> QED
      BY <2>4, <2>5, <2>7, <3>1, PendingIs
  <2>9. e \notin Pending \union Written \union Lost
    BY <2>4, <2>5, <2>6, Apart, PendingIs DEF Waiting, Stranded, Written
  <2>10. Sink!Accept(e)
    BY <2>7, <2>8, <2>9 DEF Sink!Accept
  <2> QED
    BY <2>2, <2>10 DEF SinkStep, Sink!Next
<1>2. CASE Send(p)
  <2>0. PICK e : e = Current(p)
    OBVIOUS
  <2>1. /\ pc[p] = "send" /\ e \in Entries /\ asyncChan' = Append(asyncChan, e)
        /\ pc' = [pc EXCEPT ![p] = "idle"]
        /\ UNCHANGED <<stopClosed, writerClosed, calls, wpc, wmsg, drained, direct, refused>>
    BY <1>2, <2>0, CurrentType DEF Send, IInv
  <2>2. e \in Hands /\ Hands' = Hands \ {e} /\ Casualties' = Casualties
    BY <2>0, <2>1, HandsMove
  <2>3. InChan' = InChan \union {e}
    BY <2>1, ElementsAppend DEF InChan, IInv, TypeOK
  <2>4. Written' = Written /\ Elements(wmsg') = Elements(wmsg)
    BY <2>1 DEF Written
  <2>5. CASE wpc # "done"
    <3>1. Waiting' = Waiting \union {e} /\ Stranded' = Stranded
      BY <2>1, <2>3, <2>5 DEF Waiting, Stranded
    <3>2. Pending' = Pending /\ Lost' = Lost
      BY <2>1, <2>2, <2>4, <3>1, PendingIs
    <3> QED
      BY <2>1, <2>4, <3>2, SinkRests
  <2>6. CASE wpc = "done"
    <3>1. Waiting = {} /\ Waiting' = {} /\ Stranded' = Stranded \union {e}
      BY <2>1, <2>3, <2>6 DEF Waiting, Stranded
    <3>2. Elements(wmsg) = {}
      BY <2>6, ElementsOfOne DEF IInv, HandsEmpty
    <3>3. Pending' = Pending \ {e} /\ Lost' = Lost \union {e} /\ e \in Pending
      BY <2>1, <2>2, <2>4, <3>1, <3>2, PendingIs
    <3>4. stopClosed
      BY <2>1, <2>6 DEF IInv, StopEndsWorker, Synchronous
    <3> QED
      BY <2>1, <2>4, <3>3, <3>4, SinkResolves
  <2> QED
    BY <2>5, <2>6
<1>3. CASE FallBack(p)
  <2>1. /\ Hands' = Hands /\ Casualties' = Casualties
        /\ UNCHANGED <<shared, wpc, wmsg, history>>
    BY <1>3, HandsMove DEF FallBack
  <2>2. UNCHANGED <<Waiting, Stranded, Written, stopClosed, writerClosed, refused>>
        /\ Elements(wmsg') = Elements(wmsg)
    BY <2>1 DEF shared, history, Waiting, Stranded, InChan, Written
  <2> QED
    BY <2>1, <2>2, PendingIs, SinkRests
<1>4. CASE SendPanics(p)
  <2>0. PICK e : e = Current(p)
    OBVIOUS
  <2>1. /\ e \in Entries /\ e \in Hands /\ Hands' = Hands \ {e}
        /\ Casualties' = Casualties \union {e} /\ pc[p] = "send"
        /\ UNCHANGED <<shared, wpc, wmsg, history>>
    BY <1>4, <2>0, CurrentType, HandsMove DEF SendPanics, IInv
  <2>2. UNCHANGED <<Waiting, Stranded, Written, stopClosed, writerClosed, refused>>
        /\ Elements(wmsg') = Elements(wmsg)
    BY <2>1 DEF shared, history, Waiting, Stranded, InChan, Written
  <2>3. e \notin Elements(wmsg) /\ e \notin Waiting
    BY <2>0, <2>1, Apart DEF Waiting
  <2>4. Pending' = Pending \ {e} /\ Lost' = Lost \union {e} /\ e \in Pending
    BY <2>1, <2>2, <2>3, PendingIs
  <2>5. stopClosed
    BY <1>4, <2>1 DEF SendPanics, IInv, WorkerFirst, TornDown, StopEndsWorker, Synchronous
  <2> QED
    BY <2>1, <2>2, <2>4, <2>5, SinkResolves
<1>5. CASE WriteDirect(p)
  <2>0. PICK e : e = Current(p)
    OBVIOUS
  <2>1. /\ e \in Entries /\ e \in Hands /\ Hands' = Hands \ {e}
        /\ Casualties' = Casualties /\ pc[p] = "write"
        /\ UNCHANGED <<shared, wpc, wmsg, drained>>
    BY <1>5, <2>0, CurrentType, HandsMove DEF WriteDirect, IInv
  <2>2. UNCHANGED <<Waiting, Stranded, stopClosed, writerClosed>>
        /\ Elements(wmsg') = Elements(wmsg) /\ Elements(drained') = Elements(drained)
    BY <2>1 DEF shared, Waiting, Stranded, InChan
  <2>3. e \notin Elements(wmsg) /\ e \notin Waiting
    BY <2>0, <2>1, Apart DEF Waiting
  <2>4. Pending' = Pending \ {e} /\ e \in Pending
    BY <2>1, <2>2, <2>3, PendingIs
  <2>5. \/ Written' = Written \union {e} /\ Lost' = Lost
        \/ writerClosed /\ Lost' = Lost \union {e} /\ Written' = Written
    <3>1. \/ direct' = direct \union {e} /\ refused' = refused
          \/ writerClosed /\ refused' = refused \union {e} /\ direct' = direct
      BY <1>5, <2>0 DEF WriteDirect
    <3> QED
      BY <2>1, <2>2, <3>1, PendingIs DEF Written
  <2> QED
    BY <2>1, <2>2, <2>4, <2>5, SinkResolves
<1> QED
  BY <1>1, <1>2, <1>3, <1>4, <1>5 DEF Producer

LEMMA WorkerSinks ==
  ASSUME IInv, Placed, Worker
  PROVE  SinkStep
<1>0. UNCHANGED <<pc, calls, refused, direct, stopClosed, writerClosed>>
  BY DEF Worker, WorkerReceive, WorkerWrite, WorkerStop, FlushReceive, FlushWrite,
    FlushDone, Receive, WriteReceived, shared, history
<1>1. Hands' = Hands /\ Casualties' = Casualties
  BY <1>0 DEF Hands, Casualties, Panicked, Current
<1>2. CASE Receive /\ wpc \in {"select", "flush"} /\ wpc' # "done"
  <2>1. /\ wmsg = <<>> /\ wmsg' = <<Head(asyncChan)>> /\ asyncChan' = Tail(asyncChan)
        /\ drained' = drained /\ asyncChan # <<>> /\ asyncChan \in Seq(Entries)
    BY <1>2 DEF Receive, history, IInv, TypeOK, HandsEmpty
  <2>2. /\ Elements(wmsg) = {} /\ Elements(wmsg') = {Head(asyncChan)}
        /\ InChan = {Head(asyncChan)} \union InChan'
    BY <2>1, ElementsOfOne, ElementsHead DEF InChan
  <2>3. /\ Waiting = InChan /\ Waiting' = InChan' /\ Stranded = {} /\ Stranded' = {}
    BY <1>2 DEF Waiting, Stranded
  <2>4. Pending' = Pending /\ Lost' = Lost
    BY <1>0, <1>1, <2>2, <2>3, PendingIs
  <2>5. Written' = Written
    BY <1>0, <2>1 DEF Written
  <2> QED
    BY <1>0, <2>4, <2>5, SinkRests
<1>3. CASE WriteReceived /\ wpc \in {"write", "flushWrite"} /\ wpc' # "done"
  <2>1. PICK e \in Entries : wmsg = <<e>>
    BY <1>3 DEF Placed
  <2>2. /\ wmsg' = <<>> /\ drained' = drained \o <<e>> /\ asyncChan' = asyncChan
        /\ drained \in Seq(Entries) /\ asyncChan \in Seq(Entries) /\ <<e>> \in Seq(Entries)
        /\ queued = drained \o <<e>> \o asyncChan
    BY <1>3, <2>1 DEF WriteReceived, shared, IInv, TypeOK, QueueConservation
  <2>3. Elements(drained') = Elements(drained) \union {e} /\ Elements(wmsg) = {e}
        /\ Elements(wmsg') = {}
    <3>1. Elements(drained \o <<e>>) = Elements(drained) \union Elements(<<e>>)
      BY <2>2, ElementsConcat
    <3>2. Elements(<<e>>) = {e} /\ Elements(<<>>) = {}
      BY ElementsOfOne
    <3> QED
      BY <2>1, <2>2, <3>1, <3>2, Zenon
  <2>4. e \notin InChan
    BY <2>2, HeldOnce DEF Placed, InChan
  <2>5. e \notin Hands
    <3>1. e \in Elements(queued)
      BY <2>3, Apart
    <3> QED
      BY <3>1, Apart DEF Hands
  <2>6. Waiting = InChan /\ Waiting' = InChan /\ Stranded = {} /\ Stranded' = {}
    BY <1>3, <2>2 DEF Waiting, Stranded, InChan
  <2>7. Pending' = Pending \ {e} /\ e \in Pending /\ Lost' = Lost
    BY <1>0, <1>1, <2>3, <2>4, <2>5, <2>6, PendingIs
  <2>8. Written' = Written \union {e}
    BY <1>0, <2>3 DEF Written
  <2> QED
    BY <1>0, <2>1, <2>7, <2>8, SinkResolves
<1>4. CASE WorkerStop \/ FlushDone
  <2>1. /\ UNCHANGED <<wmsg, asyncChan, drained>> /\ wpc # "done"
        /\ wpc' = "done" => asyncChan = <<>>
    BY <1>4 DEF WorkerStop, FlushDone, shared, history
  <2>2. Waiting' = Waiting /\ Stranded' = Stranded
    <3>1. InChan' = InChan /\ (asyncChan = <<>> => InChan = {})
      BY <2>1, ElementsOfOne DEF InChan
    <3> QED
      BY <2>1, <3>1 DEF Waiting, Stranded
  <2>3. Elements(wmsg') = Elements(wmsg) /\ Written' = Written
    BY <1>0, <2>1 DEF Written
  <2>4. Pending' = Pending /\ Lost' = Lost
    BY <1>0, <1>1, <2>2, <2>3, PendingIs
  <2> QED
    BY <1>0, <2>3, <2>4, SinkRests
<1>5. \/ Receive /\ wpc \in {"select", "flush"} /\ wpc' # "done"
      \/ WriteReceived /\ wpc \in {"write", "flushWrite"} /\ wpc' # "done"
      \/ WorkerStop \/ FlushDone
  BY DEF Worker, WorkerReceive, WorkerWrite, FlushReceive, FlushWrite
<1> QED
  BY <1>2, <1>3, <1>4, <1>5

LEMMA RestSinks ==
  ASSUME UNCHANGED <<asyncChan, calls, pc, wpc, wmsg, history>>,
         stopClosed => stopClosed', writerClosed => writerClosed'
  PROVE  SinkStep
<1>1. Hands' = Hands /\ Casualties' = Casualties
  BY DEF Hands, Casualties, Panicked, Current
<1>2. /\ Waiting' = Waiting /\ Stranded' = Stranded /\ Written' = Written
      /\ Elements(wmsg') = Elements(wmsg) /\ refused' = refused
  BY DEF Waiting, Stranded, InChan, Written, history
<1>3. Pending' = Pending /\ Lost' = Lost
  BY <1>1, <1>2, PendingIs
<1> QED
  BY <1>2, <1>3, SinkRests

LEMMA NextSinks == IInv /\ Placed /\ [Next]_vars => SinkStep
<1> SUFFICES ASSUME IInv, Placed, [Next]_vars PROVE SinkStep
  OBVIOUS
<1>1. CASE UNCHANGED vars
  BY <1>1, RestSinks DEF vars, shared
<1>2. ASSUME NEW c \in Closers, Closer(c) PROVE SinkStep
  <2>1. UNCHANGED <<asyncChan, calls, pc, wpc, wmsg, history>>
    BY <1>2 DEF Closer, CloseCall, CloseStop, CloseStopPanics, CloseWait, CloseChan,
      CloseDisable, CloseWriter, CloserAt, shared
  <2>2. (stopClosed => stopClosed') /\ (writerClosed => writerClosed')
    <3>1. CASE CloseWriter(c)
      BY <3>1 DEF CloseWriter
    <3>2. CASE ~CloseWriter(c)
      BY <1>2, <3>2 DEF Closer, CloseCall, CloseStop, CloseStopPanics, CloseWait,
        CloseChan, CloseDisable, shared
    <3> QED
      BY <3>1, <3>2
  <2> QED
    BY <2>1, <2>2, RestSinks
<1> QED
  BY <1>1, <1>2, ProducerSinks, WorkerSinks DEF Next

LEMMA InitSinks == Init => Sink!Init
<1> SUFFICES ASSUME Init PROVE Sink!Init
  OBVIOUS
<1>1. Hands = {} /\ Casualties = {}
  BY DEF Init, Hands, Casualties, Panicked
<1>2. Elements(wmsg) = {} /\ InChan = {} /\ Elements(drained) = {} /\ direct = {}
      /\ refused = {} /\ ~stopClosed /\ ~writerClosed
      /\ stopClosed \in BOOLEAN /\ writerClosed \in BOOLEAN
  BY ElementsOfOne DEF Init, InChan
<1>3. Pending = {} /\ Lost = {} /\ Written = {}
  BY <1>1, <1>2, PendingIs DEF Waiting, Stranded, Written
<1> QED
  BY <1>2, <1>3 DEF Sink!Init

(* The logger implements LogSink, its liveness apart: an entry is written   *)
(* or lost once, in whatever order producers, worker and closers take their *)
(* steps, and none is lost before a Close has stopped the worker or closed  *)
(* the writer.                                                              *)
THEOREM RefinesSink == Spec => Sink!Init /\ [][Sink!Next]_(Sink!sinkVars)
<1>1. Spec => [](IInv /\ Placed)
  BY InitIInv, InitPlaced, NextIInv, NextPlaced, PTL DEF Spec
<1>2. IInv /\ Placed /\ [Next]_vars => [Sink!Next]_(Sink!sinkVars)
  BY NextSinks DEF SinkStep
<1> QED
  BY <1>1, <1>2, InitSinks, PTL DEF Spec
=============================================================================
