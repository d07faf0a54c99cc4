-------------------------- MODULE OTLPExporterProofs --------------------------
(***************************************************************************)
(* The safety of OTLPExporter for any number of goroutines that export or  *)
(* close, any capacity of the channels and any number of items: order,     *)
(* posting once, and what a Close that returns leaves behind.              *)
(***************************************************************************)
EXTENDS OTLPExporter, SequenceTheorems, TLAPS

(* What is still in a channel was queued after stopChan was closed.         *)
OnlyLate(k) == \A i \in 1..Len(chan[k]) : chan[k][i] \in late

(* drain goes through the spans, then the logs, then posts both.            *)
Drained ==
  /\ wpc \in {"drainSpans", "drainLogs", "lastSpans", "lastLogs", "done"}
       => stopClosed
  /\ wpc \in {"drainLogs", "lastSpans", "lastLogs", "done"} => OnlyLate("span")
  /\ wpc \in {"lastSpans", "lastLogs", "done"} => OnlyLate("log")
  /\ wpc \in {"lastLogs", "done"} => batch["span"] = <<>>
  /\ wpc = "done" => batch["log"] = <<>>

(* wg.Wait returns only when the worker has.                                *)
WaitEnds == \A c \in Closers : cpc[c] = "done" => wpc = "done"

IInv == TypeOK /\ PostedOnceInOrder /\ Drained /\ WaitEnds

-----------------------------------------------------------------------------
(* Named, so that the provers instantiate the law only where it is cited.   *)
Assoc(r, b, q) == (r \o b) \o q = r \o (b \o q)

LEMMA Associative == \A r, b, q \in Seq(Items) : Assoc(r, b, q)
BY ConcatAssociative DEF Assoc

LEMMA AppendToChannel ==
  ASSUME NEW r \in Seq(Items), NEW b \in Seq(Items), NEW q \in Seq(Items), NEW e \in Items
  PROVE  Append(r \o b \o q, e) = r \o b \o Append(q, e)
<1>1. r \o b \in Seq(Items) /\ <<e>> \in Seq(Items) /\ r \o b \o q \in Seq(Items)
  BY ConcatProperties
<1>2. Append(r \o b \o q, e) = (r \o b \o q) \o <<e>>
  BY <1>1, AppendIsConcat
<1>3. (r \o b \o q) \o <<e>> = r \o b \o (q \o <<e>>)
  <2>1. Assoc(r \o b, q, <<e>>)
    BY <1>1, Associative, Zenon
  <2> QED
    BY <2>1, Zenon DEF Assoc
<1>4. q \o <<e>> = Append(q, e)
  BY AppendIsConcat
<1> QED
  BY <1>2, <1>3, <1>4

(* A receive moves the head of the channel to the end of the batch.         *)
LEMMA ReceiveMovesHead ==
  ASSUME NEW r \in Seq(Items), NEW b \in Seq(Items), NEW q \in Seq(Items), q # <<>>
  PROVE  /\ Head(q) \in Items /\ Tail(q) \in Seq(Items) /\ Len(Tail(q)) = Len(q) - 1
         /\ \A i \in 1..Len(Tail(q)) : Tail(q)[i] = q[i + 1]
         /\ r \o b \o q = r \o Append(b, Head(q)) \o Tail(q)
<1>1. /\ Head(q) \in Items /\ Tail(q) \in Seq(Items) /\ Len(Tail(q)) = Len(q) - 1
      /\ \A i \in 1..Len(Tail(q)) : Tail(q)[i] = q[i + 1]
  BY HeadTailProperties
<1>2. <<Head(q)>> \in Seq(Items) /\ q = <<Head(q)>> \o Tail(q)
  BY <1>1
<1>3. Append(b, Head(q)) = b \o <<Head(q)>>
  BY <1>1, AppendIsConcat
<1>4. (r \o b) \o (<<Head(q)>> \o Tail(q)) = ((r \o b) \o <<Head(q)>>) \o Tail(q)
  <2>1. r \o b \in Seq(Items)
    BY ConcatProperties
  <2>2. Assoc(r \o b, <<Head(q)>>, Tail(q))
    BY <1>1, <1>2, <2>1, Associative, Zenon
  <2> QED
    BY <2>2, Zenon DEF Assoc
<1>5. (r \o b) \o <<Head(q)>> = r \o (b \o <<Head(q)>>)
  <2>1. Assoc(r, b, <<Head(q)>>)
    BY <1>2, Associative, Zenon
  <2> QED
    BY <2>1, Zenon DEF Assoc
<1> DEFINE h == Head(q)
           t == Tail(q)
<1>6. r \o b \o q = r \o Append(b, h) \o t
  <2>1. q = <<h>> \o t /\ Append(b, h) = b \o <<h>>
    BY <1>2, <1>3
  <2>2. (r \o b) \o (<<h>> \o t) = ((r \o b) \o <<h>>) \o t
    BY <1>4
  <2>3. (r \o b) \o <<h>> = r \o (b \o <<h>>)
    BY <1>5
  <2> HIDE DEF h, t
  <2> QED
    BY <2>1, <2>2, <2>3, Zenon
<1> QED
  BY <1>1, <1>6

(* A post moves the batch to the end of what was posted.                    *)
LEMMA PostMovesBatch ==
  ASSUME NEW S, NEW r \in Seq(S), NEW b \in Seq(S), NEW q \in Seq(S)
  PROVE  r \o b \in Seq(S) /\ r \o b \o q = (r \o b) \o <<>> \o q
BY ConcatProperties, ConcatEmptySeq

(* What two sequences hold one after the other, one of them holds.          *)
LEMMA ElementOfConcat ==
  ASSUME NEW r \in Seq(Items), NEW q \in Seq(Items), NEW i \in 1..Len(r \o q)
  PROVE  \/ \E j \in 1..Len(r) : (r \o q)[i] = r[j]
         \/ \E j \in 1..Len(q) : (r \o q)[i] = q[j]
<1>1. Len(r) \in Nat /\ Len(q) \in Nat /\ Len(r \o q) = Len(r) + Len(q)
  BY ConcatProperties, LenProperties
<1>2. i \in 1..(Len(r) + Len(q))
  BY <1>1
<1>3. (r \o q)[i] = IF i <= Len(r) THEN r[i] ELSE q[i - Len(r)]
  BY <1>2, ConcatProperties
<1>4. CASE i <= Len(r)
  BY <1>1, <1>2, <1>3, <1>4
<1>5. CASE ~ i <= Len(r)
  <2>1. i - Len(r) \in 1..Len(q)
    BY <1>1, <1>2, <1>5
  <2> QED
    BY <1>3, <1>5, <2>1
<1> QED
  BY <1>4, <1>5

-----------------------------------------------------------------------------
LEMMA InitIInv == Init => IInv
<1> SUFFICES ASSUME Init PROVE IInv
  OBVIOUS
<1>1. <<>> \in Seq(Items) /\ Len(<<>>) = 0 /\ QueueSize \in Nat
      /\ <<>> \o <<>> \o <<>> = <<>>
  BY EmptySeq, ConcatEmptySeq, ExporterAssumption
<1>2. TypeOK
  <2>1. /\ Nothing \in [Kinds -> Seq(Items)]
        /\ \A k \in Kinds : Len(Nothing[k]) <= QueueSize
    BY <1>1, ExporterAssumption DEF Nothing
  <2>2. exports \in [Producers -> 0..MaxItems]
    BY ExporterAssumption DEF Init
  <2>3. cpc \in [Closers -> {"idle", "wait", "done", "panicked"}]
    BY DEF Init
  <2> QED
    BY <2>1, <2>2, <2>3 DEF Init, TypeOK
<1>3. PostedOnceInOrder
  BY <1>1 DEF Init, PostedOnceInOrder, Nothing, Kinds
<1> QED
  BY <1>2, <1>3 DEF Init, IInv, Drained, WaitEnds

(* Every receive, by the worker's select and by the two loops of drain.     *)
LEMMA ReceiveKeeps ==
  ASSUME IInv, NEW k \in Kinds, Receive(k), UNCHANGED wpc,
         wpc \in {"select", "drainSpans"} \/ (wpc = "drainLogs" /\ k = "log")
  PROVE  IInv'
<1> DEFINE q == chan[k]
           b == batch[k]
<1>1. /\ q \in Seq(Items) /\ b \in Seq(Items) /\ q # <<>>
      /\ resolved[k] \in Seq(Items) /\ Len(q) <= QueueSize /\ Len(q) \in Nat
  BY DEF IInv, TypeOK, Receive
<1>2. /\ chan' = [chan EXCEPT ![k] = Tail(q)]
      /\ batch' = [batch EXCEPT ![k] = Append(b, Head(q))]
      /\ UNCHANGED <<stopClosed, cpc, exports, dropped, errors, queued, resolved,
                     failed, late, wpc>>
  BY DEF Receive
<1>3. /\ Head(q) \in Items /\ Tail(q) \in Seq(Items) /\ Len(Tail(q)) = Len(q) - 1
      /\ \A i \in 1..Len(Tail(q)) : Tail(q)[i] = q[i + 1]
      /\ resolved[k] \o b \o q = resolved[k] \o Append(b, Head(q)) \o Tail(q)
  <2> HIDE DEF q, b
  <2>1. resolved[k] \o b \o q = resolved[k] \o Append(b, Head(q)) \o Tail(q)
    BY <1>1, ReceiveMovesHead
  <2> QED
    BY <1>1, <2>1, HeadTailProperties
<1>4. Append(b, Head(q)) \in Seq(Items)
  BY <1>1, <1>3, AppendProperties
<1> HIDE DEF q, b
<1>5. TypeOK'
  BY <1>1, <1>2, <1>3, <1>4, ExporterAssumption DEF IInv, TypeOK
<1>6. PostedOnceInOrder'
  <2>1. queued[k] = resolved[k] \o b \o q
    BY DEF IInv, PostedOnceInOrder, q, b
  <2> QED
    BY <1>2, <1>3, <2>1 DEF IInv, TypeOK, PostedOnceInOrder
<1>7. \A j \in Kinds : OnlyLate(j) => OnlyLate(j)'
  <2> TAKE j \in Kinds
  <2> HAVE OnlyLate(j)
  <2>1. CASE j # k
    BY <1>2, <2>1 DEF OnlyLate, IInv, TypeOK
  <2>2. CASE j = k
    <3>1. chan'[j] = Tail(q) /\ late' = late
      BY <1>2, <2>2 DEF IInv, TypeOK
    <3>2. \A i \in 1..Len(q) : q[i] \in late
      BY <2>2 DEF OnlyLate, q
    <3>3. \A i \in 1..Len(Tail(q)) : i + 1 \in 1..Len(q)
      BY <1>1, <1>3
    <3> QED
      BY <1>3, <3>1, <3>2, <3>3 DEF OnlyLate
  <2> QED
    BY <2>1, <2>2
<1>8. Drained'
  BY <1>2, <1>7 DEF IInv, Drained, Kinds
<1>9. WaitEnds'
  BY <1>2 DEF IInv, WaitEnds
<1> QED
  BY <1>5, <1>6, <1>8, <1>9 DEF IInv

(* Every post, of a tick and of the drain.                                  *)
LEMMA PostKeeps ==
  ASSUME IInv, NEW k \in Kinds, Post(k),
         wpc' \in {"select", "postLogs", "lastLogs", "done"},
         wpc' = "lastLogs" => wpc = "lastSpans" /\ k = "span",
         wpc' = "done" => wpc = "lastLogs" /\ k = "log",
         wpc # "done"
  PROVE  IInv'
<1> DEFINE b == batch[k]
<1>1. /\ b \in Seq(Items) /\ resolved[k] \in Seq(Items) /\ chan[k] \in Seq(Items)
      /\ queued[k] = resolved[k] \o b \o chan[k]
  BY DEF IInv, TypeOK, PostedOnceInOrder
<1>2. /\ resolved' = [resolved EXCEPT ![k] = @ \o b]
      /\ batch' = [batch EXCEPT ![k] = <<>>]
      /\ UNCHANGED <<chan, stopClosed, cpc, exports, dropped, queued, late>>
  BY DEF Post, Payload
<1>3. errors' \in Nat /\ failed' \subseteq Items
  <2>1. Elements(b) \subseteq Items
    BY <1>1, ElementOfSeq DEF Elements
  <2> QED
    BY <2>1 DEF Post, IInv, TypeOK
<1>4. /\ resolved[k] \o b \in Seq(Items) /\ <<>> \in Seq(Items)
      /\ resolved[k] \o b \o chan[k] = (resolved[k] \o b) \o <<>> \o chan[k]
  BY <1>1, PostMovesBatch, EmptySeq
<1> HIDE DEF b
<1>5. TypeOK'
  BY <1>2, <1>3, <1>4 DEF IInv, TypeOK
<1>6. PostedOnceInOrder'
  BY <1>1, <1>2, <1>4 DEF IInv, TypeOK, PostedOnceInOrder
<1>7. Drained'
  BY <1>2 DEF IInv, TypeOK, Drained, OnlyLate, Kinds
<1>8. WaitEnds'
  BY <1>2 DEF IInv, WaitEnds
<1> QED
  BY <1>5, <1>6, <1>7, <1>8 DEF IInv

LEMMA ExportKeeps ==
  ASSUME IInv, NEW p \in Producers, NEW k \in Kinds, Export(p, k)
  PROVE  IInv'
<1> DEFINE item == <<p, exports'[p]>>
<1>1. /\ exports' \in [Producers -> 0..MaxItems] /\ item \in Items
      /\ UNCHANGED <<batch, stopClosed, wpc, cpc, errors, resolved, failed>>
  <2>1. /\ exports[p] \in 0..MaxItems /\ exports[p] < MaxItems
        /\ exports' = [exports EXCEPT ![p] = @ + 1]
        /\ UNCHANGED <<batch, stopClosed, wpc, cpc, errors, resolved, failed>>
    BY DEF Export, IInv, TypeOK
  <2>2. exports[p] + 1 \in 1..MaxItems
    BY <2>1, ExporterAssumption
  <2>3. exports' \in [Producers -> 0..MaxItems] /\ exports'[p] = exports[p] + 1
    BY <2>1, <2>2, ExporterAssumption DEF IInv, TypeOK
  <2> QED
    BY <2>1, <2>2, <2>3 DEF Items
<1> HIDE DEF item
<1>2. CASE /\ Len(chan[k]) < QueueSize
           /\ chan' = [chan EXCEPT ![k] = Append(@, item)]
           /\ queued' = [queued EXCEPT ![k] = Append(@, item)]
           /\ late' = IF stopClosed THEN late \union {item} ELSE late
           /\ UNCHANGED dropped
  <2>1. /\ chan[k] \in Seq(Items) /\ batch[k] \in Seq(Items)
        /\ resolved[k] \in Seq(Items) /\ queued[k] \in Seq(Items)
    BY DEF IInv, TypeOK
  <2>2. /\ Append(chan[k], item) \in Seq(Items) /\ Append(queued[k], item) \in Seq(Items)
        /\ Len(Append(chan[k], item)) = Len(chan[k]) + 1 /\ Len(chan[k]) \in Nat
        /\ \A i \in 1..Len(chan[k]) : Append(chan[k], item)[i] = chan[k][i]
        /\ Append(chan[k], item)[Len(chan[k]) + 1] = item
    BY <1>1, <2>1, AppendProperties
  <2>3. TypeOK'
    BY <1>1, <1>2, <2>2, ExporterAssumption DEF IInv, TypeOK
  <2>4. PostedOnceInOrder'
    <3>1. queued[k] = resolved[k] \o batch[k] \o chan[k]
      BY DEF IInv, PostedOnceInOrder
    <3>2. Append(resolved[k] \o batch[k] \o chan[k], item)
            = resolved[k] \o batch[k] \o Append(chan[k], item)
      <4> DEFINE r == resolved[k]
                 b == batch[k]
                 q == chan[k]
      <4>1. r \in Seq(Items) /\ b \in Seq(Items) /\ q \in Seq(Items) /\ item \in Items
        BY <1>1, <2>1
      <4> HIDE DEF r, b, q
      <4>2. Append(r \o b \o q, item) = r \o b \o Append(q, item)
        BY <4>1, AppendToChannel, Zenon
      <4> QED
        BY <4>2 DEF r, b, q
    <3>3. Append(queued[k], item) = resolved[k] \o batch[k] \o Append(chan[k], item)
      BY <3>1, <3>2
    <3>4. ASSUME NEW j \in Kinds
          PROVE  queued'[j] = resolved'[j] \o batch'[j] \o chan'[j]
      <4>1. CASE j = k
        BY <1>1, <1>2, <3>3, <4>1 DEF IInv, TypeOK
      <4>2. CASE j # k
        <5>1. queued'[j] = queued[j] /\ chan'[j] = chan[j]
          BY <1>2, <4>2 DEF IInv, TypeOK
        <5> QED
          BY <1>1, <5>1 DEF IInv, PostedOnceInOrder
      <4> QED
        BY <4>1, <4>2
    <3> QED
      BY <3>4 DEF PostedOnceInOrder
  <2>5. ASSUME stopClosed, NEW j \in Kinds, OnlyLate(j) PROVE OnlyLate(j)'
    <3>1. late' = late \union {item}
      BY <1>2, <2>5
    <3>2. CASE j # k
      BY <1>2, <2>5, <3>1, <3>2 DEF OnlyLate, IInv, TypeOK
    <3>3. CASE j = k
      <4>1. chan'[j] = Append(chan[k], item)
        BY <1>2, <3>3 DEF IInv, TypeOK
      <4>2. \A i \in 1..Len(chan[k]) : chan[k][i] \in late
        BY <2>5, <3>3 DEF OnlyLate
      <4>3. \A i \in 1..(Len(chan[k]) + 1) : i \in 1..Len(chan[k]) \/ i = Len(chan[k]) + 1
        BY <2>2
      <4> QED
        BY <2>2, <3>1, <4>1, <4>2, <4>3 DEF OnlyLate
    <3> QED
      BY <3>2, <3>3
  <2>6. Drained'
    BY <1>1, <2>5 DEF IInv, Drained, Kinds
  <2> QED
    BY <1>1, <2>3, <2>4, <2>6 DEF IInv, WaitEnds
<1>3. CASE dropped' = dropped + 1 /\ UNCHANGED <<chan, queued, late>>
  BY <1>1, <1>3
  DEF IInv, TypeOK, PostedOnceInOrder, Drained, OnlyLate, WaitEnds
<1> QED
  BY <1>2, <1>3 DEF Export, item

LEMMA WorkerKeeps == ASSUME IInv, Worker PROVE IInv'
<1>1. ASSUME NEW k \in Kinds, Collect(k) PROVE IInv'
  BY <1>1, ReceiveKeeps DEF Collect
<1>2. CASE WorkerTick \/ WorkerStop
  BY <1>2 DEF WorkerTick, WorkerStop, WorkerMoves, IInv, TypeOK,
     PostedOnceInOrder, Drained, OnlyLate, WaitEnds
<1>3. CASE DrainSpan
  BY <1>3, ReceiveKeeps DEF DrainSpan, Kinds
<1>4. CASE DrainSpansDone
  <2>1. Len(chan["span"]) = 0
    BY <1>4, EmptySeq DEF DrainSpansDone
  <2> QED
    BY <1>4, <2>1 DEF DrainSpansDone, WorkerMoves, IInv, TypeOK,
       PostedOnceInOrder, Drained, OnlyLate, WaitEnds
<1>5. CASE DrainLog
  BY <1>5, ReceiveKeeps DEF DrainLog, Kinds
<1>6. CASE DrainLogsDone
  <2>1. Len(chan["log"]) = 0
    BY <1>6, EmptySeq DEF DrainLogsDone
  <2> QED
    BY <1>6, <2>1 DEF DrainLogsDone, WorkerMoves, IInv, TypeOK,
       PostedOnceInOrder, Drained, OnlyLate, WaitEnds
<1>7. CASE PostSpans \/ LastSpans
  BY <1>7, PostKeeps DEF PostSpans, LastSpans, Kinds
<1>8. CASE PostLogs \/ LastLogs
  BY <1>8, PostKeeps DEF PostLogs, LastLogs, Kinds
<1> QED
  BY <1>1, <1>2, <1>3, <1>4, <1>5, <1>6, <1>7, <1>8 DEF Worker

LEMMA CloserKeeps == ASSUME IInv, NEW c \in Closers, Closer(c) PROVE IInv'
<1>1. CASE CloseStop(c)
  BY <1>1 DEF CloseStop, CloserAt, IInv, TypeOK, PostedOnceInOrder, Drained,
     OnlyLate, WaitEnds
<1>2. CASE CloseStopPanics(c)
  BY <1>2 DEF CloseStopPanics, CloserAt, IInv, TypeOK, PostedOnceInOrder, Drained,
     OnlyLate, WaitEnds
<1>3. CASE CloseWait(c)
  BY <1>3 DEF CloseWait, CloserAt, IInv, TypeOK, PostedOnceInOrder, Drained,
     OnlyLate, WaitEnds
<1> QED
  BY <1>1, <1>2, <1>3 DEF Closer

LEMMA InductiveInvariant == Spec => []IInv
<1>1. IInv /\ [Next]_vars => IInv'
  <2> SUFFICES ASSUME IInv, [Next]_vars PROVE IInv'
    OBVIOUS
  <2>1. CASE UNCHANGED vars
    BY <2>1 DEF vars, IInv, TypeOK, PostedOnceInOrder, Drained, OnlyLate, WaitEnds
  <2> QED
    BY <2>1, ExportKeeps, WorkerKeeps, CloserKeeps DEF Next
<1> QED
  BY InitIInv, <1>1, PTL DEF Spec

-----------------------------------------------------------------------------
(* The channels never hold more than their capacity, and all else keeps its *)
(* type.                                                                    *)
THEOREM TypeCorrect == Spec => []TypeOK
<1>1. IInv => TypeOK
  BY DEF IInv
<1> QED
  BY <1>1, InductiveInvariant, PTL

(* Every queued item is posted at most once, in the order of its channel.   *)
THEOREM PostsInOrder == Spec => []PostedOnceInOrder
<1>1. IInv => PostedOnceInOrder
  BY DEF IInv
<1> QED
  BY <1>1, InductiveInvariant, PTL

(* When Close returns, everything queued before it began has been posted.   *)
THEOREM CloseDrainsAll == Spec => []CloseDrains
<1>1. IInv => CloseDrains
  <2> SUFFICES ASSUME IInv, NEW c \in Closers, cpc[c] = "done", NEW k \in Kinds,
                      NEW x \in Elements(queued[k]) \ late
               PROVE  x \in Elements(resolved[k])
    BY DEF CloseDrains
  <2>1. /\ OnlyLate(k) /\ batch[k] = <<>>
        /\ resolved[k] \in Seq(Items) /\ chan[k] \in Seq(Items)
    BY DEF IInv, TypeOK, WaitEnds, Drained, Kinds
  <2>2. queued[k] = resolved[k] \o chan[k]
    BY <2>1, ConcatEmptySeq DEF IInv, PostedOnceInOrder
  <2>3. PICK i \in 1..Len(resolved[k] \o chan[k]) : x = (resolved[k] \o chan[k])[i]
    BY <2>2 DEF Elements
  <2>4. \/ \E j \in 1..Len(resolved[k]) : x = resolved[k][j]
        \/ \E j \in 1..Len(chan[k]) : x = chan[k][j]
    BY <2>1, <2>3, ElementOfConcat
  <2> QED
    BY <2>1, <2>4 DEF OnlyLate, Elements
<1> QED
  BY <1>1, InductiveInvariant, PTL
=============================================================================
