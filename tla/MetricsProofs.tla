----------------------------- MODULE MetricsProofs -----------------------------
(***************************************************************************)
(* What holds of Metrics for any number of recorders and label sets and any *)
(* capacity of the reservoirs: its types, what gauges show, the window of   *)
(* the latest observations, the agreement of percentiles and buckets, the   *)
(* growth of exported histograms, and the tallies of the bridge.            *)
(***************************************************************************)
EXTENDS Metrics, SequenceTheorems, FiniteSetTheorems, WellFoundedInduction, TLAPS

(* A call that has still to write a gauge writes a value that contends.     *)
InsideContends ==
  \A g \in Recorders :
    call[g].step # "idle" /\ call[g].kind = "gauge" =>
      call[g].val \in contenders[call[g].key]

(* The local gauge never shows anything but a contending value.             *)
LocalContends ==
  \A k \in Keys : asked["gauge"][k] > 0 => gauges[k] \in contenders[k]

(* The OpenTelemetry gauge may show an old value as long as a call that     *)
(* will replace it is under way.                                            *)
ForwardContends ==
  \A k \in Keys :
    (bridge /\ asked["gauge"][k] > 0 /\ unforwarded["gauge"][k] = 0) =>
      \/ otelGauges[k] \in contenders[k]
      \/ \E g \in Recorders :
           call[g].step # "idle" /\ call[g].kind = "gauge" /\ call[g].key = k

(* A call under way that records a latency holds a duration.                *)
CallHoldsDuration ==
  \A g \in Recorders :
    call[g].step # "idle" /\ call[g].kind = "latency" => call[g].val \in Durations

IInv == /\ TypeOK
        /\ CallHoldsDuration
        /\ InsideContends
        /\ LocalContends
        /\ ForwardContends

-----------------------------------------------------------------------------
LEMMA InitIInv == Init => IInv
<1> SUFFICES ASSUME Init PROVE IInv
  OBVIOUS
<1>1. <<>> \in Seq(Nat) /\ <<>> \in Seq(Durations) /\ Len(<<>>) = 0 /\ MaxSamples \in Nat
  BY EmptySeq, MetricsAssumption
<1>2. Zero \in Tallies /\ \A k \in Keys : Zero["gauge"][k] = 0
  BY DEF Zero, Tallies, Kinds
<1>3. /\ reservoirs \in [Keys -> Seq(Nat)] /\ observed \in [Keys -> Seq(Durations)]
      /\ \A k \in Keys : Len(reservoirs[k]) <= MaxSamples
  BY <1>1 DEF Init
<1>4. call \in [Recorders -> [step : AllSteps \union {"idle"}, kind : Kinds, key : Keys,
                             val : Durations \union GaugeValues \union {0}]]
  BY DEF Init, Idle, Kinds, Keys
<1>5. TypeOK
  BY <1>2, <1>3, <1>4 DEF Init, TypeOK
<1>6. CallHoldsDuration /\ InsideContends /\ LocalContends /\ ForwardContends
  BY <1>2 DEF Init, Idle, CallHoldsDuration, InsideContends, LocalContends, ForwardContends
<1> QED
  BY <1>5, <1>6 DEF IInv

(* latencyReservoir.Add never grows a reservoir past its capacity.          *)
LEMMA AddedType ==
  ASSUME NEW s \in Seq(Nat), Len(s) <= MaxSamples, NEW v \in Nat
  PROVE  Added(s, v) \in Seq(Nat) /\ Len(Added(s, v)) <= MaxSamples
<1> USE MetricsAssumption
<1>1. Len(s) \in Nat
  BY LenProperties
<1>2. CASE Len(s) >= MaxSamples
  <2>1. s # <<>>
    BY <1>2, EmptySeq
  <2>2. Tail(s) \in Seq(Nat) /\ Len(Tail(s)) = Len(s) - 1
    BY <2>1, HeadTailProperties
  <2> QED
    BY <1>1, <1>2, <2>2, AppendProperties DEF Added
<1>3. CASE ~ Len(s) >= MaxSamples
  BY <1>1, <1>3, AppendProperties DEF Added
<1> QED
  BY <1>2, <1>3

LEMMA MillisecondsType == \A d \in Durations : Milliseconds(d) \in Nat
BY MetricsAssumption DEF Milliseconds

(* The types of the local engine.                                           *)
LocalTypeOK ==
  /\ counters \in [Keys -> Nat]
  /\ latencyTotals \in [Keys -> Nat]
  /\ latencyCounts \in [Keys -> Nat]
  /\ reservoirs \in [Keys -> Seq(Nat)]
  /\ \A k \in Keys : Len(reservoirs[k]) <= MaxSamples
  /\ gauges \in [Keys -> GaugeValues \union {0}]
  /\ observed \in [Keys -> Seq(Durations)]

(* Every local record, the first and the second.                            *)
LEMMA RecordLocallyKeeps ==
  ASSUME LocalTypeOK, NEW kind \in Kinds, NEW k \in Keys, NEW v,
         kind = "latency" => v \in Durations,
         kind = "gauge" => v \in GaugeValues,
         RecordLocally(kind, k, v)
  PROVE  /\ LocalTypeOK'
         /\ kind # "gauge" => UNCHANGED gauges
         /\ kind = "gauge" => gauges' = [gauges EXCEPT ![k] = v]
<1>1. CASE kind = "counter" /\ IncCounter(k)
  BY <1>1 DEF IncCounter, LocalTypeOK
<1>2. CASE kind = "latency" /\ RecordLatency(k, v)
  <2>1. /\ v \in Durations /\ v \in Nat /\ Milliseconds(v) \in Nat
        /\ reservoirs[k] \in Seq(Nat) /\ Len(reservoirs[k]) <= MaxSamples
        /\ observed[k] \in Seq(Durations)
    BY <1>2, MillisecondsType, MetricsAssumption DEF LocalTypeOK
  <2>2. /\ Added(reservoirs[k], Milliseconds(v)) \in Seq(Nat)
        /\ Len(Added(reservoirs[k], Milliseconds(v))) <= MaxSamples
    BY <2>1, AddedType
  <2>3. Append(observed[k], v) \in Seq(Durations)
    BY <2>1, AppendProperties
  <2>4. /\ reservoirs' = [reservoirs EXCEPT ![k] = Added(reservoirs[k], Milliseconds(v))]
        /\ observed' = [observed EXCEPT ![k] = Append(observed[k], v)]
        /\ latencyTotals' = [latencyTotals EXCEPT ![k] = @ + v]
        /\ latencyCounts' = [latencyCounts EXCEPT ![k] = @ + 1]
        /\ UNCHANGED <<counters, gauges>>
    BY <1>2 DEF RecordLatency
  <2>5. /\ reservoirs' \in [Keys -> Seq(Nat)]
        /\ \A j \in Keys : Len(reservoirs'[j]) <= MaxSamples
    BY <2>2, <2>4 DEF LocalTypeOK
  <2>6. observed' \in [Keys -> Seq(Durations)]
    BY <2>3, <2>4 DEF LocalTypeOK
  <2>7. latencyTotals' \in [Keys -> Nat] /\ latencyCounts' \in [Keys -> Nat]
    BY <2>1, <2>4 DEF LocalTypeOK
  <2> QED
    BY <1>2, <2>4, <2>5, <2>6, <2>7 DEF LocalTypeOK
<1>3. CASE kind = "gauge" /\ SetGauge(k, v)
  BY <1>3 DEF SetGauge, LocalTypeOK
<1> QED
  BY <1>1, <1>2, <1>3 DEF RecordLocally

LEMMA TypeSplit ==
  TypeOK <=>
    /\ LocalTypeOK
    /\ bridge \in BOOLEAN
    /\ instruments \subseteq Kinds
    /\ otelGauges \in [Keys -> GaugeValues \union {0}]
    /\ contenders \in [Keys -> SUBSET GaugeValues]
    /\ call \in [Recorders -> [step : AllSteps \union {"idle"}, kind : Kinds, key : Keys,
                               val : Durations \union GaugeValues \union {0}]]
    /\ plain \in [Kinds -> Nat]
    /\ forwarded \in Tallies /\ asked \in Tallies /\ unforwarded \in Tallies
BY DEF TypeOK, LocalTypeOK

LEMMA TallyType ==
  ASSUME NEW t \in Tallies, NEW kind \in Kinds, NEW k \in Keys
  PROVE  [t EXCEPT ![kind][k] = @ + 1] \in Tallies
BY DEF Tallies

-----------------------------------------------------------------------------
LEMMA RecordKeeps ==
  ASSUME IInv, NEW g \in Recorders, NEW kind \in Kinds, NEW k \in Keys,
         NEW v \in Durations \union GaugeValues \union {0},
         kind = "latency" => v \in Durations,
         kind = "gauge" => v \in GaugeValues,
         Record(g, kind, k, v)
  PROVE  IInv'
<1>1. /\ call[g] = Idle
      /\ asked' = [asked EXCEPT ![kind][k] = @ + 1]
      /\ RecordLocally(kind, k, v)
      /\ UNCHANGED <<bridge, instruments, forwarded, otelGauges, unforwarded>>
  BY DEF Record
<1>2. LocalTypeOK' /\ LocalTypeOK
      /\ (kind # "gauge" => UNCHANGED gauges)
      /\ (kind = "gauge" => gauges' = [gauges EXCEPT ![k] = v])
  BY <1>1, TypeSplit, RecordLocallyKeeps DEF IInv
<1>3. /\ contenders' \in [Keys -> SUBSET GaugeValues]
      /\ kind # "gauge" => contenders' = contenders
      /\ kind = "gauge" =>
           /\ v \in contenders'[k]
           /\ \A j \in Keys \ {k} : contenders'[j] = contenders[j]
           /\ \A h \in Inside(AllSteps, "gauge", k) : call[h].val \in contenders'[k]
  <2>1. Pending(k) \in SUBSET GaugeValues
    BY TypeSplit DEF Pending, Inside, AllSteps, IInv, InsideContends
  <2>2. contenders' = IF kind # "gauge" THEN contenders
                      ELSE [contenders EXCEPT ![k] = {v} \union Pending(k)]
    BY DEF Record
  <2>3. CASE kind # "gauge"
    BY <2>2, <2>3, TypeSplit DEF IInv
  <2>4. CASE kind = "gauge"
    <3>1. /\ contenders' = [contenders EXCEPT ![k] = {v} \union Pending(k)]
          /\ {v} \union Pending(k) \in SUBSET GaugeValues
      BY <2>1, <2>2, <2>4
    <3>2. /\ contenders' \in [Keys -> SUBSET GaugeValues]
          /\ contenders'[k] = {v} \union Pending(k)
          /\ \A j \in Keys \ {k} : contenders'[j] = contenders[j]
      BY <3>1, TypeSplit DEF IInv
    <3> QED
      BY <2>4, <3>2 DEF Pending
  <2> QED
    BY <2>3, <2>4
<1>4. \/ ~bridge /\ UNCHANGED call
      \/ /\ bridge
         /\ \E st \in {"again", "instrument"} :
              call' = [call EXCEPT ![g] = [step |-> st, kind |-> kind, key |-> k, val |-> v]]
  BY DEF Record
<1>5. TypeOK'
  <2>1. call' \in [Recorders -> [step : AllSteps \union {"idle"}, kind : Kinds, key : Keys,
                                 val : Durations \union GaugeValues \union {0}]]
    BY <1>4, TypeSplit DEF IInv, AllSteps
  <2>2. asked' \in Tallies
    BY <1>1, TypeSplit, TallyType DEF IInv
  <2>3. plain' = plain \/ plain' = [plain EXCEPT ![kind] = @ + 1]
    BY DEF Record
  <2>4. plain' \in [Kinds -> Nat]
    BY <2>3, TypeSplit DEF IInv
  <2> QED
    BY <1>1, <1>2, <1>3, <2>1, <2>2, <2>4, TypeSplit DEF IInv, TypeOK, LocalTypeOK
<1>6. \A h \in Recorders : /\ call[h].key \in Keys /\ call[h].step \in AllSteps \union {"idle"}
                           /\ call'[h] = call[h] \/ h = g
  BY <1>4, TypeSplit DEF IInv
<1>7. InsideContends'
  <2> SUFFICES ASSUME NEW h \in Recorders, call'[h].step # "idle", call'[h].kind = "gauge"
               PROVE  call'[h].val \in contenders'[call'[h].key]
    BY DEF InsideContends
  <2>1. CASE call'[h] = call[h]
    <3>1. /\ call[h].val \in contenders[call[h].key]
          /\ call[h].key = k => h \in Inside(AllSteps, "gauge", k)
      BY <1>6, <2>1 DEF IInv, InsideContends, Inside
    <3> QED
      BY <1>3, <1>6, <2>1, <3>1
  <2>2. CASE call'[h] # call[h]
    <3>1. call'[h].kind = kind /\ call'[h].key = k /\ call'[h].val = v
      BY <1>4, <1>6, <2>2, TypeSplit DEF IInv
    <3> QED
      BY <1>3, <3>1
  <2> QED
    BY <2>1, <2>2
<1>8. \A j \in Keys : asked'["gauge"][j] = asked["gauge"][j]
                        \/ (j = k /\ kind = "gauge")
  BY <1>1, TypeSplit DEF IInv, Tallies, Kinds
<1>9. LocalContends'
  BY <1>2, <1>3, <1>8, TypeSplit DEF IInv, LocalContends, LocalTypeOK
<1>10. ForwardContends'
  <2> SUFFICES ASSUME NEW j \in Keys, bridge', asked'["gauge"][j] > 0,
                      unforwarded'["gauge"][j] = 0
               PROVE  \/ otelGauges'[j] \in contenders'[j]
                      \/ \E h \in Recorders : /\ call'[h].step # "idle"
                                              /\ call'[h].kind = "gauge"
                                              /\ call'[h].key = j
    BY DEF ForwardContends
  <2>1. call'[g].step # "idle" /\ call'[g].kind = kind /\ call'[g].key = k
    BY <1>1, <1>4, TypeSplit DEF IInv
  <2>2. CASE j = k /\ kind = "gauge"
    BY <2>1, <2>2
  <2>3. CASE ~(j = k /\ kind = "gauge")
    <3>1. /\ asked["gauge"][j] > 0 /\ unforwarded["gauge"][j] = 0 /\ bridge
          /\ contenders'[j] = contenders[j] /\ otelGauges'[j] = otelGauges[j]
      BY <1>1, <1>3, <1>8, <2>3
    <3>2. CASE otelGauges[j] \in contenders[j]
      BY <3>1, <3>2
    <3>3. CASE \E h \in Recorders : /\ call[h].step # "idle" /\ call[h].kind = "gauge"
                                    /\ call[h].key = j
      BY <1>1, <1>6, <3>3 DEF Idle
    <3> QED
      BY <3>1, <3>2, <3>3 DEF IInv, ForwardContends
  <2> QED
    BY <2>2, <2>3
<1>11. CallHoldsDuration'
  BY <1>4, <1>6, TypeSplit DEF IInv, CallHoldsDuration
<1> QED
  BY <1>5, <1>7, <1>9, <1>10, <1>11 DEF IInv

LEMMA RecordAgainKeeps == ASSUME IInv, NEW g \in Recorders, RecordAgain(g) PROVE IInv'
<1> DEFINE c == call[g]
<1>1. /\ c.step = "again"
      /\ RecordLocally(c.kind, c.key, c.val)
      /\ call' = [call EXCEPT ![g].step = "instrument"]
      /\ UNCHANGED <<bridge, instruments, forwarded, otelGauges, asked, plain,
                     unforwarded, contenders>>
  BY DEF RecordAgain
<1>2. /\ c.kind \in Kinds /\ c.key \in Keys
      /\ c.kind = "latency" => c.val \in Durations
      /\ c.kind = "gauge" => c.val \in contenders[c.key]
      /\ contenders[c.key] \subseteq GaugeValues
  BY <1>1, TypeSplit DEF IInv, CallHoldsDuration, InsideContends
<1>3. /\ LocalTypeOK'
      /\ c.kind # "gauge" => UNCHANGED gauges
      /\ c.kind = "gauge" => gauges' = [gauges EXCEPT ![c.key] = c.val]
  BY <1>1, <1>2, TypeSplit, RecordLocallyKeeps DEF IInv
<1>4. call' \in [Recorders -> [step : AllSteps \union {"idle"}, kind : Kinds, key : Keys,
                               val : Durations \union GaugeValues \union {0}]]
  BY <1>1, TypeSplit DEF IInv, AllSteps
<1>5. TypeOK'
  BY <1>1, <1>3, <1>4, TypeSplit DEF IInv, TypeOK, LocalTypeOK
<1>6. \A h \in Recorders : /\ call'[h].kind = call[h].kind
                           /\ call'[h].key = call[h].key
                           /\ call'[h].val = call[h].val
                           /\ call'[h].step = "idle" <=> call[h].step = "idle"
  BY <1>1, TypeSplit DEF IInv
<1>7. CallHoldsDuration' /\ InsideContends'
  BY <1>1, <1>6 DEF IInv, CallHoldsDuration, InsideContends
<1>8. ForwardContends'
  BY <1>1, <1>6 DEF IInv, ForwardContends
<1>9. LocalContends'
  BY <1>1, <1>2, <1>3, TypeSplit DEF IInv, LocalContends, LocalTypeOK
<1> QED
  BY <1>5, <1>7, <1>8, <1>9 DEF IInv

LEMMA InstrumentKeeps == ASSUME IInv, NEW g \in Recorders, Instrument(g) PROVE IInv'
<1> DEFINE c == call[g]
<1>1. /\ c.step = "instrument"
      /\ UNCHANGED <<bridge, local, forwarded, otelGauges, asked, plain, contenders>>
  BY DEF Instrument
<1>2. /\ c.kind \in Kinds /\ c.key \in Keys
      /\ instruments' \subseteq Kinds
      /\ instruments' \in SUBSET Kinds
  BY TypeSplit DEF IInv, Instrument
<1>3. LocalTypeOK'
  BY <1>1, TypeSplit DEF IInv, LocalTypeOK, local
<1>4. CASE UNCHANGED unforwarded /\ call' = [call EXCEPT ![g].step = "forward"]
  <2>1. call' \in [Recorders -> [step : AllSteps \union {"idle"}, kind : Kinds, key : Keys,
                                 val : Durations \union GaugeValues \union {0}]]
    BY <1>4, TypeSplit DEF IInv, AllSteps
  <2>2. TypeOK'
    BY <1>1, <1>2, <1>3, <1>4, <2>1, TypeSplit DEF IInv, TypeOK, LocalTypeOK
  <2>3. \A h \in Recorders : /\ call'[h].kind = call[h].kind
                             /\ call'[h].key = call[h].key
                             /\ call'[h].val = call[h].val
                             /\ call'[h].step = "idle" <=> call[h].step = "idle"
    BY <1>1, <1>4, TypeSplit DEF IInv
  <2>4. CallHoldsDuration' /\ InsideContends'
    BY <1>1, <2>3 DEF IInv, CallHoldsDuration, InsideContends
  <2>5. ForwardContends' /\ LocalContends'
    BY <1>1, <1>4, <2>3 DEF IInv, ForwardContends, LocalContends, local
  <2> QED
    BY <2>2, <2>4, <2>5 DEF IInv
<1>5. CASE /\ call' = [call EXCEPT ![g] = Idle]
           /\ unforwarded' = [unforwarded EXCEPT ![c.kind][c.key] = @ + 1]
  <2>1. call' \in [Recorders -> [step : AllSteps \union {"idle"}, kind : Kinds, key : Keys,
                                 val : Durations \union GaugeValues \union {0}]]
    BY <1>5, TypeSplit DEF IInv, Idle, Kinds, Keys
  <2>2. unforwarded' \in Tallies
    BY <1>2, <1>5, TypeSplit, TallyType DEF IInv
  <2>3. TypeOK'
    BY <1>1, <1>2, <1>3, <2>1, <2>2, TypeSplit DEF IInv, TypeOK, LocalTypeOK
  <2>4. \A h \in Recorders : call'[h] = call[h] \/ call'[h].step = "idle"
    BY <1>5, TypeSplit DEF IInv, Idle
  <2>5. CallHoldsDuration' /\ InsideContends'
    BY <1>1, <2>4 DEF IInv, CallHoldsDuration, InsideContends
  <2>6. LocalContends'
    BY <1>1 DEF IInv, LocalContends, local
  <2>7. ForwardContends'
    <3> SUFFICES ASSUME NEW j \in Keys, bridge', asked'["gauge"][j] > 0,
                        unforwarded'["gauge"][j] = 0
                 PROVE  \/ otelGauges'[j] \in contenders'[j]
                        \/ \E h \in Recorders : /\ call'[h].step # "idle"
                                                /\ call'[h].kind = "gauge"
                                                /\ call'[h].key = j
      BY DEF ForwardContends
    <3>1. ~(c.kind = "gauge" /\ c.key = j) /\ unforwarded["gauge"][j] = 0
      BY <1>2, <1>5, TypeSplit DEF IInv, Tallies, Kinds
    <3>2. CASE otelGauges[j] \in contenders[j]
      BY <1>1, <3>2
    <3>3. CASE \E h \in Recorders : /\ call[h].step # "idle" /\ call[h].kind = "gauge"
                                    /\ call[h].key = j
      <4>1. PICK h \in Recorders : /\ call[h].step # "idle" /\ call[h].kind = "gauge"
                                   /\ call[h].key = j
        BY <3>3
      <4>2. h # g /\ call'[h] = call[h]
        BY <1>5, <3>1, <4>1, TypeSplit DEF IInv
      <4> QED
        BY <4>1, <4>2
    <3> QED
      BY <1>1, <3>1, <3>2, <3>3 DEF IInv, ForwardContends
  <2> QED
    BY <2>3, <2>5, <2>6, <2>7 DEF IInv
<1> QED
  BY <1>4, <1>5 DEF Instrument

LEMMA ForwardKeeps == ASSUME IInv, NEW g \in Recorders, Forward(g) PROVE IInv'
<1> DEFINE c == call[g]
<1>1. /\ c.step = "forward"
      /\ forwarded' = [forwarded EXCEPT ![c.kind][c.key] = @ + 1]
      /\ otelGauges' = IF c.kind # "gauge" THEN otelGauges
                       ELSE [otelGauges EXCEPT ![c.key] = c.val]
      /\ call' = [call EXCEPT ![g] = Idle]
      /\ UNCHANGED <<bridge, local, instruments, asked, plain, unforwarded, contenders>>
  BY DEF Forward
<1>2. /\ c.kind \in Kinds /\ c.key \in Keys
      /\ c.kind = "gauge" => c.val \in contenders[c.key]
      /\ contenders[c.key] \subseteq GaugeValues
  BY <1>1, TypeSplit DEF IInv, InsideContends
<1>3. LocalTypeOK'
  BY <1>1, TypeSplit DEF IInv, LocalTypeOK, local
<1>4. call' \in [Recorders -> [step : AllSteps \union {"idle"}, kind : Kinds, key : Keys,
                               val : Durations \union GaugeValues \union {0}]]
  BY <1>1, TypeSplit DEF IInv, Idle, Kinds, Keys
<1>5. forwarded' \in Tallies
  BY <1>1, <1>2, TypeSplit, TallyType DEF IInv
<1>6. otelGauges' \in [Keys -> GaugeValues \union {0}]
  BY <1>1, <1>2, TypeSplit DEF IInv
<1>7. TypeOK'
  BY <1>1, <1>3, <1>4, <1>5, <1>6, TypeSplit DEF IInv, TypeOK, LocalTypeOK
<1>8. \A h \in Recorders : call'[h] = call[h] \/ call'[h].step = "idle"
  BY <1>1, TypeSplit DEF IInv, Idle
<1>9. CallHoldsDuration' /\ InsideContends'
  BY <1>1, <1>8 DEF IInv, CallHoldsDuration, InsideContends
<1>10. LocalContends'
  BY <1>1 DEF IInv, LocalContends, local
<1>11. ForwardContends'
  <2> SUFFICES ASSUME NEW j \in Keys, bridge', asked'["gauge"][j] > 0,
                      unforwarded'["gauge"][j] = 0
               PROVE  \/ otelGauges'[j] \in contenders'[j]
                      \/ \E h \in Recorders : /\ call'[h].step # "idle"
                                              /\ call'[h].kind = "gauge"
                                              /\ call'[h].key = j
    BY DEF ForwardContends
  <2>1. CASE c.kind = "gauge" /\ c.key = j
    BY <1>1, <1>2, <2>1, TypeSplit DEF IInv
  <2>2. CASE ~(c.kind = "gauge" /\ c.key = j)
    <3>1. otelGauges'[j] = otelGauges[j]
      BY <1>1, <1>2, <2>2, TypeSplit DEF IInv
    <3>2. CASE otelGauges[j] \in contenders[j]
      BY <1>1, <3>1, <3>2
    <3>3. CASE \E h \in Recorders : /\ call[h].step # "idle" /\ call[h].kind = "gauge"
                                    /\ call[h].key = j
      <4>1. PICK h \in Recorders : /\ call[h].step # "idle" /\ call[h].kind = "gauge"
                                   /\ call[h].key = j
        BY <3>3
      <4>2. h # g /\ call'[h] = call[h]
        BY <1>1, <2>2, <4>1, TypeSplit DEF IInv
      <4> QED
        BY <4>1, <4>2
    <3> QED
      BY <1>1, <3>2, <3>3 DEF IInv, ForwardContends
  <2> QED
    BY <2>1, <2>2
<1> QED
  BY <1>7, <1>9, <1>10, <1>11 DEF IInv

LEMMA NextKeeps == IInv /\ [Next]_vars => IInv'
<1> SUFFICES ASSUME IInv, [Next]_vars PROVE IInv'
  OBVIOUS
<1>1. CASE UNCHANGED vars
  BY <1>1 DEF IInv, vars, local, TypeOK, CallHoldsDuration, InsideContends,
              LocalContends, ForwardContends
<1>2. CASE Next
  <2>1. PICK g \in Recorders :
          \/ \E k \in Keys : Record(g, "counter", k, 0)
          \/ \E k \in Keys, d \in Durations : Record(g, "latency", k, d)
          \/ \E k \in Keys, v \in GaugeValues : Record(g, "gauge", k, v)
          \/ RecordAgain(g)
          \/ Instrument(g)
          \/ Forward(g)
    BY <1>2 DEF Next
  <2>2. CASE \E k \in Keys : Record(g, "counter", k, 0)
    BY <2>2, RecordKeeps DEF Kinds
  <2>3. CASE \E k \in Keys, d \in Durations : Record(g, "latency", k, d)
    BY <2>3, RecordKeeps DEF Kinds
  <2>4. CASE \E k \in Keys, v \in GaugeValues : Record(g, "gauge", k, v)
    BY <2>4, RecordKeeps DEF Kinds
  <2> QED
    BY <2>1, <2>2, <2>3, <2>4, RecordAgainKeeps, InstrumentKeeps, ForwardKeeps
<1> QED
  BY <1>1, <1>2

LEMMA InductiveInvariant == Spec => []IInv
BY InitIInv, NextKeeps, PTL DEF Spec

(* TypeOK: whoever records, and whatever the bridge records twice, no       *)
(* reservoir (metrics.go:56-64) holds more than its capacity, and every     *)
(* count stays a natural number.                                            *)
THEOREM TypeCorrect == Spec => []TypeOK
<1>1. IInv => TypeOK
  BY DEF IInv
<1> QED
  BY <1>1, InductiveInvariant, PTL

(* GaugesSettle: for any number of recorders, once no call that sets a      *)
(* gauge is under way both engines (metrics.go:257-261,                     *)
(* otel_bridge.go:151-174) show the value of the latest call or of one that *)
(* was under way when it began; no call that had returned by then is shown. *)
THEOREM GaugesSettled == Spec => []GaugesSettle
<1>1. IInv => GaugesSettle
  <2> SUFFICES ASSUME IInv, NEW k \in Keys, asked["gauge"][k] > 0,
                      Inside(AllSteps, "gauge", k) = {}
               PROVE  /\ gauges[k] \in contenders[k]
                      /\ (bridge /\ unforwarded["gauge"][k] = 0) =>
                           otelGauges[k] \in contenders[k]
    BY DEF GaugesSettle
  <2>1. \A h \in Recorders : ~(/\ call[h].step # "idle" /\ call[h].kind = "gauge"
                               /\ call[h].key = k)
    BY TypeSplit DEF IInv, Inside
  <2> QED
    BY <2>1 DEF IInv, LocalContends, ForwardContends
<1> QED
  BY <1>1, InductiveInvariant, PTL

-----------------------------------------------------------------------------
(* Induction over the natural numbers, for a set of numbers.                *)
LEMMA SetInduction ==
  ASSUME NEW T, 0 \in T, \A n \in Nat : n \in T => n + 1 \in T
  PROVE  Nat \subseteq T
<1> DEFINE R == OpToRel(<, Nat)
           Missing == Nat \ T
<1> SUFFICES ASSUME Missing # {} PROVE FALSE
  OBVIOUS
<1>1. PICK x \in Missing : \A y \in Missing : <<y, x>> \notin R
  <2> HIDE DEF R
  <2>1. IsWellFoundedOn(R, Nat)
    BY NatLessThanWellFounded DEF R
  <2> QED
    BY <2>1, WFMin
<1>2. x - 1 \in Missing /\ x = (x - 1) + 1
  OBVIOUS
<1>3. <<x - 1, x>> \in R
  BY <1>2 DEF OpToRel
<1> QED
  BY <1>1, <1>2, <1>3

-----------------------------------------------------------------------------
(* Sums of sequences.                                                       *)

(* The equations of PartialSums, as one, and one at a time up to m.         *)
IsSums(s, f) == f = [n \in 0..Len(s) |-> IF n = 0 THEN 0 ELSE f[n - 1] + s[n]]

SumsUpto(m, s, f) == /\ f[0] = 0
                     /\ \A n \in 1..m : f[n] = f[n - 1] + s[n]

LEMMA SumsExist ==
  ASSUME NEW s \in Seq(Nat)
  PROVE  \E f \in [0..Len(s) -> Nat] : SumsUpto(Len(s), s, f)
<1> DEFINE T == {m \in Nat : m <= Len(s) => \E f \in [0..m -> Nat] : SumsUpto(m, s, f)}
<1>1. Len(s) \in Nat /\ \A n \in 1..Len(s) : s[n] \in Nat
  BY LenProperties, ElementOfSeq
<1>2. 0 \in T
  <2>1. [n \in 0..0 |-> 0] \in [0..0 -> Nat] /\ SumsUpto(0, s, [n \in 0..0 |-> 0])
    BY DEF SumsUpto
  <2> QED
    BY <2>1
<1>3. ASSUME NEW m \in Nat, m \in T PROVE m + 1 \in T
  <2>1. ASSUME m + 1 <= Len(s)
        PROVE  \E f \in [0..(m + 1) -> Nat] : SumsUpto(m + 1, s, f)
    <3>1. PICK f \in [0..m -> Nat] : SumsUpto(m, s, f)
      BY <1>1, <1>3, <2>1
    <3> DEFINE g == [n \in 0..(m + 1) |-> IF n = m + 1 THEN f[m] + s[m + 1] ELSE f[n]]
    <3>2. g \in [0..(m + 1) -> Nat]
      BY <1>1, <2>1
    <3>3. SumsUpto(m + 1, s, g)
      BY <1>1, <3>1 DEF SumsUpto
    <3> HIDE DEF g
    <3> QED
      BY <3>2, <3>3
  <2> QED
    BY <2>1
<1>4. Len(s) \in T
  <2> HIDE DEF T
  <2> QED
    BY <1>1, <1>2, <1>3, SetInduction
<1> QED
  BY <1>1, <1>4

LEMMA SumsUnique ==
  ASSUME NEW s, NEW f, NEW g, NEW m \in Nat, SumsUpto(m, s, f), SumsUpto(m, s, g)
  PROVE  f[m] = g[m]
<1> DEFINE T == {n \in Nat : n <= m => f[n] = g[n]}
<1>1. 0 \in T
  BY DEF SumsUpto
<1>2. ASSUME NEW n \in Nat, n \in T PROVE n + 1 \in T
  BY <1>2 DEF SumsUpto
<1>3. m \in T
  <2> HIDE DEF T
  <2> QED
    BY <1>1, <1>2, SetInduction
<1> QED
  BY <1>3

LEMMA PartialSumsProperty ==
  ASSUME NEW s \in Seq(Nat)
  PROVE  SumsUpto(Len(s), s, PartialSums(s)) /\ Sum(s) \in Nat
<1>1. PICK f \in [0..Len(s) -> Nat] : SumsUpto(Len(s), s, f)
  BY SumsExist
<1>2. Len(s) \in Nat
  BY LenProperties
<1>3. IsSums(s, f)
  BY <1>1, <1>2 DEF IsSums, SumsUpto
<1> DEFINE p == PartialSums(s)
<1>4. p = [n \in 0..Len(s) |-> IF n = 0 THEN 0 ELSE p[n - 1] + s[n]]
  BY <1>3 DEF IsSums, PartialSums
<1>5. SumsUpto(Len(s), s, p)
  <2> HIDE DEF p
  <2> QED
    BY <1>2, <1>4 DEF SumsUpto
<1>6. p[Len(s)] = f[Len(s)]
  BY <1>1, <1>2, <1>5, SumsUnique
<1> QED
  BY <1>1, <1>2, <1>5, <1>6 DEF Sum

LEMMA SumEmpty == Sum(<<>>) = 0
BY PartialSumsProperty, EmptySeq DEF Sum, SumsUpto

LEMMA SumAppend ==
  ASSUME NEW s \in Seq(Nat), NEW v \in Nat
  PROVE  Sum(Append(s, v)) = Sum(s) + v
<1> DEFINE t == Append(s, v)
           p == PartialSums(s)
           q == PartialSums(t)
<1>1. /\ t \in Seq(Nat) /\ Len(t) = Len(s) + 1 /\ Len(s) \in Nat
      /\ \A n \in 1..Len(s) : t[n] = s[n]
      /\ t[Len(s) + 1] = v
  BY AppendProperties, LenProperties
<1>2. SumsUpto(Len(s), s, p)
  BY PartialSumsProperty
<1>3. SumsUpto(Len(s) + 1, t, q)
  BY <1>1, PartialSumsProperty
<1>4. Sum(s) = p[Len(s)] /\ Sum(t) = q[Len(s) + 1]
  BY <1>1 DEF Sum
<1> HIDE DEF t, p, q
<1>5. SumsUpto(Len(s), s, q)
  BY <1>1, <1>3 DEF SumsUpto
<1>6. p[Len(s)] = q[Len(s)]
  BY <1>1, <1>2, <1>5, SumsUnique
<1>7. q[Len(s) + 1] = q[Len(s)] + v
  BY <1>1, <1>3 DEF SumsUpto
<1> QED
  BY <1>4, <1>6, <1>7 DEF t

-----------------------------------------------------------------------------
(* Sorted samples, their percentiles and the buckets.                       *)

Downward(B) == \A j \in B : \A i \in 1..j : i \in B

(* A downward closed set of positions is an initial segment.                *)
LEMMA SegmentExists ==
  ASSUME NEW n \in Nat, NEW B, B \subseteq 1..n, Downward(B)
  PROVE  \E m \in 0..n : B = 1..m
<1> DEFINE T == {l \in Nat : \A C \in SUBSET (1..l) : Downward(C) => \E m \in 0..l : C = 1..m}
<1>1. 0 \in T
  <2>1. ASSUME NEW C \in SUBSET (1..0) PROVE C = 1..0
    OBVIOUS
  <2>2. 0 \in 0..0
    OBVIOUS
  <2> QED
    BY <2>1, <2>2
<1>2. ASSUME NEW l \in Nat, l \in T PROVE l + 1 \in T
  <2> SUFFICES ASSUME NEW C \in SUBSET (1..(l + 1)), Downward(C)
               PROVE  \E m \in 0..(l + 1) : C = 1..m
    OBVIOUS
  <2>1. CASE l + 1 \in C
    <3>1. C = 1..(l + 1)
      BY <2>1 DEF Downward
    <3> QED
      BY <3>1
  <2>2. CASE l + 1 \notin C
    <3>1. C \in SUBSET (1..l)
      BY <2>2
    <3>2. PICK m \in 0..l : C = 1..m
      BY <1>2, <3>1
    <3> QED
      BY <3>2
  <2> QED
    BY <2>1, <2>2
<1>3. n \in T
  <2> HIDE DEF T
  <2> QED
    BY <1>1, <1>2, SetInduction
<1> QED
  BY <1>3

(* q puts the first m samples of s in order.                                *)
OrderUpto(m, s, q) ==
  /\ q \in [1..m -> 1..m]
  /\ \A i, j \in 1..m : i < j => q[i] # q[j] /\ s[q[i]] <= s[q[j]]

LEMMA OrderExists ==
  ASSUME NEW s \in Seq(Nat)
  PROVE  \E q : OrderUpto(Len(s), s, q)
<1> DEFINE T == {m \in Nat : m <= Len(s) => \E q : OrderUpto(m, s, q)}
<1>1. Len(s) \in Nat /\ \A n \in 1..Len(s) : s[n] \in Nat
  BY LenProperties, ElementOfSeq
<1>2. 0 \in T
  <2>1. OrderUpto(0, s, [n \in 1..0 |-> 1])
    BY DEF OrderUpto
  <2> QED
    BY <2>1
<1>3. ASSUME NEW m \in Nat, m \in T PROVE m + 1 \in T
  <2>1. ASSUME m + 1 <= Len(s)
        PROVE  \E q : OrderUpto(m + 1, s, q)
    <3>1. PICK q : OrderUpto(m, s, q)
      BY <1>1, <1>3, <2>1
    <3> DEFINE v == s[m + 1]
               B == {i \in 1..m : s[q[i]] <= v}
    <3>2. v \in Nat /\ \A i \in 1..m : q[i] \in 1..m /\ s[q[i]] \in Nat
      <4>1. m + 1 \in 1..Len(s) /\ \A i \in 1..m : i \in 1..Len(s)
        BY <1>1, <2>1
      <4>2. \A i \in 1..m : q[i] \in 1..m
        BY <3>1 DEF OrderUpto
      <4> QED
        BY <1>1, <4>1, <4>2
    <3>3. Downward(B)
      <4> SUFFICES ASSUME NEW j \in B, NEW i \in 1..j PROVE i \in B
        BY DEF Downward
      <4>1. i \in 1..m /\ j \in 1..m /\ (i = j \/ i < j)
        OBVIOUS
      <4>2. s[q[i]] <= s[q[j]]
        <5>1. CASE i = j
          BY <3>2, <4>1, <5>1
        <5>2. CASE i < j
          BY <3>1, <4>1, <5>2 DEF OrderUpto
        <5> QED
          BY <4>1, <5>1, <5>2
      <4>3. s[q[j]] <= v
        OBVIOUS
      <4>4. s[q[i]] \in Nat /\ s[q[j]] \in Nat /\ v \in Nat
        BY <3>2, <4>1
      <4>5. s[q[i]] <= v
        <5> HIDE DEF v, B
        <5> QED
          BY <4>2, <4>3, <4>4
      <4> QED
        BY <4>1, <4>5
    <3>4. PICK r \in 0..m : B = 1..r
      BY <3>3, SegmentExists
    <3> DEFINE g == [i \in 1..(m + 1) |-> IF i <= r THEN q[i]
                                          ELSE IF i = r + 1 THEN m + 1 ELSE q[i - 1]]
    <3>5. /\ \A i \in 1..r : s[q[i]] <= v
          /\ \A i \in (r + 1)..m : v <= s[q[i]]
      <4>1. \A i \in 1..m : i <= r <=> i \in B
        BY <3>4
      <4> QED
        BY <3>2, <4>1
    <3>6. g \in [1..(m + 1) -> 1..(m + 1)]
      BY <3>2
    <3> HIDE DEF B
    <3>7. ASSUME NEW i \in 1..(m + 1), NEW j \in 1..(m + 1), i < j
          PROVE  g[i] # g[j] /\ s[g[i]] <= s[g[j]]
      <4>1. CASE j <= r
        <5>1. i \in 1..m /\ j \in 1..m /\ g[j] = q[j] /\ g[i] = q[i]
          BY <3>7, <4>1
        <5> QED
          BY <3>1, <3>7, <5>1 DEF OrderUpto
      <4>2. CASE j = r + 1
        BY <3>2, <3>5, <3>7, <4>2
      <4>3. CASE i = r + 1
        <5>1. j - 1 \in (r + 1)..m /\ g[j] = q[j - 1] /\ g[i] = m + 1
          BY <3>7, <4>3
        <5> QED
          BY <3>2, <3>5, <5>1
      <4>4. CASE i <= r /\ j > r + 1
        <5>1. j - 1 \in 1..m /\ i \in 1..m /\ i < j - 1 /\ g[j] = q[j - 1] /\ g[i] = q[i]
          BY <3>7, <4>4
        <5> QED
          BY <3>1, <5>1 DEF OrderUpto
      <4>5. CASE i > r + 1
        <5>1. /\ j - 1 \in 1..m /\ i - 1 \in 1..m /\ i - 1 < j - 1
              /\ g[j] = q[j - 1] /\ g[i] = q[i - 1]
          BY <3>7, <4>5
        <5> QED
          BY <3>1, <5>1 DEF OrderUpto
      <4> QED
        BY <3>7, <4>1, <4>2, <4>3, <4>4, <4>5
    <3>8. OrderUpto(m + 1, s, g)
      <4> HIDE DEF g
      <4> QED
        BY <3>6, <3>7 DEF OrderUpto
    <3> HIDE DEF g
    <3> QED
      BY <3>8
  <2> QED
    BY <2>1
<1>4. Len(s) \in T
  <2> HIDE DEF T
  <2> QED
    BY <1>1, <1>2, <1>3, SetInduction
<1> QED
  BY <1>1, <1>4

LEMMA SortedProperty ==
  ASSUME NEW s \in Seq(Nat)
  PROVE  \E q : OrderUpto(Len(s), s, q) /\ Sorted(s) = [i \in 1..Len(s) |-> s[q[i]]]
<1> DEFINE Chosen == CHOOSE q \in [DOMAIN s -> DOMAIN s] :
                       \A i, j \in DOMAIN s : i < j => q[i] # q[j] /\ s[q[i]] <= s[q[j]]
<1>1. DOMAIN s = 1..Len(s)
  BY LenProperties
<1>2. \E q \in [DOMAIN s -> DOMAIN s] :
        \A i, j \in DOMAIN s : i < j => q[i] # q[j] /\ s[q[i]] <= s[q[j]]
  BY <1>1, OrderExists DEF OrderUpto
<1>3. /\ Chosen \in [DOMAIN s -> DOMAIN s]
      /\ \A i, j \in DOMAIN s : i < j => Chosen[i] # Chosen[j] /\ s[Chosen[i]] <= s[Chosen[j]]
  BY <1>2
<1>4. Sorted(s) = [i \in DOMAIN s |-> s[Chosen[i]]]
  BY DEF Sorted
<1> HIDE DEF Chosen
<1>5. OrderUpto(Len(s), s, Chosen)
  BY <1>1, <1>3 DEF OrderUpto
<1> QED
  BY <1>1, <1>4, <1>5

(* A bucket counts the sorted samples within its limit, and they come first. *)
LEMMA BucketIsSegment ==
  ASSUME NEW s \in Seq(Nat), NEW limit \in Nat
  PROVE  /\ Len(Sorted(s)) = Len(s)
         /\ Bucket(s, limit) \in 0..Len(s)
         /\ \A i \in 1..Len(s) : Sorted(s)[i] <= limit <=> i <= Bucket(s, limit)
<1>1. /\ Len(s) \in Nat /\ DOMAIN s = 1..Len(s)
      /\ \A n \in 1..Len(s) : s[n] \in Nat
  BY LenProperties, ElementOfSeq
<1>2. PICK q : OrderUpto(Len(s), s, q) /\ Sorted(s) = [i \in 1..Len(s) |-> s[q[i]]]
  BY SortedProperty
<1>3. \A i \in 1..Len(s) : q[i] \in 1..Len(s) /\ s[q[i]] \in Nat
  BY <1>1, <1>2 DEF OrderUpto
<1>4. Len(Sorted(s)) = Len(s)
  BY <1>1, <1>2, <1>3
<1> DEFINE B == {i \in 1..Len(s) : s[q[i]] <= limit}
           C == {i \in DOMAIN s : s[i] <= limit}
           f == [i \in B |-> q[i]]
<1>5. PICK m \in 0..Len(s) : B = 1..m
  <2>1. Downward(B)
    <3> SUFFICES ASSUME NEW j \in B, NEW i \in 1..j PROVE i \in B
      BY DEF Downward
    <3>1. i \in 1..Len(s) /\ j \in 1..Len(s) /\ (i = j \/ i < j)
      BY <1>1
    <3>2. s[q[i]] <= s[q[j]]
      BY <1>2, <1>3, <3>1 DEF OrderUpto
    <3> QED
      BY <1>3, <3>1, <3>2
  <2> QED
    BY <1>1, <2>1, SegmentExists
<1>6. q \in Injection(1..Len(s), 1..Len(s))
  BY <1>1, <1>2 DEF OrderUpto, Injection, IsInjective
<1>7. q \in Surjection(1..Len(s), 1..Len(s))
  BY <1>1, <1>6, FS_Interval, FS_Injection
<1>8. f \in Bijection(B, C)
  <2>1. f \in [B -> C] /\ IsInjective(f)
    BY <1>1, <1>3, <1>6 DEF Injection, IsInjective
  <2>2. \A c \in C : \E b \in B : f[b] = c
    BY <1>1, <1>7 DEF Surjection
  <2> QED
    BY <2>1, <2>2 DEF Bijection, Injection, Surjection
<1>9. IsFiniteSet(1..m) /\ Cardinality(1..m) = m
  BY FS_Interval
<1>10. Cardinality(C) = m
  <2>1. ExistsBijection(B, C)
    BY <1>8 DEF ExistsBijection
  <2> HIDE DEF C, B
  <2> QED
    BY <1>5, <1>9, <2>1, FS_Bijection
<1>11. Bucket(s, limit) = m
  BY <1>10 DEF Bucket
<1>12. \A i \in 1..Len(s) : Sorted(s)[i] <= limit <=> i \in B
  BY <1>2
<1> QED
  BY <1>1, <1>4, <1>5, <1>11, <1>12

PercentileAgrees(s, p, limit) ==
  Percentile(Sorted(s), p) <= limit <=> 100 * Bucket(s, limit) > p * Len(s)

LEMMA BucketType ==
  ASSUME NEW s \in Seq(Nat), NEW limit \in Nat
  PROVE  Bucket(s, limit) \in Nat
<1>1. Bucket(s, limit) \in 0..Len(s) /\ Len(s) \in Nat
  BY BucketIsSegment, LenProperties
<1> QED
  BY <1>1

LEMMA PercentileWithin ==
  ASSUME NEW s \in Seq(Nat), s # <<>>, NEW limit \in Nat, NEW p \in {50, 90, 99}
  PROVE  PercentileAgrees(s, p, limit)
<1> DEFINE idx == (Len(s) * p) \div 100
<1>1. Len(s) \in Nat \ {0}
  BY EmptySeq
<1>2. idx \in 0..(Len(s) - 1) /\ 100 * idx <= Len(s) * p /\ Len(s) * p < 100 * idx + 100
  BY <1>1
<1>3. Len(Sorted(s)) = Len(s)
  BY BucketIsSegment
<1>4. Percentile(Sorted(s), p) = Sorted(s)[idx + 1]
  BY <1>1, <1>2, <1>3 DEF Percentile
<1> HIDE DEF idx
<1>5. Percentile(Sorted(s), p) <= limit <=> idx + 1 <= Bucket(s, limit)
  BY <1>1, <1>2, <1>4, BucketIsSegment
<1>6. Bucket(s, limit) \in Nat
  BY BucketType
<1> QED
  BY <1>1, <1>2, <1>5, <1>6 DEF PercentileAgrees

-----------------------------------------------------------------------------
(* The window of the latest observations.                                   *)

(* What a reservoir s, a count and a total are to the observations o.  The  *)
(* last conjunct is WindowIsRecent's, before the division: each sample was  *)
(* cut by less than a millisecond.                                          *)
Window(o, s, count, total) ==
  /\ count = Len(o)
  /\ Len(s) = IF Len(o) < MaxSamples THEN Len(o) ELSE MaxSamples
  /\ \A i \in 1..Len(s) : s[i] = Milliseconds(o[Len(o) - Len(s) + i])
  /\ Len(o) <= MaxSamples =>
       /\ PartsPerMs * Sum(s) <= total
       /\ total <= PartsPerMs * Sum(s) + Len(s) * (PartsPerMs - 1)

WindowInv ==
  \A k \in Keys : Window(observed[k], reservoirs[k], latencyCounts[k], latencyTotals[k])

LEMMA DivideBounds ==
  ASSUME NEW a \in Nat, NEW p \in Nat \ {0}
  PROVE  /\ a \div p \in Nat
         /\ p * (a \div p) <= a
         /\ a <= p * (a \div p) + (p - 1)
OBVIOUS

LEMMA DivideBetween ==
  ASSUME NEW a \in Nat, NEW p \in Nat \ {0}, NEW q \in Nat, NEW l \in Nat,
         p * q <= a, a <= p * q + l * (p - 1)
  PROVE  a \div p \in q..(q + l)
<1>1. q <= a \div p
  OBVIOUS
<1>2. a \div p <= q + l
  OBVIOUS
<1> QED
  BY <1>1, <1>2, DivideBounds

LEMMA DivideMonotone ==
  ASSUME NEW a \in Nat, NEW b \in Nat, a <= b, NEW p \in Nat \ {0}
  PROVE  a \div p <= b \div p
OBVIOUS

LEMMA DivideProduct ==
  ASSUME NEW a \in Nat, NEW p \in Nat \ {0}
  PROVE  (a * p) \div p = a
OBVIOUS

LEMMA WindowMoves ==
  ASSUME NEW o \in Seq(Durations), NEW s \in Seq(Nat), NEW count, NEW total \in Nat,
         NEW d \in Durations, Window(o, s, count, total)
  PROVE  Window(Append(o, d), Added(s, Milliseconds(d)), count + 1, total + d)
<1> DEFINE n == Len(o)
           m == Milliseconds(d)
           t == Added(s, m)
<1>1. /\ n \in Nat /\ Len(s) \in Nat /\ d \in Nat /\ m \in Nat
      /\ MaxSamples \in Nat \ {0} /\ PartsPerMs \in Nat \ {0}
  BY LenProperties, MillisecondsType, MetricsAssumption
<1>2. /\ Len(Append(o, d)) = n + 1
      /\ \A i \in 1..n : Append(o, d)[i] = o[i]
      /\ Append(o, d)[n + 1] = d
  BY AppendProperties
<1>3. CASE n < MaxSamples
  <2>1. /\ t = Append(s, m) /\ Len(s) = n /\ Len(t) = n + 1
        /\ \A i \in 1..n : t[i] = s[i]
        /\ t[n + 1] = m
    BY <1>1, <1>3, AppendProperties DEF Added, Window
  <2>2. \A i \in 1..(n + 1) : t[i] = Milliseconds(Append(o, d)[i])
    <3>1. \A i \in 1..n : Len(o) - Len(s) + i = i
      BY <1>1, <2>1
    <3>2. \A i \in 1..n : t[i] = Milliseconds(o[i])
      BY <2>1, <3>1 DEF Window
    <3> QED
      BY <1>1, <1>2, <2>1, <3>2
  <2>3. Sum(t) = Sum(s) + m /\ Sum(s) \in Nat
    BY <1>1, <2>1, SumAppend, PartialSumsProperty
  <2>4. /\ PartsPerMs * Sum(s) <= total
        /\ total <= PartsPerMs * Sum(s) + n * (PartsPerMs - 1)
    BY <1>1, <1>3, <2>1 DEF Window
  <2>5. PartsPerMs * m <= d /\ d <= PartsPerMs * m + (PartsPerMs - 1)
    BY <1>1, DivideBounds DEF Milliseconds
  <2>6. /\ PartsPerMs * (Sum(s) + m) = PartsPerMs * Sum(s) + PartsPerMs * m
        /\ (n + 1) * (PartsPerMs - 1) = n * (PartsPerMs - 1) + (PartsPerMs - 1)
    BY <1>1, <2>3
  <2> HIDE DEF t, m, n
  <2>7. /\ PartsPerMs * Sum(t) <= total + d
        /\ total + d <= PartsPerMs * Sum(t) + (n + 1) * (PartsPerMs - 1)
    <3> DEFINE a == PartsPerMs * Sum(s)
               b == PartsPerMs * m
               c == n * (PartsPerMs - 1)
               rest == PartsPerMs - 1
    <3>1. a \in Nat /\ b \in Nat /\ c \in Nat /\ rest \in Nat /\ d \in Nat
      BY <1>1, <2>3
    <3>2. a <= total /\ total <= a + c /\ b <= d /\ d <= b + rest
      BY <2>4, <2>5
    <3>3. PartsPerMs * Sum(t) = a + b /\ (n + 1) * (PartsPerMs - 1) = c + rest
      BY <2>3, <2>6
    <3> HIDE DEF a, b, c, rest
    <3>4. a + b <= total + d /\ total + d <= (a + b) + (c + rest)
      BY <3>1, <3>2
    <3> QED
      BY <3>3, <3>4
  <2> QED
    BY <1>1, <1>2, <1>3, <2>1, <2>2, <2>7 DEF Window, n, t, m
<1>4. CASE n >= MaxSamples
  <2>1. Len(s) = MaxSamples
    BY <1>1, <1>4 DEF Window
  <2>2. s # <<>>
    BY <1>1, <2>1, EmptySeq
  <2>3. /\ Tail(s) \in Seq(Nat) /\ Len(Tail(s)) = MaxSamples - 1
        /\ \A i \in 1..(MaxSamples - 1) : Tail(s)[i] = s[i + 1]
    BY <1>1, <2>1, <2>2, HeadTailProperties
  <2>4. /\ t = Append(Tail(s), m) /\ Len(t) = MaxSamples
        /\ \A i \in 1..(MaxSamples - 1) : t[i] = s[i + 1]
        /\ t[MaxSamples] = m
    BY <1>1, <2>1, <2>3, AppendProperties DEF Added
  <2> HIDE DEF t
  <2>5. ASSUME NEW i \in 1..MaxSamples
        PROVE  t[i] = Milliseconds(Append(o, d)[n + 1 - MaxSamples + i])
    <3>1. CASE i = MaxSamples
      BY <1>1, <1>2, <2>4, <3>1
    <3>2. CASE i < MaxSamples
      <4>1. /\ t[i] = s[i + 1] /\ i + 1 \in 1..Len(s)
            /\ n + 1 - MaxSamples + i \in 1..n
            /\ n - Len(s) + (i + 1) = n + 1 - MaxSamples + i
        BY <1>1, <1>4, <2>1, <2>4, <3>2
      <4> QED
        BY <1>2, <4>1 DEF Window
    <3>3. i = MaxSamples \/ i < MaxSamples
      BY <1>1
    <3> QED
      BY <3>1, <3>2, <3>3
  <2>6. /\ Len(Append(o, d)) = n + 1 /\ ~(n + 1 < MaxSamples) /\ ~(n + 1 <= MaxSamples)
        /\ \A i \in 1..Len(t) :
             t[i] = Milliseconds(Append(o, d)[Len(Append(o, d)) - Len(t) + i])
    <3>1. Len(Append(o, d)) = n + 1 /\ Len(t) = MaxSamples
      BY <1>2, <2>4
    <3>2. Len(Append(o, d)) - Len(t) = n + 1 - MaxSamples
      BY <3>1
    <3>3. ASSUME NEW i \in 1..Len(t)
          PROVE  t[i] = Milliseconds(Append(o, d)[Len(Append(o, d)) - Len(t) + i])
      <4>1. i \in 1..MaxSamples
        BY <3>1
      <4>2. t[i] = Milliseconds(Append(o, d)[n + 1 - MaxSamples + i])
        BY <2>5, <4>1
      <4> QED
        BY <3>2, <4>2
    <3>4. ~(n + 1 < MaxSamples) /\ ~(n + 1 <= MaxSamples)
      BY <1>1, <1>4
    <3> QED
      BY <3>1, <3>3, <3>4, Zenon
  <2>7. count + 1 = Len(Append(o, d))
    BY <1>2 DEF Window
  <2> QED
    BY <2>4, <2>6, <2>7 DEF Window, t
<1> QED
  BY <1>1, <1>3, <1>4

LEMMA InitWindow == Init => WindowInv
<1> SUFFICES ASSUME Init PROVE WindowInv
  OBVIOUS
<1>1. Window(<<>>, <<>>, 0, 0)
  BY SumEmpty, EmptySeq, MetricsAssumption DEF Window
<1> QED
  BY <1>1 DEF Init, WindowInv

(* A step of the engine leaves the local records alone, or makes one.       *)
LEMMA LocalSteps ==
  ASSUME IInv, [Next]_vars
  PROVE  \/ UNCHANGED local
         \/ \E kind \in Kinds, k \in Keys, v \in Durations \union GaugeValues \union {0} :
              (kind = "latency" => v \in Durations) /\ RecordLocally(kind, k, v)
<1>1. CASE UNCHANGED vars
  BY <1>1 DEF vars, local
<1>2. CASE Next
  <2>1. PICK g \in Recorders :
          \/ \E k \in Keys : Record(g, "counter", k, 0)
          \/ \E k \in Keys, d \in Durations : Record(g, "latency", k, d)
          \/ \E k \in Keys, v \in GaugeValues : Record(g, "gauge", k, v)
          \/ RecordAgain(g)
          \/ Instrument(g)
          \/ Forward(g)
    BY <1>2 DEF Next
  <2>2. CASE \E k \in Keys : Record(g, "counter", k, 0)
    BY <2>2 DEF Record, Kinds
  <2>3. CASE \E k \in Keys, d \in Durations : Record(g, "latency", k, d)
    BY <2>3 DEF Record, Kinds
  <2>4. CASE \E k \in Keys, v \in GaugeValues : Record(g, "gauge", k, v)
    BY <2>4 DEF Record, Kinds
  <2>5. CASE RecordAgain(g)
    <3>1. /\ call[g].step = "again"
          /\ RecordLocally(call[g].kind, call[g].key, call[g].val)
      BY <2>5 DEF RecordAgain
    <3>2. /\ call[g].kind \in Kinds /\ call[g].key \in Keys
          /\ call[g].val \in Durations \union GaugeValues \union {0}
          /\ call[g].kind = "latency" => call[g].val \in Durations
      BY <3>1, TypeSplit DEF IInv, CallHoldsDuration
    <3> QED
      BY <3>1, <3>2
  <2>6. CASE Instrument(g) \/ Forward(g)
    BY <2>6 DEF Instrument, Forward
  <2> QED
    BY <2>1, <2>2, <2>3, <2>4, <2>5, <2>6
<1> QED
  BY <1>1, <1>2

(* The latencies of a key after a step.                                     *)
LatencyMoves(k) ==
  \/ UNCHANGED <<observed[k], reservoirs[k], latencyCounts[k], latencyTotals[k]>>
  \/ \E d \in Durations :
       /\ observed'[k] = Append(observed[k], d)
       /\ reservoirs'[k] = Added(reservoirs[k], Milliseconds(d))
       /\ latencyCounts'[k] = latencyCounts[k] + 1
       /\ latencyTotals'[k] = latencyTotals[k] + d

LEMMA LatencySteps ==
  ASSUME IInv, [Next]_vars, NEW k \in Keys
  PROVE  LatencyMoves(k)
<1>1. CASE UNCHANGED local
  BY <1>1 DEF local, LatencyMoves
<1>2. ASSUME NEW kind \in Kinds, NEW j \in Keys,
             NEW v \in Durations \union GaugeValues \union {0},
             kind = "latency" => v \in Durations, RecordLocally(kind, j, v)
      PROVE  LatencyMoves(k)
  <2>1. CASE IncCounter(j) \/ SetGauge(j, v)
    BY <2>1 DEF IncCounter, SetGauge, LatencyMoves
  <2>2. CASE kind = "latency" /\ RecordLatency(j, v)
    <3>1. LocalTypeOK /\ v \in Durations
      BY <1>2, <2>2, TypeSplit DEF IInv
    <3>2. CASE j = k
      BY <2>2, <3>1, <3>2 DEF RecordLatency, LatencyMoves, LocalTypeOK
    <3>3. CASE j # k
      BY <2>2, <3>1, <3>3 DEF RecordLatency, LatencyMoves, LocalTypeOK
    <3> QED
      BY <3>2, <3>3
  <2> QED
    BY <1>2, <2>1, <2>2 DEF RecordLocally
<1> QED
  BY <1>1, <1>2, LocalSteps

LEMMA NextWindow == IInv /\ WindowInv /\ [Next]_vars => WindowInv'
<1> SUFFICES ASSUME IInv, WindowInv, [Next]_vars, NEW k \in Keys
             PROVE  Window(observed'[k], reservoirs'[k], latencyCounts'[k], latencyTotals'[k])
  BY DEF WindowInv
<1>1. Window(observed[k], reservoirs[k], latencyCounts[k], latencyTotals[k])
  BY DEF WindowInv
<1>2. /\ observed[k] \in Seq(Durations) /\ reservoirs[k] \in Seq(Nat)
      /\ latencyTotals[k] \in Nat
  BY TypeSplit DEF IInv, LocalTypeOK
<1>3. LatencyMoves(k)
  BY LatencySteps
<1> QED
  BY <1>1, <1>2, <1>3, WindowMoves DEF LatencyMoves

LEMMA WindowInvariant == Spec => []WindowInv
BY InitWindow, NextWindow, InductiveInvariant, PTL DEF Spec

(* WindowIsRecent: for any capacity and any number of recorders, a          *)
(* reservoir (metrics.go:56-64) holds the latest observations in order, in  *)
(* whole milliseconds, and until it is full the total (metrics.go:234-250)  *)
(* is the sum of its samples but for what each was cut by.                  *)
THEOREM WindowRecent == Spec => []WindowIsRecent
<1>1. IInv /\ WindowInv => WindowIsRecent
  <2> SUFFICES ASSUME IInv, WindowInv, NEW k \in Keys, Len(observed[k]) <= MaxSamples
               PROVE  Milliseconds(latencyTotals[k]) \in
                        Sum(reservoirs[k])..(Sum(reservoirs[k]) + Len(reservoirs[k]))
    BY DEF WindowIsRecent, WindowInv, Window
  <2>1. /\ latencyTotals[k] \in Nat /\ reservoirs[k] \in Seq(Nat)
        /\ Sum(reservoirs[k]) \in Nat /\ Len(reservoirs[k]) \in Nat
    BY TypeSplit, PartialSumsProperty, LenProperties DEF IInv, LocalTypeOK
  <2>2. /\ PartsPerMs * Sum(reservoirs[k]) <= latencyTotals[k]
        /\ latencyTotals[k] <= PartsPerMs * Sum(reservoirs[k])
                                 + Len(reservoirs[k]) * (PartsPerMs - 1)
    BY DEF WindowInv, Window
  <2> QED
    BY <2>1, <2>2, DivideBetween, MetricsAssumption DEF Milliseconds
<1> QED
  BY <1>1, InductiveInvariant, WindowInvariant, PTL

(* HistogramMatchesPercentiles: for any capacity and any limits, the        *)
(* percentiles that extractPercentile takes from the sorted samples         *)
(* (metrics.go:67-92) and the buckets (metrics.go:94-120) agree.            *)
THEOREM PercentilesMatch == Spec => []HistogramMatchesPercentiles
<1>1. IInv => HistogramMatchesPercentiles
  <2> SUFFICES ASSUME IInv, NEW k \in Keys, reservoirs[k] # <<>>,
                      NEW p \in {50, 90, 99}, NEW limit \in Limits
               PROVE  PercentileAgrees(reservoirs[k], p, limit)
    BY DEF HistogramMatchesPercentiles, PercentileAgrees
  <2>1. reservoirs[k] \in Seq(Nat) /\ limit \in Nat
    BY TypeSplit, MetricsAssumption DEF IInv, LocalTypeOK
  <2> QED
    BY <2>1, PercentileWithin
<1> QED
  BY <1>1, InductiveInvariant, PTL

-----------------------------------------------------------------------------
(* What /metrics shows of a latency.                                        *)

(* As long as no sample has left, the exported sum is the total, in whole   *)
(* milliseconds.                                                            *)
LEMMA SumShown ==
  ASSUME NEW o \in Seq(Durations), NEW s \in Seq(Nat), NEW count, NEW total \in Nat,
         Window(o, s, count, total), Len(o) <= MaxSamples
  PROVE  (IF count = 0 THEN 0 ELSE (Milliseconds(total) * Len(s)) \div count)
           = Milliseconds(total)
<1>1. /\ Len(o) \in Nat /\ Len(s) = Len(o) /\ count = Len(o)
      /\ PartsPerMs \in Nat \ {0} /\ Milliseconds(total) \in Nat
  <2>1. Len(o) \in Nat /\ MaxSamples \in Nat /\ PartsPerMs \in Nat \ {0}
    BY LenProperties, MetricsAssumption
  <2>2. Milliseconds(total) \in Nat
    BY <2>1, DivideBounds DEF Milliseconds
  <2>3. count = Len(o) /\ Len(s) = IF Len(o) < MaxSamples THEN Len(o) ELSE MaxSamples
    BY DEF Window
  <2> QED
    BY <2>1, <2>2, <2>3
<1>2. CASE count = 0
  <2>1. s = <<>> /\ Sum(s) = 0
    BY <1>1, <1>2, EmptySeq, SumEmpty
  <2>2. total = 0
    BY <1>1, <1>2, <2>1 DEF Window
  <2> QED
    BY <1>1, <1>2, <2>2 DEF Milliseconds
<1>3. CASE count # 0
  BY <1>1, <1>3, DivideProduct
<1> QED
  BY <1>2, <1>3

LEMMA BucketGrows ==
  ASSUME NEW s \in Seq(Nat), NEW v \in Nat, NEW limit \in Nat
  PROVE  Bucket(s, limit) <= Bucket(Append(s, v), limit)
<1>1. /\ Append(s, v) \in Seq(Nat) /\ Len(Append(s, v)) = Len(s) + 1 /\ Len(s) \in Nat
      /\ \A i \in 1..Len(s) : Append(s, v)[i] = s[i]
  BY AppendProperties, LenProperties
<1> DEFINE B == {i \in DOMAIN s : s[i] <= limit}
           C == {i \in DOMAIN Append(s, v) : Append(s, v)[i] <= limit}
<1>2. B \subseteq C /\ C \subseteq 1..(Len(s) + 1)
  BY <1>1, LenProperties
<1>3. IsFiniteSet(C)
  <2>1. IsFiniteSet(1..(Len(s) + 1))
    BY <1>1, FS_Interval
  <2> HIDE DEF B, C
  <2> QED
    BY <1>2, <2>1, FS_Subset
<1> HIDE DEF B, C
<1>4. Cardinality(B) <= Cardinality(C)
  BY <1>2, <1>3, FS_Subset
<1> QED
  BY <1>4 DEF Bucket, B, C

(* HistogramGrows: for any capacity, until a reservoir is full a step never *)
(* lowers a bucket, the count or the sum that writeHistograms               *)
(* (exporter.go) makes of it.                                               *)
THEOREM HistogramsGrow == Spec => HistogramGrows
<1> DEFINE Grows(k) ==
      Len(reservoirs[k]) < MaxSamples =>
        LET before == Exposed(k)
            after  == Exposed(k)'
        IN  /\ after.count >= before.count
            /\ after.sum >= before.sum
            /\ \A limit \in Limits : after.buckets[limit] >= before.buckets[limit]
<1>1. IInv /\ WindowInv /\ WindowInv' /\ IInv' /\ [Next]_vars => \A k \in Keys : Grows(k)
  <2> SUFFICES ASSUME IInv, WindowInv, WindowInv', IInv', [Next]_vars, NEW k \in Keys,
                      Len(reservoirs[k]) < MaxSamples
               PROVE  Grows(k)
    OBVIOUS
  <2>1. /\ observed[k] \in Seq(Durations) /\ observed'[k] \in Seq(Durations)
        /\ reservoirs[k] \in Seq(Nat) /\ reservoirs'[k] \in Seq(Nat)
        /\ latencyTotals[k] \in Nat /\ latencyTotals'[k] \in Nat
        /\ Len(reservoirs[k]) \in Nat /\ Len(observed[k]) \in Nat
        /\ MaxSamples \in Nat /\ PartsPerMs \in Nat \ {0}
        /\ Durations \subseteq Nat /\ Limits \subseteq Nat
    BY TypeSplit, LenProperties, MetricsAssumption DEF IInv, TypeOK, LocalTypeOK
  <2>2. /\ Window(observed[k], reservoirs[k], latencyCounts[k], latencyTotals[k])
        /\ Window(observed'[k], reservoirs'[k], latencyCounts'[k], latencyTotals'[k])
    BY DEF WindowInv
  <2>3. Len(observed[k]) = Len(reservoirs[k])
    BY <2>1, <2>2 DEF Window
  <2>4. LatencyMoves(k)
    BY LatencySteps
  <2>5. Len(observed'[k]) <= MaxSamples /\ latencyTotals[k] <= latencyTotals'[k]
    BY <2>1, <2>3, <2>4, AppendProperties DEF LatencyMoves
  <2>6. reservoirs'[k] = reservoirs[k]
          \/ \E v \in Nat : reservoirs'[k] = Append(reservoirs[k], v)
    BY <2>1, <2>4, MillisecondsType DEF LatencyMoves, Added
  <2>7. Exposed(k)'.count >= Exposed(k).count
    BY <2>1, <2>6, AppendProperties DEF Exposed
  <2>8. Exposed(k)'.sum >= Exposed(k).sum
    <3>1. Exposed(k).sum = Milliseconds(latencyTotals[k])
      BY <2>1, <2>2, <2>3, SumShown DEF Exposed
    <3>2. Exposed(k)'.sum = Milliseconds(latencyTotals'[k])
      BY <2>1, <2>2, <2>5, SumShown DEF Exposed
    <3> QED
      BY <2>1, <2>5, <3>1, <3>2, DivideMonotone, DivideBounds DEF Milliseconds
  <2>9. ASSUME NEW limit \in Limits
        PROVE  Exposed(k)'.buckets[limit] >= Exposed(k).buckets[limit]
    <3>1. /\ Exposed(k)'.buckets[limit] = Bucket(reservoirs'[k], limit)
          /\ Exposed(k).buckets[limit] = Bucket(reservoirs[k], limit)
      BY DEF Exposed
    <3>2. Bucket(reservoirs[k], limit) \in Nat /\ Bucket(reservoirs'[k], limit) \in Nat
      BY <2>1, BucketType
    <3>3. CASE reservoirs'[k] = reservoirs[k]
      BY <3>1, <3>2, <3>3
    <3>4. ASSUME NEW v \in Nat, reservoirs'[k] = Append(reservoirs[k], v)
          PROVE  Bucket(reservoirs'[k], limit) >= Bucket(reservoirs[k], limit)
      <4>1. Bucket(reservoirs[k], limit) <= Bucket(Append(reservoirs[k], v), limit)
        BY <2>1, BucketGrows
      <4> QED
        BY <3>2, <3>4, <4>1
    <3> QED
      BY <2>6, <3>1, <3>3, <3>4
  <2> QED
    BY <2>7, <2>8, <2>9
<1> QED
  BY <1>1, InductiveInvariant, WindowInvariant, PTL DEF Spec, HistogramGrows

-----------------------------------------------------------------------------
(* The calls of the bridge.                                                 *)

(* Whether a call is counted by Inside(steps, kind, k).                     *)
CountedIn(c, steps, kind, k) ==
  IF c.step \in steps /\ c.kind = kind /\ c.key = k THEN 1 ELSE 0

(* The calls inside when g's becomes c.                                     *)
InsideMoved(g, c, steps, kind, k) ==
  /\ IsFiniteSet(Inside(steps, kind, k)')
  /\ Cardinality(Inside(steps, kind, k)) \in Nat
  /\ Cardinality(Inside(steps, kind, k)')
       = Cardinality(Inside(steps, kind, k))
           - CountedIn(call[g], steps, kind, k) + CountedIn(c, steps, kind, k)

LEMMA InsideMoves ==
  ASSUME TypeOK, NEW g \in Recorders, NEW c, call' = [call EXCEPT ![g] = c],
         NEW steps, NEW kind, NEW k, IsFiniteSet(Inside(steps, kind, k))
  PROVE  InsideMoved(g, c, steps, kind, k)
<1> DEFINE S == Inside(steps, kind, k)
           T == Inside(steps, kind, k)'
           Rest == S \ {g}
<1>1. T = IF CountedIn(c, steps, kind, k) = 1 THEN Rest \union {g} ELSE Rest
  BY TypeSplit DEF Inside, CountedIn
<1>2. g \in S <=> CountedIn(call[g], steps, kind, k) = 1
  BY DEF Inside, CountedIn
<1>3. CountedIn(c, steps, kind, k) \in {0, 1} /\ CountedIn(call[g], steps, kind, k) \in {0, 1}
  BY DEF CountedIn
<1> HIDE DEF S, T
<1>4. IsFiniteSet(S) /\ Cardinality(S) \in Nat
  BY FS_CardinalityType DEF S
<1>5. /\ IsFiniteSet(Rest) /\ g \notin Rest
      /\ Cardinality(Rest) = IF g \in S THEN Cardinality(S) - 1 ELSE Cardinality(S)
  BY <1>4, FS_RemoveElement
<1> HIDE DEF Rest
<1>6. /\ IsFiniteSet(Rest \union {g})
      /\ Cardinality(Rest \union {g}) = Cardinality(Rest) + 1
  BY <1>5, FS_AddElement
<1>7. IsFiniteSet(T) /\ Cardinality(T) = Cardinality(S)
                          - CountedIn(call[g], steps, kind, k) + CountedIn(c, steps, kind, k)
  BY <1>1, <1>2, <1>3, <1>4, <1>5, <1>6
<1> QED
  BY <1>4, <1>7 DEF S, T, InsideMoved

(* BridgeTallies of a kind and key.                                         *)
KeyTallies(kind, k) ==
  /\ kind # "gauge" =>
       Recorded(kind, k) =
         asked[kind][k] + (IF k = NoLabels THEN plain[kind] ELSE 0)
           - Cardinality(Inside({"again"}, kind, k))
  /\ bridge =>
       forwarded[kind][k] = asked[kind][k] - unforwarded[kind][k]
         - Cardinality(Inside(AllSteps, kind, k))

(* Finitely many calls are under way, whatever the number of recorders.     *)
KeyInv(kind, k) ==
  /\ IsFiniteSet(Inside({"again"}, kind, k))
  /\ IsFiniteSet(Inside(AllSteps, kind, k))
  /\ KeyTallies(kind, k)

BridgeInv == \A kind \in Kinds, k \in Keys : KeyInv(kind, k)

LEMMA InitBridge == Init => BridgeInv
<1> SUFFICES ASSUME Init, NEW kind \in Kinds, NEW k \in Keys PROVE KeyInv(kind, k)
  BY DEF BridgeInv
<1>1. Inside({"again"}, kind, k) = {} /\ Inside(AllSteps, kind, k) = {}
  BY DEF Init, Idle, Inside, AllSteps
<1>2. IsFiniteSet({}) /\ Cardinality({}) = 0
  BY FS_EmptySet
<1>3. /\ Recorded(kind, k) = 0 /\ asked[kind][k] = 0
      /\ forwarded[kind][k] = 0 /\ unforwarded[kind][k] = 0 /\ plain[kind] = 0
  BY DEF Init, Zero, Recorded
<1> QED
  BY <1>1, <1>2, <1>3 DEF KeyInv, KeyTallies

(* A local record counts once.                                              *)
LEMMA RecordedMoves ==
  ASSUME LocalTypeOK, NEW kind \in Kinds, NEW k \in Keys, NEW v,
         RecordLocally(kind, k, v), NEW other \in Kinds \ {"gauge"}, NEW j \in Keys
  PROVE  /\ Recorded(other, j) \in Nat
         /\ Recorded(other, j)' = IF other = kind /\ j = k THEN Recorded(other, j) + 1
                                  ELSE Recorded(other, j)
<1>1. CASE kind = "counter" /\ IncCounter(k)
  BY <1>1 DEF IncCounter, Recorded, LocalTypeOK, Kinds
<1>2. CASE kind = "latency" /\ RecordLatency(k, v)
  BY <1>2 DEF RecordLatency, Recorded, LocalTypeOK, Kinds
<1>3. CASE kind = "gauge" /\ SetGauge(k, v)
  BY <1>3 DEF SetGauge, Recorded, LocalTypeOK, Kinds
<1> QED
  BY <1>1, <1>2, <1>3 DEF RecordLocally

LEMMA TallyMoves ==
  ASSUME NEW t \in Tallies, NEW kind \in Kinds, NEW k \in Keys,
         NEW other \in Kinds, NEW j \in Keys
  PROVE  /\ t[other][j] \in Nat
         /\ [t EXCEPT ![kind][k] = @ + 1][other][j]
              = IF other = kind /\ j = k THEN t[other][j] + 1 ELSE t[other][j]
BY DEF Tallies

LEMMA RecordTallies ==
  ASSUME IInv, BridgeInv, NEW other \in Kinds, NEW j \in Keys,
         NEW g \in Recorders, NEW kind \in Kinds, NEW k \in Keys, NEW v,
         Record(g, kind, k, v)
  PROVE  KeyInv(other, j)'
<1> DEFINE One == IF other = kind /\ j = k THEN 1 ELSE 0
<1>1. /\ call[g] = Idle
      /\ asked' = [asked EXCEPT ![kind][k] = @ + 1]
      /\ RecordLocally(kind, k, v)
      /\ UNCHANGED <<bridge, forwarded, unforwarded>>
  BY DEF Record
<1>2. TypeOK /\ LocalTypeOK /\ KeyInv(other, j)
  BY TypeSplit DEF IInv, BridgeInv
<1>3. asked[other][j] \in Nat /\ asked'[other][j] = asked[other][j] + One
  BY <1>1, <1>2, TypeSplit, TallyMoves
<1>4. other # "gauge" => /\ Recorded(other, j) \in Nat
                         /\ Recorded(other, j)' = Recorded(other, j) + One
  BY <1>1, <1>2, RecordedMoves
<1>5. unforwarded[other][j] \in Nat /\ plain[other] \in Nat /\ One \in {0, 1}
  BY <1>2, TypeSplit, TallyMoves
<1>6. CASE ~bridge /\ UNCHANGED <<call, plain>>
  <2>1. /\ Inside({"again"}, other, j)' = Inside({"again"}, other, j)
        /\ Inside(AllSteps, other, j)' = Inside(AllSteps, other, j)
    BY <1>6 DEF Inside
  <2>2. Cardinality(Inside({"again"}, other, j)) \in Nat
    BY <1>2, FS_CardinalityType DEF KeyInv
  <2> QED
    BY <1>1, <1>2, <1>3, <1>4, <1>5, <1>6, <2>1, <2>2 DEF KeyInv, KeyTallies
<1>7. ASSUME NEW st \in {"again", "instrument"},
             st = "again" => k = NoLabels,
             bridge,
             call' = [call EXCEPT ![g] =
               [step |-> st, kind |-> kind, key |-> k, val |-> v]],
             plain' = IF st = "again" THEN [plain EXCEPT ![kind] = @ + 1] ELSE plain
      PROVE  KeyInv(other, j)'
  <2> DEFINE c == [step |-> st, kind |-> kind, key |-> k, val |-> v]
             Again == IF st = "again" THEN One ELSE 0
  <2>1. /\ CountedIn(call[g], {"again"}, other, j) = 0
        /\ CountedIn(call[g], AllSteps, other, j) = 0
    BY <1>1 DEF CountedIn, Idle, AllSteps
  <2>2. /\ CountedIn(c, {"again"}, other, j) = Again
        /\ CountedIn(c, AllSteps, other, j) = One
    BY DEF CountedIn, AllSteps
  <2>3. /\ j = NoLabels => plain'[other] = plain[other] + Again
        /\ j # NoLabels => Again = 0
    BY <1>2, <1>7, TypeSplit
  <2>4. Again \in {0, 1}
    OBVIOUS
  <2>5. call' = [call EXCEPT ![g] = c]
    BY <1>7
  <2> HIDE DEF c, Again, One
  <2>6. /\ InsideMoved(g, c, {"again"}, other, j)
        /\ InsideMoved(g, c, AllSteps, other, j)
    <3>1. /\ IsFiniteSet(Inside({"again"}, other, j))
          /\ IsFiniteSet(Inside(AllSteps, other, j))
      BY <1>2 DEF KeyInv
    <3> QED
      BY <1>2, <2>5, <3>1, InsideMoves
  <2>7. /\ IsFiniteSet(Inside({"again"}, other, j)')
        /\ IsFiniteSet(Inside(AllSteps, other, j)')
    BY <2>6 DEF InsideMoved
  <2>8. /\ Cardinality(Inside({"again"}, other, j)) \in Nat
        /\ Cardinality(Inside({"again"}, other, j)')
             = Cardinality(Inside({"again"}, other, j)) + Again
        /\ Cardinality(Inside(AllSteps, other, j)) \in Nat
        /\ Cardinality(Inside(AllSteps, other, j)')
             = Cardinality(Inside(AllSteps, other, j)) + One
    BY <1>5, <2>1, <2>2, <2>4, <2>6 DEF InsideMoved
  <2>9. other # "gauge" =>
          Recorded(other, j)' =
            asked'[other][j] + (IF j = NoLabels THEN plain'[other] ELSE 0)
              - Cardinality(Inside({"again"}, other, j)')
    <3>1. other # "gauge" =>
            Recorded(other, j) =
              asked[other][j] + (IF j = NoLabels THEN plain[other] ELSE 0)
                - Cardinality(Inside({"again"}, other, j))
      BY <1>2 DEF KeyInv, KeyTallies
    <3>2. CASE j = NoLabels
      BY <1>3, <1>4, <1>5, <2>3, <2>4, <2>8, <3>1, <3>2
    <3>3. CASE j # NoLabels
      BY <1>3, <1>4, <1>5, <2>3, <2>8, <3>1, <3>3
    <3> QED
      BY <3>2, <3>3
  <2>10. forwarded'[other][j] = asked'[other][j] - unforwarded'[other][j]
                                  - Cardinality(Inside(AllSteps, other, j)')
    <3>1. forwarded[other][j] = asked[other][j] - unforwarded[other][j]
                                  - Cardinality(Inside(AllSteps, other, j))
      BY <1>2, <1>7 DEF KeyInv, KeyTallies
    <3>2. forwarded' = forwarded /\ unforwarded' = unforwarded
      BY <1>1
    <3> QED
      BY <1>3, <1>5, <2>8, <3>1, <3>2
  <2> QED
    BY <2>7, <2>9, <2>10 DEF KeyInv, KeyTallies
<1>8. CASE /\ bridge /\ k = NoLabels
           /\ call' = [call EXCEPT ![g] =
                [step |-> "again", kind |-> kind, key |-> k, val |-> v]]
           /\ plain' = [plain EXCEPT ![kind] = @ + 1]
  BY <1>7, <1>8
<1>9. CASE /\ bridge
           /\ call' = [call EXCEPT ![g] =
                [step |-> "instrument", kind |-> kind, key |-> k, val |-> v]]
           /\ UNCHANGED plain
  BY <1>7, <1>9
<1> QED
  BY <1>6, <1>8, <1>9 DEF Record

(* The three steps after the first record.  None of them asks for more.     *)
LEMMA RecordAgainTallies ==
  ASSUME IInv, BridgeInv, NEW other \in Kinds, NEW j \in Keys,
         NEW g \in Recorders, RecordAgain(g)
  PROVE  KeyInv(other, j)'
<1> DEFINE kind == call[g].kind
           k == call[g].key
           c == [call[g] EXCEPT !.step = "instrument"]
           One == IF other = kind /\ j = k THEN 1 ELSE 0
<1>1. /\ call[g].step = "again"
      /\ call' = [call EXCEPT ![g] = c]
      /\ RecordLocally(kind, k, call[g].val)
      /\ UNCHANGED <<bridge, forwarded, unforwarded, asked, plain>>
  BY DEF RecordAgain
<1>2. TypeOK /\ LocalTypeOK /\ KeyInv(other, j) /\ kind \in Kinds /\ k \in Keys
  BY TypeSplit DEF IInv, BridgeInv
<1>3. other # "gauge" => /\ Recorded(other, j) \in Nat
                         /\ Recorded(other, j)' = Recorded(other, j) + One
  BY <1>1, <1>2, RecordedMoves
<1>4. /\ CountedIn(call[g], {"again"}, other, j) = One
      /\ CountedIn(call[g], AllSteps, other, j) = One
      /\ CountedIn(c, {"again"}, other, j) = 0
      /\ CountedIn(c, AllSteps, other, j) = One
  BY <1>1, <1>2, TypeSplit DEF CountedIn, AllSteps
<1>5. /\ asked[other][j] \in Nat /\ unforwarded[other][j] \in Nat /\ One \in {0, 1}
      /\ plain[other] \in Nat
  BY <1>2, TypeSplit, TallyMoves
<1> HIDE DEF c, One, kind, k
<1>6. /\ InsideMoved(g, c, {"again"}, other, j)
      /\ InsideMoved(g, c, AllSteps, other, j)
  <2>1. /\ IsFiniteSet(Inside({"again"}, other, j))
        /\ IsFiniteSet(Inside(AllSteps, other, j))
    BY <1>2 DEF KeyInv
  <2> QED
    BY <1>1, <1>2, <2>1, InsideMoves
<1>7. /\ IsFiniteSet(Inside({"again"}, other, j)')
      /\ IsFiniteSet(Inside(AllSteps, other, j)')
  BY <1>6 DEF InsideMoved
<1>8. KeyTallies(other, j)'
  BY <1>1, <1>2, <1>3, <1>4, <1>5, <1>6 DEF KeyInv, KeyTallies, InsideMoved
<1> QED
  BY <1>7, <1>8 DEF KeyInv

LEMMA InstrumentTallies ==
  ASSUME IInv, BridgeInv, NEW other \in Kinds, NEW j \in Keys,
         NEW g \in Recorders, Instrument(g)
  PROVE  KeyInv(other, j)'
<1> DEFINE kind == call[g].kind
           k == call[g].key
           One == IF other = kind /\ j = k THEN 1 ELSE 0
<1>1. /\ call[g].step = "instrument"
      /\ UNCHANGED <<bridge, local, forwarded, asked, plain>>
  BY DEF Instrument
<1>2. TypeOK /\ KeyInv(other, j) /\ kind \in Kinds /\ k \in Keys
  BY TypeSplit DEF IInv, BridgeInv
<1>3. Recorded(other, j)' = Recorded(other, j)
  BY <1>1 DEF Recorded, local
<1>4. /\ CountedIn(call[g], {"again"}, other, j) = 0
      /\ CountedIn(call[g], AllSteps, other, j) = One
  BY <1>1 DEF CountedIn, AllSteps
<1>5. /\ asked[other][j] \in Nat /\ unforwarded[other][j] \in Nat /\ One \in {0, 1}
      /\ plain[other] \in Nat
  BY <1>2, TypeSplit, TallyMoves
<1>6. PICK c : /\ call' = [call EXCEPT ![g] = c]
               /\ CountedIn(c, {"again"}, other, j) = 0
               /\ unforwarded'[other][j] - unforwarded[other][j]
                    = One - CountedIn(c, AllSteps, other, j)
               /\ CountedIn(c, AllSteps, other, j) \in {0, 1}
               /\ unforwarded'[other][j] \in Nat
  <2>1. CASE UNCHANGED unforwarded /\ call' = [call EXCEPT ![g].step = "forward"]
    <3> DEFINE c == [call[g] EXCEPT !.step = "forward"]
    <3>1. CountedIn(c, {"again"}, other, j) = 0 /\ CountedIn(c, AllSteps, other, j) = One
      BY <1>2, TypeSplit DEF CountedIn, AllSteps
    <3>2. call' = [call EXCEPT ![g] = c] /\ unforwarded'[other][j] = unforwarded[other][j]
      BY <2>1
    <3> HIDE DEF c, One
    <3>3. /\ unforwarded'[other][j] - unforwarded[other][j]
               = One - CountedIn(c, AllSteps, other, j)
          /\ CountedIn(c, AllSteps, other, j) \in {0, 1}
      BY <1>5, <3>1, <3>2
    <3> QED
      BY <1>5, <3>1, <3>2, <3>3
  <2>2. CASE /\ call' = [call EXCEPT ![g] = Idle]
             /\ unforwarded' = [unforwarded EXCEPT ![kind][k] = @ + 1]
    <3>1. CountedIn(Idle, {"again"}, other, j) = 0 /\ CountedIn(Idle, AllSteps, other, j) = 0
      BY DEF CountedIn, Idle, AllSteps
    <3>2. unforwarded'[other][j] = unforwarded[other][j] + One
      BY <1>2, <2>2, TypeSplit, TallyMoves
    <3>3. /\ unforwarded'[other][j] - unforwarded[other][j]
               = One - CountedIn(Idle, AllSteps, other, j)
          /\ CountedIn(Idle, AllSteps, other, j) \in {0, 1}
          /\ unforwarded'[other][j] \in Nat
      BY <1>5, <3>1, <3>2
    <3> QED
      BY <2>2, <3>1, <3>3
  <2> QED
    BY <2>1, <2>2 DEF Instrument
<1> HIDE DEF One, kind, k
<1>7. /\ InsideMoved(g, c, {"again"}, other, j)
      /\ InsideMoved(g, c, AllSteps, other, j)
  <2>1. /\ IsFiniteSet(Inside({"again"}, other, j))
        /\ IsFiniteSet(Inside(AllSteps, other, j))
    BY <1>2 DEF KeyInv
  <2> QED
    BY <1>2, <1>6, <2>1, InsideMoves
<1>8. /\ IsFiniteSet(Inside({"again"}, other, j)')
      /\ IsFiniteSet(Inside(AllSteps, other, j)')
  BY <1>7 DEF InsideMoved
<1>9. /\ Cardinality(Inside({"again"}, other, j)') = Cardinality(Inside({"again"}, other, j))
      /\ Cardinality(Inside(AllSteps, other, j)')
           = Cardinality(Inside(AllSteps, other, j))
               - (unforwarded'[other][j] - unforwarded[other][j])
      /\ Cardinality(Inside(AllSteps, other, j)) \in Nat
  BY <1>4, <1>5, <1>6, <1>7 DEF InsideMoved
<1>10. other # "gauge" =>
         Recorded(other, j)' =
           asked'[other][j] + (IF j = NoLabels THEN plain'[other] ELSE 0)
             - Cardinality(Inside({"again"}, other, j)')
  BY <1>1, <1>2, <1>3, <1>9 DEF KeyInv, KeyTallies
<1>11. bridge' => forwarded'[other][j] = asked'[other][j] - unforwarded'[other][j]
                                           - Cardinality(Inside(AllSteps, other, j)')
  BY <1>1, <1>2, <1>5, <1>6, <1>9 DEF KeyInv, KeyTallies
<1>12. KeyTallies(other, j)'
  BY <1>10, <1>11 DEF KeyTallies
<1> QED
  BY <1>8, <1>12 DEF KeyInv

LEMMA ForwardTallies ==
  ASSUME IInv, BridgeInv, NEW other \in Kinds, NEW j \in Keys,
         NEW g \in Recorders, Forward(g)
  PROVE  KeyInv(other, j)'
<1> DEFINE kind == call[g].kind
           k == call[g].key
           One == IF other = kind /\ j = k THEN 1 ELSE 0
<1>1. /\ call[g].step = "forward"
      /\ forwarded' = [forwarded EXCEPT ![kind][k] = @ + 1]
      /\ call' = [call EXCEPT ![g] = Idle]
      /\ UNCHANGED <<bridge, local, asked, plain, unforwarded>>
  BY DEF Forward
<1>2. TypeOK /\ KeyInv(other, j) /\ kind \in Kinds /\ k \in Keys
  BY TypeSplit DEF IInv, BridgeInv
<1>3. Recorded(other, j)' = Recorded(other, j)
  BY <1>1 DEF Recorded, local
<1>4. /\ CountedIn(call[g], {"again"}, other, j) = 0
      /\ CountedIn(call[g], AllSteps, other, j) = One
      /\ CountedIn(Idle, {"again"}, other, j) = 0
      /\ CountedIn(Idle, AllSteps, other, j) = 0
  BY <1>1 DEF CountedIn, AllSteps, Idle
<1>5. /\ asked[other][j] \in Nat /\ unforwarded[other][j] \in Nat /\ One \in {0, 1}
      /\ forwarded[other][j] \in Nat /\ plain[other] \in Nat
  BY <1>2, TypeSplit, TallyMoves
<1>6. forwarded'[other][j] = forwarded[other][j] + One
  BY <1>1, <1>2, TypeSplit, TallyMoves
<1> HIDE DEF One, kind, k
<1>7. /\ InsideMoved(g, Idle, {"again"}, other, j)
      /\ InsideMoved(g, Idle, AllSteps, other, j)
  <2>1. /\ IsFiniteSet(Inside({"again"}, other, j))
        /\ IsFiniteSet(Inside(AllSteps, other, j))
    BY <1>2 DEF KeyInv
  <2> QED
    BY <1>1, <1>2, <2>1, InsideMoves
<1>8. /\ IsFiniteSet(Inside({"again"}, other, j)')
      /\ IsFiniteSet(Inside(AllSteps, other, j)')
  BY <1>7 DEF InsideMoved
<1>9. KeyTallies(other, j)'
  BY <1>1, <1>2, <1>3, <1>4, <1>5, <1>6, <1>7 DEF KeyInv, KeyTallies, InsideMoved
<1> QED
  BY <1>8, <1>9 DEF KeyInv

LEMMA NextBridge == IInv /\ BridgeInv /\ [Next]_vars => BridgeInv'
<1> SUFFICES ASSUME IInv, BridgeInv, [Next]_vars, NEW other \in Kinds, NEW j \in Keys
             PROVE  KeyInv(other, j)'
  BY DEF BridgeInv
<1>1. CASE UNCHANGED vars
  <2>1. KeyInv(other, j)
    BY DEF BridgeInv
  <2> QED
    BY <1>1, <2>1 DEF vars, local, KeyInv, KeyTallies, Inside, Recorded
<1>2. CASE Next
  <2>1. PICK g \in Recorders :
          \/ \E k \in Keys : Record(g, "counter", k, 0)
          \/ \E k \in Keys, d \in Durations : Record(g, "latency", k, d)
          \/ \E k \in Keys, v \in GaugeValues : Record(g, "gauge", k, v)
          \/ RecordAgain(g)
          \/ Instrument(g)
          \/ Forward(g)
    BY <1>2 DEF Next
  <2>2. CASE \E kind \in Kinds, k \in Keys, v \in Durations \union GaugeValues \union {0} :
               Record(g, kind, k, v)
    BY <2>2, RecordTallies
  <2>3. CASE RecordAgain(g) \/ Instrument(g) \/ Forward(g)
    BY <2>3, RecordAgainTallies, InstrumentTallies, ForwardTallies
  <2> QED
    BY <2>1, <2>2, <2>3 DEF Kinds
<1> QED
  BY <1>1, <1>2

(* BridgeTallies: for any number of recorders, every call of the bridge     *)
(* (otel_bridge.go:77-174) reaches its instrument once or has none, and is  *)
(* in the local engine once when it was made with a set of labels, be it    *)
(* empty, and twice when it was made without.                               *)
THEOREM BridgeCounts == Spec => []BridgeTallies
<1>1. BridgeInv => BridgeTallies
  BY DEF BridgeInv, KeyInv, KeyTallies, BridgeTallies
<1>2. Spec => []BridgeInv
  BY InitBridge, NextBridge, InductiveInvariant, PTL DEF Spec
<1> QED
  BY <1>1, <1>2, PTL
=============================================================================
