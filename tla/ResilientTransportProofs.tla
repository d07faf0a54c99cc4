----------------------- MODULE ResilientTransportProofs -----------------------
(***************************************************************************)
(* The types of ResilientTransport, with the bound on the attempts of a    *)
(* call, and the shielding of the backend, for any number of callers, any  *)
(* number of retries and any limits of the breaker.                        *)
(***************************************************************************)
EXTENDS ResilientTransport, FiniteSetTheorems, SequenceTheorems, TLAPS

(* A call that goes on has not used up its attempts; one about to be        *)
(* recorded has an answer.                                                  *)
AttemptsLeft ==
  \A c \in Callers :
    /\ pc[c] \in {"attempt", "sleep"} => attempts[c] <= Retries
    /\ pc[c] = "record" => outcome[c] \in {"ok", "transient"}

IInv == TypeOK /\ AttemptsLeft /\ OpenShieldsBackend

-----------------------------------------------------------------------------
LEMMA InFlightType ==
  /\ InFlight \subseteq Callers
  /\ \A S \in SUBSET Callers : Cardinality(S) \in Nat
BY TransportAssumption, FS_Subset, FS_CardinalityType DEF InFlight

LEMMA ElapsedType ==
  /\ CB!Elapsed \in Nat /\ CB!Elapsed > Cooldown
  /\ \A a \in 0..CB!Elapsed : CB!Older(a) \in 0..CB!Elapsed
BY TransportAssumption DEF CB!Elapsed, CB!Older

LEMMA InitIInv == Init => IInv
<1> SUFFICES ASSUME Init PROVE IInv
  OBVIOUS
<1>1. CB!TypeOK
  BY InFlightType, ElapsedType, EmptySeq DEF Init, CB!Init, CB!TypeOK
<1>2. TypeOK
  BY <1>1, TransportAssumption DEF Init, TypeOK
<1>3. AttemptsLeft /\ OpenShieldsBackend
  BY TransportAssumption DEF Init, AttemptsLeft, OpenShieldsBackend
<1> QED
  BY <1>2, <1>3 DEF IInv

LEMMA TickKeeps == ASSUME IInv, Tick PROVE IInv'
<1>1. /\ age' \in 0..CB!Elapsed /\ sinceTrip' \in 0..CB!Elapsed
      /\ DOMAIN pause' = Callers
      /\ UNCHANGED <<state, failures, consecutive, total, results, faults, pc,
                     attempts, outcome, bad, fresh>>
  BY ElapsedType DEF Tick, IInv, TypeOK, CB!TypeOK
<1>2. InFlight' = InFlight
  BY <1>1 DEF InFlight
<1>3. CB!TypeOK'
  BY <1>1, <1>2, InFlightType DEF IInv, TypeOK, CB!TypeOK
<1> QED
  BY <1>1, <1>2, <1>3 DEF IInv, TypeOK, AttemptsLeft, OpenShieldsBackend

LEMMA EnterKeeps == ASSUME IInv, NEW c \in Callers, Enter(c) PROVE IInv'
<1>1. /\ pc' = [pc EXCEPT ![c] = "attempt"] /\ attempts' = [attempts EXCEPT ![c] = 0]
      /\ fresh' = fresh \union {c} /\ UNCHANGED <<pause, outcome, bad>>
      /\ UNCHANGED <<failures, consecutive, total, sinceTrip, results, faults>>
      /\ age' = age \/ age' = 0
      /\ state' \in {"Closed", "HalfOpen"}
  BY DEF Enter, CB!Admit, CB!counts
<1>2. CB!TypeOK'
  <2>1. Cardinality(InFlight') \in Nat
    BY InFlightType DEF InFlight
  <2>2. CB!TypeOK
    BY DEF IInv, TypeOK
  <2>3. state' \in {"Closed", "Open", "HalfOpen"}
    BY <1>1
  <2>4. age' \in 0..CB!Elapsed
    <3>1. age \in 0..CB!Elapsed
      BY <2>2 DEF CB!TypeOK
    <3>2. 0 \in 0..CB!Elapsed
      BY ElapsedType
    <3> QED
      BY <1>1, <3>1, <3>2, Zenon
  <2> QED
    BY <1>1, <2>1, <2>2, <2>3, <2>4 DEF CB!TypeOK
<1>3. InFlight' = InFlight \union {c}
  BY <1>1 DEF InFlight, IInv, TypeOK
<1>4. TypeOK'
  BY <1>1, <1>2, <1>3, TransportAssumption DEF IInv, TypeOK
<1>5. AttemptsLeft'
  BY <1>1, TransportAssumption DEF IInv, TypeOK, AttemptsLeft
<1> QED
  BY <1>1, <1>4, <1>5 DEF IInv, OpenShieldsBackend

LEMMA RefuseKeeps == ASSUME IInv, NEW c \in Callers, Refuse(c) PROVE IInv'
<1>1. /\ pc[c] = "idle" /\ outcome' = [outcome EXCEPT ![c] = "refused"]
      /\ UNCHANGED <<state, failures, consecutive, total, age, sinceTrip,
                     results, faults, pc, attempts, pause, bad, fresh>>
  BY DEF Refuse, breaker
<1>2. InFlight' = InFlight
  BY <1>1 DEF InFlight
<1>3. CB!TypeOK'
  BY <1>1, <1>2 DEF IInv, TypeOK, CB!TypeOK
<1>4. TypeOK'
  BY <1>1, <1>2, <1>3 DEF IInv, TypeOK
<1> QED
  BY <1>1, <1>4 DEF IInv, TypeOK, AttemptsLeft, OpenShieldsBackend

LEMMA AnswerKeeps ==
  ASSUME IInv, NEW c \in Callers, NEW o \in {"ok", "transient"}, Answer(c, o)
  PROVE  IInv'
<1>1. /\ pc[c] = "attempt" /\ attempts[c] \in 0..Retries
      /\ attempts' = [attempts EXCEPT ![c] = @ + 1]
      /\ outcome' = [outcome EXCEPT ![c] = o]
      /\ UNCHANGED <<state, failures, consecutive, total, age, sinceTrip,
                     results, faults, fresh>>
      /\ bad' = IF o = "transient" THEN bad + 1 ELSE bad
  BY DEF Answer, breaker, IInv, TypeOK, AttemptsLeft
<1>2. /\ DOMAIN pause' = Callers
      /\ \/ pc' = [pc EXCEPT ![c] = "sleep"] /\ attempts[c] < Retries
         \/ pc' = [pc EXCEPT ![c] = "record"]
  BY DEF Answer, RetryLater, IInv, TypeOK
<1>3. InFlight' = InFlight
  BY <1>1, <1>2 DEF InFlight, IInv, TypeOK
<1>4. CB!TypeOK'
  BY <1>1, <1>3 DEF IInv, TypeOK, CB!TypeOK
<1>5. attempts' \in [Callers -> 0..Retries + 1]
  BY <1>1, TransportAssumption DEF IInv, TypeOK
<1>6. TypeOK'
  BY <1>1, <1>2, <1>3, <1>4, <1>5 DEF IInv, TypeOK
<1>7. AttemptsLeft'
  BY <1>1, <1>2, TransportAssumption DEF IInv, TypeOK, AttemptsLeft
<1> QED
  BY <1>1, <1>6, <1>7 DEF IInv, OpenShieldsBackend

LEMMA WakeKeeps == ASSUME IInv, NEW c \in Callers, Wake(c) PROVE IInv'
<1>1. /\ pc[c] = "sleep" /\ pc' = [pc EXCEPT ![c] = "attempt"]
      /\ UNCHANGED <<state, failures, consecutive, total, age, sinceTrip,
                     results, faults, attempts, pause, outcome, bad, fresh>>
  BY DEF Wake, breaker
<1>2. InFlight' = InFlight
  BY <1>1 DEF InFlight, IInv, TypeOK
<1>3. CB!TypeOK'
  BY <1>1, <1>2 DEF IInv, TypeOK, CB!TypeOK
<1>4. TypeOK'
  BY <1>1, <1>2, <1>3 DEF IInv, TypeOK
<1> QED
  BY <1>1, <1>4 DEF IInv, TypeOK, AttemptsLeft, OpenShieldsBackend

(* The one step that can open the breaker: it leaves no caller in flight    *)
(* that was admitted after the trip.                                        *)
LEMMA RecordKeeps == ASSUME IInv, NEW c \in Callers, Record(c) PROVE IInv'
<1>1. /\ pc[c] = "record" /\ pc' = [pc EXCEPT ![c] = "idle"]
      /\ UNCHANGED <<attempts, pause, outcome, bad>>
      /\ fresh' = IF state' = "Open" /\ sinceTrip' = 0 /\ outcome[c] = "transient"
                  THEN {} ELSE fresh \ {c}
  BY DEF Record
<1>2. InFlight' = InFlight \ {c}
  BY <1>1 DEF InFlight, IInv, TypeOK
<1>3. /\ failures' \in Nat /\ consecutive' \in Nat /\ total' \in Nat /\ faults' \in Nat
      /\ results' \in Seq(BOOLEAN)
      /\ state' \in {"Closed", "Open", "HalfOpen"}
      /\ age' \in 0..CB!Elapsed /\ sinceTrip' \in 0..CB!Elapsed
      /\ state' = "Open" => fresh' = {}
  <2>0. /\ failures \in Nat /\ consecutive \in Nat /\ total \in Nat /\ faults \in Nat
        /\ results \in Seq(BOOLEAN) /\ state \in {"Closed", "Open", "HalfOpen"}
        /\ age \in 0..CB!Elapsed /\ sinceTrip \in 0..CB!Elapsed
        /\ state = "Open" => fresh = {}
        /\ 0 \in 0..CB!Elapsed
    BY ElapsedType DEF IInv, TypeOK, CB!TypeOK, OpenShieldsBackend
  <2>1. CASE outcome[c] = "transient" /\ CB!RecordFailure
    <3>1. /\ failures' = failures + 1 /\ consecutive' = consecutive + 1
          /\ total' = total + 1 /\ faults' = faults + 1
          /\ results' = Append(results, TRUE)
          /\ \/ state' = "Open" /\ age' = 0 /\ sinceTrip' = 0
             \/ UNCHANGED <<state, age, sinceTrip>>
      BY <2>1 DEF CB!RecordFailure, CB!Trip
    <3>2. results' \in Seq(BOOLEAN)
      BY <2>0, <3>1, AppendProperties
    <3> QED
      BY <1>1, <2>0, <2>1, <3>1, <3>2
  <2>2. CASE outcome[c] = "ok" /\ CB!RecordSuccess
    <3>1. UNCHANGED <<sinceTrip, faults>>
      BY <2>2 DEF CB!RecordSuccess
    <3>2. CASE state = "HalfOpen"
      <4>1. /\ state' = "Closed" /\ failures' = 0 /\ consecutive' = 0
            /\ total' = 0 /\ age' = 0 /\ results' = <<>>
        BY <2>2, <3>2 DEF CB!RecordSuccess, CB!Reset
      <4> QED
        BY <2>0, <3>1, <4>1
    <3>3. CASE state # "HalfOpen"
      <4>1. /\ consecutive' = 0 /\ total' = total + 1
            /\ results' = Append(results, FALSE)
            /\ UNCHANGED <<state, failures, age>>
        BY <2>2, <3>3, Zenon DEF CB!RecordSuccess
      <4>2. results' \in Seq(BOOLEAN) /\ total' \in Nat
        BY <2>0, <4>1, AppendProperties
      <4> QED
        BY <1>1, <2>0, <3>1, <4>1, <4>2
    <3> QED
      BY <3>2, <3>3
  <2> QED
    BY <2>1, <2>2 DEF Record
<1>4. CB!TypeOK'
  <2>1. Cardinality(InFlight') \in Nat
    BY InFlightType DEF InFlight
  <2> QED
    BY <1>3, <2>1 DEF CB!TypeOK
<1>5. fresh' \subseteq InFlight'
  BY <1>1, <1>2 DEF IInv, TypeOK
<1>6. TypeOK'
  BY <1>1, <1>4, <1>5 DEF IInv, TypeOK
<1>7. AttemptsLeft'
  BY <1>1 DEF IInv, TypeOK, AttemptsLeft
<1> QED
  BY <1>3, <1>6, <1>7 DEF IInv, OpenShieldsBackend

LEMMA InductiveInvariant == Spec => []IInv
<1>1. IInv /\ [Next]_vars => IInv'
  <2> SUFFICES ASSUME IInv, [Next]_vars PROVE IInv'
    OBVIOUS
  <2>1. CASE UNCHANGED vars
    <3>1. UNCHANGED InFlight
      BY <2>1 DEF vars, calls, InFlight
    <3> QED
      BY <2>1, <3>1 DEF vars, breaker, calls, IInv, TypeOK, CB!TypeOK, AttemptsLeft,
         OpenShieldsBackend
  <2> QED
    BY <2>1, TickKeeps, EnterKeeps, RefuseKeeps, AnswerKeeps, WakeKeeps,
       RecordKeeps DEF Next, InCall
<1> QED
  BY InitIInv, <1>1, PTL DEF Spec

-----------------------------------------------------------------------------
(* executeWithRetry makes one attempt and at most Retries more, and the     *)
(* breaker and the callers keep their types.                                *)
THEOREM TypeCorrect == Spec => []TypeOK
<1>1. IInv => TypeOK
  BY DEF IInv
<1> QED
  BY <1>1, InductiveInvariant, PTL

(* While the breaker is open nobody is at the backend, or on the way back   *)
(* to it after a pause, but those admitted before the trip.                 *)
THEOREM BackendShielded == Spec => []OpenShieldsBackend
<1>1. IInv => OpenShieldsBackend
  BY DEF IInv
<1> QED
  BY <1>1, InductiveInvariant, PTL

-----------------------------------------------------------------------------
(* RoundTrip is never held up by the breaker's bound on calls in flight,    *)
(* and takes and gives back one place of it, however many attempts it makes.*)
LEMMA PlacesSuffice ==
  ASSUME NEW c \in Callers, NEW at, pc \in [Callers -> STRING],
         pc[c] = "idle", at # "idle", pc' = [pc EXCEPT ![c] = at]
  PROVE  /\ Cardinality(InFlight) < Cardinality(Callers)
         /\ Cardinality(InFlight') = Cardinality(InFlight) + 1
<1>1. IsFiniteSet(InFlight) /\ InFlight \subseteq Callers \ {c}
  BY FS_Subset, TransportAssumption DEF InFlight
<1>2. InFlight' = InFlight \union {c} /\ c \notin InFlight
  BY DEF InFlight
<1>3. Cardinality(InFlight') = Cardinality(InFlight) + 1
  BY <1>1, <1>2, FS_AddElement
<1>4. Cardinality(InFlight') <= Cardinality(Callers)
  BY <1>1, <1>2, FS_Subset, TransportAssumption
<1>5. Cardinality(InFlight) \in Nat /\ Cardinality(Callers) \in Nat
  BY <1>1, FS_CardinalityType, TransportAssumption
<1> QED
  BY <1>3, <1>4, <1>5

LEMMA BreakerInit == Init => CB!Init
<1> SUFFICES ASSUME Init PROVE CB!Init
  OBVIOUS
<1>1. InFlight = {}
  BY DEF Init, InFlight
<1>2. Cardinality(InFlight) = 0
  BY <1>1, FS_EmptySet
<1> QED
  BY <1>2 DEF Init, CB!Init

LEMMA BreakerStep == IInv /\ [Next]_vars => [CB!Next]_(CB!vars)
<1> SUFFICES ASSUME IInv, [Next]_vars PROVE [CB!Next]_(CB!vars)
  OBVIOUS
<1> DEFINE Rests == UNCHANGED breaker /\ UNCHANGED InFlight
<1>1. Rests => UNCHANGED CB!vars
  BY DEF breaker, CB!vars, CB!counts
<1>2. CASE UNCHANGED vars
  BY <1>1, <1>2 DEF vars, calls, InFlight
<1>3. CASE Tick
  <2>1. InFlight' = InFlight
    BY <1>3 DEF Tick, InFlight
  <2>2. CASE age < CB!Elapsed \/ sinceTrip < CB!Elapsed
    BY <1>3, <2>1, <2>2 DEF Tick, CB!Next, CB!Tick, CB!counts
  <2>3. CASE ~(age < CB!Elapsed \/ sinceTrip < CB!Elapsed)
    <3>1. CB!Older(age) = age /\ CB!Older(sinceTrip) = sinceTrip
      BY <2>3 DEF CB!Older
    <3> QED
      BY <1>1, <1>3, <2>1, <3>1 DEF Tick, breaker
  <2> QED
    BY <2>2, <2>3
<1>4. ASSUME NEW c \in Callers, Enter(c) PROVE CB!Next
  BY <1>4 DEF Enter, CB!Next
<1>5. ASSUME NEW c \in Callers, Refuse(c) PROVE Rests
  BY <1>5 DEF Refuse, InFlight
<1>6. ASSUME NEW c \in Callers, NEW o \in {"ok", "transient"}, Answer(c, o)
      PROVE  Rests
  <2>1. pc[c] = "attempt"
        /\ pc' \in {[pc EXCEPT ![c] = "sleep"], [pc EXCEPT ![c] = "record"]}
    BY <1>6 DEF Answer
  <2>2. InFlight' = InFlight
    BY <2>1 DEF InFlight, IInv, TypeOK
  <2> QED
    BY <1>6, <2>2 DEF Answer
<1>7. ASSUME NEW c \in Callers, Wake(c) PROVE Rests
  BY <1>7 DEF Wake, InFlight, IInv, TypeOK
<1>8. ASSUME NEW c \in Callers, Record(c) PROVE CB!Next
  BY <1>8 DEF Record, CB!Next
<1> QED
  BY <1>1, <1>2, <1>3, <1>4, <1>5, <1>6, <1>7, <1>8 DEF Next, InCall

(* RoundTrip holds to the breaker's protocol: one RecordResult for every    *)
(* Allow that answered true, whatever the retries between, and none for a   *)
(* call that was refused.                                                   *)
THEOREM TransportImplementsBreaker == Spec => ImplementsBreaker
<1>1. Spec => [][CB!Next]_(CB!vars)
  BY InductiveInvariant, BreakerStep, PTL DEF Spec
<1>2. Spec => CB!Spec
  BY <1>1, BreakerInit, PTL DEF Spec, CB!Spec
<1> QED
  BY <1>2 DEF ImplementsBreaker
=============================================================================
