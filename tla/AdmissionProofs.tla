-------------------------- MODULE AdmissionProofs ---------------------------
(***************************************************************************)
(* The two components that decide what is let through.                     *)
(*                                                                         *)
(* RateLimiter, for every burst, rate and clock resolution: its types, the *)
(* bound on the entries of a window, the agreement of bucket and history,  *)
(* and that the bucket implements RateLimitContract.                       *)
(*                                                                         *)
(* CircuitBreaker, for every threshold, limit and cooldown, and any number *)
(* of calls in flight: its types, the cooldown, the state diagram, and     *)
(* that its counters are those of the results it was given.                *)
(***************************************************************************)
EXTENDS RateLimiter, CircuitBreaker, SequenceTheorems, FiniteSetTheorems, TLAPS

(* The inductive invariant.  BucketMatchesHistory is what makes WindowBound *)
(* inductive: it says what the bucket holds in terms of the past grants.    *)
LimiterInv == LimiterTypeOK /\ BucketMatchesHistory /\ WindowBound

(* Products of natural numbers are natural numbers.                         *)
LEMMA NatProduct == ASSUME NEW a \in Nat, NEW b \in Nat PROVE a * b \in Nat
  OBVIOUS

LEMMA IntProduct == ASSUME NEW a \in Int, NEW b \in Int PROVE a * b \in Int
  OBVIOUS

(* Refilling leaves the bucket between empty and full.                      *)
LEMMA RefilledType ==
  ASSUME LimiterTypeOK
  PROVE  /\ Capacity \in Nat
         /\ One \in Nat \ {0}
         /\ (now - lastRefill) * Rate \in Nat
         /\ Refilled \in 0..Capacity
         /\ Refilled = Capacity \/ Refilled = tokens + (now - lastRefill) * Rate
         /\ Refilled <= tokens + (now - lastRefill) * Rate
<1>1. Capacity \in Nat /\ One \in Nat \ {0}
  BY LimiterAssumption, NatProduct DEF Capacity, One
<1>2. now - lastRefill \in Nat
  BY LimiterAssumption DEF LimiterTypeOK
<1>3. (now - lastRefill) * Rate \in Nat
  BY <1>2, NatProduct, LimiterAssumption
<1> DEFINE accrued == (now - lastRefill) * Rate
<1> HIDE DEF accrued
<1>4. Refilled = IF tokens + accrued > Capacity THEN Capacity ELSE tokens + accrued
  BY DEF Refilled, accrued
<1>5. accrued \in Nat /\ tokens \in Nat /\ tokens <= Capacity
  BY <1>1, <1>3 DEF accrued, LimiterTypeOK
<1>6. /\ Refilled \in 0..Capacity
      /\ Refilled = Capacity \/ Refilled = tokens + accrued
      /\ Refilled <= tokens + accrued
  BY <1>1, <1>4, <1>5
<1> QED
  BY <1>1, <1>3, <1>6 DEF accrued

(* The room of a window grows with the clock by what the bucket is refilled.*)
LEMMA RoomGrows ==
  ASSUME LimiterTypeOK, NEW i \in 1..Len(grants)
  PROVE  /\ Contract!Room(i, now)
              = Contract!Room(i, lastRefill) + (now - lastRefill) * Rate
         /\ Contract!Room(i, now) \in Int
         /\ Contract!Room(i, lastRefill) \in Int
<1> DEFINE b == Burst * TicksPerSecond
           p == Rate * (now - grants[i])
           q == Rate * (lastRefill - grants[i])
           k == TicksPerSecond * (Len(grants) - i + 1)
           a == (now - lastRefill) * Rate
<1>1. now \in Int /\ lastRefill \in Int /\ grants[i] \in Int /\ Len(grants) \in Nat
  BY LimiterAssumption DEF LimiterTypeOK
<1>2. Rate \in Int /\ Burst \in Int /\ TicksPerSecond \in Int
  BY LimiterAssumption
<1>3. b \in Int /\ p \in Int /\ q \in Int /\ k \in Int /\ a \in Int
  BY <1>1, <1>2, IntProduct
<1>4. p = q + a
  BY <1>1, <1>2
<1>5. Contract!Room(i, now) = b + p - k /\ Contract!Room(i, lastRefill) = b + q - k
  BY DEF Contract!Room
<1> HIDE DEF b, p, q, k, a
<1>6. /\ Contract!Room(i, now) = Contract!Room(i, lastRefill) + a
      /\ Contract!Room(i, now) \in Int
      /\ Contract!Room(i, lastRefill) \in Int
  BY <1>3, <1>4, <1>5
<1> QED
  BY <1>6 DEF a

(* After the refill the bucket still matches the history, at the new time.  *)
LEMMA RefilledMatchesHistory ==
  ASSUME LimiterTypeOK, BucketMatchesHistory
  PROVE  /\ \A i \in 1..Len(grants) : Refilled <= Contract!Room(i, now)
         /\ \/ Refilled = Capacity
            \/ \E i \in 1..Len(grants) : Refilled = Contract!Room(i, now)
<1> DEFINE accrued == (now - lastRefill) * Rate
<1>1. accrued \in Nat /\ Capacity \in Nat /\ tokens \in Nat /\ Refilled \in Nat
  BY RefilledType DEF LimiterTypeOK
<1>2. ASSUME NEW i \in 1..Len(grants)
      PROVE  Refilled <= Contract!Room(i, now)
  <2>1. tokens <= Contract!Room(i, lastRefill)
    BY DEF BucketMatchesHistory
  <2>2. Refilled <= tokens + accrued
    BY RefilledType
  <2>3. Contract!Room(i, now) = Contract!Room(i, lastRefill) + accrued
    BY RoomGrows
  <2> HIDE DEF accrued
  <2> QED
    BY <1>1, <2>1, <2>2, <2>3, RoomGrows
<1>3. CASE Refilled = Capacity
  BY <1>2, <1>3
<1>4. CASE Refilled # Capacity
  <2>1. Refilled = tokens + accrued /\ Refilled <= Capacity
    BY <1>4, RefilledType
  <2>2. tokens # Capacity
    <3> HIDE DEF accrued
    <3> QED BY <1>1, <1>4, <2>1
  <2>3. PICK i \in 1..Len(grants) : tokens = Contract!Room(i, lastRefill)
    BY <2>2 DEF BucketMatchesHistory
  <2>4. Refilled = Contract!Room(i, now)
    BY <2>1, <2>3, RoomGrows
  <2> QED
    BY <1>2, <2>4
<1> QED
  BY <1>3, <1>4

-----------------------------------------------------------------------------
LEMMA InitLimiterInv == LimiterInit => LimiterInv
<1> SUFFICES ASSUME LimiterInit PROVE LimiterInv
  OBVIOUS
<1>1. Capacity \in Nat
  BY LimiterAssumption, NatProduct DEF Capacity, One
<1>2. LimiterTypeOK
  BY <1>1, LimiterAssumption DEF LimiterInit, LimiterTypeOK
<1>3. BucketMatchesHistory /\ WindowBound
  BY DEF LimiterInit, BucketMatchesHistory, WindowBound
<1> QED
  BY <1>2, <1>3 DEF LimiterInv

LEMMA NextLimiterInv == LimiterInv /\ [LimiterNext]_limiterVars => LimiterInv'
<1> SUFFICES ASSUME LimiterInv, [LimiterNext]_limiterVars PROVE LimiterInv'
  OBVIOUS
<1> USE DEF LimiterInv
<1>0. /\ now \in Nat /\ lastRefill \in Nat /\ lastRefill <= now
      /\ now <= MaxTicks /\ grants \in Seq(0..now) /\ skippedCount \in Nat
  BY LimiterAssumption DEF LimiterTypeOK
<1>1. CASE ClockTick
  <2>1. LimiterTypeOK'
    <3>1. \A i \in 1..Len(grants) : grants[i] \in 0..now'
      BY <1>0, <1>1 DEF ClockTick
    <3>2. grants' \in Seq(0..now')
      BY <1>0, <1>1, <3>1 DEF ClockTick
    <3> QED
      BY <1>0, <1>1, <3>2, LimiterAssumption DEF ClockTick, LimiterTypeOK, Capacity, One,
        Admitted, Sampled, Refused
  <2>2. BucketMatchesHistory' /\ WindowBound'
    BY <1>1 DEF ClockTick, BucketMatchesHistory, WindowBound, Contract!Room, Capacity, One
  <2> QED
    BY <2>1, <2>2
<1>2. CASE SkipEntry
  <2>1. LimiterTypeOK'
    <3>1. tokens' \in 0..Capacity /\ lastRefill' \in 0..now' /\ now' = now
      BY <1>0, <1>2, RefilledType DEF SkipEntry
    <3>2. skippedCount' \in Nat /\ grants' = grants /\ reply' \in {Sampled, Refused}
      BY <1>0, <1>2 DEF SkipEntry
    <3> QED
      BY <3>1, <3>2 DEF LimiterTypeOK, Capacity, One, Admitted, Sampled, Refused
  <2>2. BucketMatchesHistory'
    BY <1>2, RefilledMatchesHistory
      DEF SkipEntry, BucketMatchesHistory, Contract!Room, Capacity, One
  <2>3. WindowBound'
    BY <1>2 DEF SkipEntry, WindowBound, Capacity, One
  <2> QED
    BY <2>1, <2>2, <2>3
<1>3. CASE TakeToken
  <2> DEFINE n == Len(grants)
  <2>1. /\ n \in Nat /\ grants' = Append(grants, now) /\ Len(grants') = n + 1
        /\ grants'[n + 1] = now
        /\ \A i \in 1..n : grants'[i] = grants[i]
        /\ grants' \in Seq(0..now)
    BY <1>0, <1>3 DEF TakeToken
  <2>2. /\ tokens' = Refilled - One /\ lastRefill' = now /\ now' = now
        /\ Refilled \in 0..Capacity /\ Refilled >= One
        /\ One \in Nat \ {0} /\ Capacity \in Nat
        /\ One = TicksPerSecond /\ Capacity = Burst * TicksPerSecond
    BY <1>3, RefilledType DEF TakeToken, One, Capacity
  <2>3. LimiterTypeOK'
    <3>1. tokens' \in 0..Capacity
      BY <2>2
    <3> QED
      BY <1>0, <1>3, <2>1, <2>2, <3>1
        DEF TakeToken, LimiterTypeOK, Capacity, One, Admitted, Sampled, Refused
  <2> DEFINE b == Burst * TicksPerSecond
             room(i) == b + Rate * (now - grants'[i]) - TicksPerSecond * (n + 1 - i + 1)
  <2>4. ASSUME NEW i \in 1..n
        PROVE  room(i) = Contract!Room(i, now) - One /\ Contract!Room(i, now) \in Int
    <3> DEFINE p == Rate * (now - grants[i])
               k == TicksPerSecond * (n - i + 1)
    <3>1. grants'[i] = grants[i] /\ grants[i] \in Int /\ now \in Int
      BY <1>0, <2>1
    <3>2. TicksPerSecond * (n + 1 - i + 1) = k + TicksPerSecond
      BY <2>1, LimiterAssumption
    <3>3. p \in Int /\ k \in Int /\ b \in Int
      BY <2>1, <3>1, IntProduct, LimiterAssumption
    <3>4. room(i) = b + p - (k + TicksPerSecond)
      BY <3>1, <3>2
    <3>5. Contract!Room(i, now) = b + p - k
      BY DEF Contract!Room
    <3> HIDE DEF b, p, k, room
    <3> QED
      BY <2>2, <3>3, <3>4, <3>5, LimiterAssumption
  <2>5. room(n + 1) = Capacity - One
    <3>1. TicksPerSecond * (n + 1 - (n + 1) + 1) = TicksPerSecond
      BY <2>1, LimiterAssumption
    <3>2. Rate * (now - grants'[n + 1]) = 0
      BY <1>0, <2>1, LimiterAssumption
    <3>3. b \in Int
      BY IntProduct, LimiterAssumption
    <3> QED
      BY <2>2, <3>1, <3>2, <3>3, LimiterAssumption
  <2>6. \A i \in 1..n + 1 : tokens' <= room(i)
    <3>1. ASSUME NEW i \in 1..n PROVE tokens' <= room(i)
      <4> HIDE DEF room
      <4>1. Refilled <= Contract!Room(i, now)
        BY RefilledMatchesHistory
      <4> QED
        BY <2>2, <2>4, <4>1
    <3>2. tokens' <= room(n + 1)
      <4> HIDE DEF room
      <4> QED BY <2>2, <2>5
    <3> HIDE DEF room
    <3> QED
      BY <2>1, <3>1, <3>2
  <2>7. \E i \in 1..n + 1 : tokens' = room(i)
    <3> HIDE DEF room
    <3>1. CASE Refilled = Capacity
      <4>1. tokens' = room(n + 1) /\ n + 1 \in 1..n + 1
        BY <2>1, <2>2, <2>5, <3>1
      <4> QED
        BY <4>1
    <3>2. CASE Refilled # Capacity
      <4>1. PICK i \in 1..n : Refilled = Contract!Room(i, now)
        BY <3>2, RefilledMatchesHistory
      <4>2. tokens' = room(i) /\ i \in 1..n + 1
        BY <2>1, <2>2, <2>4, <4>1
      <4> QED
        BY <4>2
    <3> QED
      BY <3>1, <3>2
  <2>8. BucketMatchesHistory'
    <3>1. Len(grants') = n + 1 /\ lastRefill' = now
      BY <2>1, <2>2
    <3>2. \A i \in 1..n + 1 : Contract!Room(i, lastRefill)' = room(i)
      <4> TAKE i \in 1..n + 1
      <4>1. Contract!Room(i, lastRefill)'
              = Burst * TicksPerSecond + Rate * (lastRefill' - grants'[i])
                  - TicksPerSecond * (Len(grants') - i + 1)
        BY DEF Contract!Room
      <4> QED
        BY <3>1, <4>1
    <3> HIDE DEF room, n
    <3> QED
      BY <2>6, <2>7, <3>1, <3>2 DEF BucketMatchesHistory
  <2>9. WindowBound'
    <3> SUFFICES ASSUME NEW i \in 1..Len(grants'), NEW j \in i..Len(grants')
                 PROVE  (One * (j - i + 1) <= Capacity + Rate * (grants[j] - grants[i]))'
      BY DEF WindowBound
    <3>1. CASE j \in 1..n
      <4>1. grants'[i] = grants[i] /\ grants'[j] = grants[j] /\ i \in 1..n
        BY <2>1, <3>1
      <4>2. One * (j - i + 1) <= Capacity + Rate * (grants[j] - grants[i])
        BY <3>1, <4>1 DEF WindowBound
      <4> QED
        BY <4>1, <4>2 DEF One, Capacity
    <3>2. CASE j = n + 1
      <4> DEFINE p == Rate * (now - grants'[i])
                 k == TicksPerSecond * (n + 1 - i + 1)
      <4>1. i \in 1..n + 1 /\ grants'[i] \in Int /\ now \in Int /\ n \in Int /\ i \in Int
        BY <1>0, <2>1
      <4>2. p \in Int /\ k \in Int /\ b \in Int
        BY <4>1, IntProduct, LimiterAssumption
      <4>3. room(i) = b + p - k
        OBVIOUS
      <4>4. k <= b + p
        <5> HIDE DEF b, p, k, room
        <5>1. tokens' \in Nat /\ tokens' <= room(i)
          BY <2>2, <2>6, <4>1
        <5> QED
          BY <4>2, <4>3, <5>1
      <4>5. grants'[j] = now
        BY <2>1, <3>2
      <4> QED
        BY <3>2, <4>4, <4>5 DEF One, Capacity
    <3> QED
      BY <2>1, <3>1, <3>2
  <2> QED
    BY <2>3, <2>8, <2>9
<1>4. CASE UNCHANGED limiterVars
  BY <1>4 DEF limiterVars, LimiterTypeOK, BucketMatchesHistory, WindowBound, Contract!Room,
    Capacity, One, Admitted, Sampled, Refused
<1> QED
  BY <1>1, <1>2, <1>3, <1>4 DEF LimiterNext, Allow

-----------------------------------------------------------------------------
(* The variables of the limiter keep their types: in particular the bucket  *)
(* never holds less than nothing or more than its capacity.                 *)
THEOREM LimiterTypeCorrect == LimiterSpec => []LimiterTypeOK
<1>1. LimiterSpec => []LimiterInv
  BY InitLimiterInv, NextLimiterInv, PTL DEF LimiterSpec
<1>2. LimiterInv => LimiterTypeOK
  BY DEF LimiterInv
<1> QED
  BY <1>1, <1>2, PTL

(* Allow admits no more entries in any window of time than the burst and    *)
(* the rate allow for it.                                                   *)
THEOREM WindowsBounded == LimiterSpec => []WindowBound
<1>1. LimiterSpec => []LimiterInv
  BY InitLimiterInv, NextLimiterInv, PTL DEF LimiterSpec
<1>2. LimiterInv => WindowBound
  BY DEF LimiterInv
<1> QED
  BY <1>1, <1>2, PTL

(* The bucket holds exactly the room of the tightest window of the history. *)
THEOREM BucketIsHistory == LimiterSpec => []BucketMatchesHistory
<1>1. LimiterSpec => []LimiterInv
  BY InitLimiterInv, NextLimiterInv, PTL DEF LimiterSpec
<1>2. LimiterInv => BucketMatchesHistory
  BY DEF LimiterInv
<1> QED
  BY <1>1, <1>2, PTL

-----------------------------------------------------------------------------
(* A token is there exactly when every window has room.                     *)
LEMMA TokenIffRoom ==
  ASSUME LimiterInv PROVE Refilled >= One <=> Contract!HasRoom(now)
<1> USE DEF LimiterInv
<1>1. Refilled \in 0..Capacity /\ Capacity \in Nat /\ One \in Nat
  BY RefilledType
<1>2. \A i \in 1..Len(grants) : Contract!Room(i, now) \in Int
  BY RoomGrows
<1>3. ASSUME Refilled >= One PROVE Contract!HasRoom(now)
  BY <1>1, <1>2, <1>3, RefilledMatchesHistory DEF Contract!HasRoom, Capacity, One
<1>4. ASSUME Contract!HasRoom(now) PROVE Refilled >= One
  BY <1>1, <1>2, <1>4, RefilledMatchesHistory DEF Contract!HasRoom, Capacity, One
<1> QED
  BY <1>3, <1>4

LEMMA StepRefines ==
  LimiterInv /\ [LimiterNext]_limiterVars => [Contract!Next]_Contract!contractVars
<1> SUFFICES ASSUME LimiterInv, [LimiterNext]_limiterVars
             PROVE  Contract!Next \/ UNCHANGED Contract!contractVars
  OBVIOUS
<1>1. CASE ClockTick
  BY <1>1 DEF ClockTick, Contract!Next, Contract!Tick
<1>2. CASE TakeToken
  BY <1>2, TokenIffRoom
    DEF TakeToken, Contract!Next, Contract!Admit, Admitted, Contract!Admitted
<1>3. CASE SkipEntry
  <2>1. ~Contract!HasRoom(now)
    <3>1. Refilled < One /\ Refilled \in Int /\ One \in Int
      BY <1>3, RefilledType DEF SkipEntry, LimiterInv
    <3> QED
      BY <3>1, TokenIffRoom
  <2> QED
    BY <1>3, <2>1 DEF SkipEntry, Contract!Next, Contract!Skip, Sampled, Refused,
      Contract!Sampled, Contract!Refused
<1>4. CASE UNCHANGED limiterVars
  BY <1>4 DEF limiterVars, Contract!contractVars
<1> QED
  BY <1>1, <1>2, <1>3, <1>4 DEF LimiterNext, Allow

(* limiter.go implements the contract for every burst, rate and clock.      *)
THEOREM LimiterImplementsContract == LimiterSpec => ImplementsContract
<1>1. LimiterInit => Contract!Init
  BY DEF LimiterInit, Contract!Init, Admitted, Contract!Admitted
<1>2. LimiterSpec => []LimiterInv
  BY InitLimiterInv, NextLimiterInv, PTL DEF LimiterSpec
<1> QED
  BY <1>1, <1>2, StepRefines, PTL DEF LimiterSpec, ImplementsContract, Contract!Spec

-----------------------------------------------------------------------------
(* While the breaker is open lastChange is the time of the last trip: no    *)
(* later change has moved it.  CooldownRespected rests on this, since Allow *)
(* reads only lastChange.                                                   *)
ClockOfTrip == state = "Open" => age = sinceTrip

IInv == TypeOK /\ ClockOfTrip /\ CooldownRespected

LEMMA OlderType ==
  ASSUME NEW a \in 0..Elapsed
  PROVE  Older(a) \in 0..Elapsed /\ (a > Cooldown => Older(a) > Cooldown)
  BY BreakerAssumption DEF Elapsed, Older

LEMMA InitIInv == Init => IInv
<1>1. Elapsed \in Nat /\ 0 \in 0..Elapsed /\ Elapsed \in 0..Elapsed
        /\ Elapsed > Cooldown
  BY BreakerAssumption DEF Elapsed
<1>2. <<>> \in Seq(BOOLEAN)
  BY EmptySeq
<1>3. Init => TypeOK
  BY <1>1, <1>2 DEF Init, TypeOK
<1>4. Init => ClockOfTrip /\ CooldownRespected
  BY <1>1 DEF Init, ClockOfTrip, CooldownRespected
<1> QED
  BY <1>3, <1>4 DEF IInv

LEMMA NextIInv == IInv /\ [Next]_vars => IInv'
<1> SUFFICES ASSUME IInv, [Next]_vars PROVE IInv'
  OBVIOUS
<1> USE DEF IInv
<1>0. /\ Elapsed \in Nat /\ 0 \in 0..Elapsed /\ Cooldown \in Nat
      /\ age \in 0..Elapsed /\ sinceTrip \in 0..Elapsed
  BY BreakerAssumption DEF Elapsed, TypeOK
<1>1. CASE Tick
  <2>1. age' \in 0..Elapsed /\ sinceTrip' \in 0..Elapsed
    BY <1>0, <1>1, OlderType DEF Tick
  <2>2. CooldownRespected'
    BY <1>0, <1>1, OlderType DEF Tick, CooldownRespected
  <2> QED
    BY <1>1, <2>1, <2>2 DEF Tick, counts, TypeOK, ClockOfTrip
<1>2. CASE Admit
  <2>1. inFlight' \in Nat /\ state' \in {"Closed", "HalfOpen"} /\ age' \in 0..Elapsed
    BY <1>0, <1>2 DEF Admit, TypeOK
  <2>2. TypeOK' /\ ClockOfTrip'
    BY <1>2, <2>1 DEF Admit, counts, TypeOK, ClockOfTrip
  <2>3. CooldownRespected'
    <3>1. CASE state # "Open"
      BY <1>2, <3>1 DEF Admit, CooldownRespected
    <3>2. CASE state = "Open"
      BY <1>0, <1>2, <3>2 DEF Admit, ClockOfTrip, CooldownRespected
    <3> QED
      BY <3>1, <3>2
  <2> QED
    BY <2>2, <2>3
<1>3. CASE RecordFailure
  <2>1. /\ inFlight' \in Nat /\ faults' \in Nat /\ total' \in Nat
        /\ failures' \in Nat /\ consecutive' \in Nat
        /\ results' \in Seq(BOOLEAN)
    BY <1>3 DEF RecordFailure, TypeOK
  <2>2. CASE Trip
    BY <1>0, <2>1, <2>2 DEF Trip, TypeOK, ClockOfTrip, CooldownRespected
  <2>3. CASE UNCHANGED <<state, age, sinceTrip>>
    BY <2>1, <2>3 DEF TypeOK, ClockOfTrip, CooldownRespected
  <2> QED
    BY <1>3, <2>2, <2>3 DEF RecordFailure
<1>4. CASE RecordSuccess
  <2>1. inFlight' \in Nat /\ UNCHANGED <<sinceTrip, faults>>
    BY <1>4 DEF RecordSuccess, TypeOK
  <2>2. CASE state = "HalfOpen"
    <3>1. /\ state' = "Closed" /\ failures' = 0 /\ consecutive' = 0 /\ total' = 0
          /\ age' = 0 /\ results' = <<>>
      BY <1>4, <2>2 DEF RecordSuccess, Reset
    <3> QED
      BY <1>0, <2>1, <2>2, <3>1 DEF TypeOK, ClockOfTrip, CooldownRespected
  <2>3. CASE state # "HalfOpen"
    <3>1. /\ consecutive' = 0 /\ total' = total + 1
          /\ results' = Append(results, FALSE)
          /\ UNCHANGED <<state, failures, age>>
      BY <1>4, <2>3, Zenon DEF RecordSuccess
    <3>2. total' \in Nat
      BY <3>1 DEF TypeOK
    <3>3. results' \in Seq(BOOLEAN)
      BY <3>1, AppendProperties DEF TypeOK
    <3> QED
      BY <2>1, <3>1, <3>2, <3>3 DEF TypeOK, ClockOfTrip, CooldownRespected
  <2> QED
    BY <2>2, <2>3
<1>5. CASE UNCHANGED vars
  BY <1>5 DEF vars, counts, TypeOK, ClockOfTrip, CooldownRespected
<1> QED
  BY <1>1, <1>2, <1>3, <1>4, <1>5 DEF Next

-----------------------------------------------------------------------------
(* The breaker's fields keep their types.                                   *)
THEOREM TypeCorrect == Spec => []TypeOK
<1>1. Spec => []IInv
  BY InitIInv, NextIInv, PTL DEF Spec
<1>2. IInv => TypeOK
  BY DEF IInv
<1> QED
  BY <1>1, <1>2, PTL

(* Nobody is let through within a cooldown of the last trip, whatever late  *)
(* results and repeated trips came between.                                 *)
THEOREM CooldownHolds == Spec => []CooldownRespected
<1>1. Spec => []IInv
  BY InitIInv, NextIInv, PTL DEF Spec
<1>2. IInv => CooldownRespected
  BY DEF IInv
<1> QED
  BY <1>1, <1>2, PTL

(* The breaker moves along the arrows of the state diagram only.            *)
THEOREM DiagramHolds == Spec => LegalTransitions
<1> DEFINE Legal ==
      state' # state =>
        <<state, state'>> \in {<<"Closed", "Open">>, <<"Open", "HalfOpen">>,
                               <<"HalfOpen", "Closed">>, <<"HalfOpen", "Open">>}
<1>1. Spec => []IInv
  BY InitIInv, NextIInv, PTL DEF Spec
<1>2. IInv /\ [Next]_vars => [Legal]_vars
  <2> SUFFICES ASSUME IInv, Next PROVE Legal
    BY DEF vars
  <2>0. state \in {"Closed", "Open", "HalfOpen"}
    BY DEF IInv, TypeOK
  <2>1. CASE Tick
    BY <2>1 DEF Tick
  <2>2. CASE Admit
    BY <2>2 DEF Admit
  <2>3. CASE RecordFailure
    BY <2>0, <2>3 DEF RecordFailure, Trip
  <2>4. CASE RecordSuccess
    BY <2>4 DEF RecordSuccess, Reset
  <2> QED
    BY <2>1, <2>2, <2>3, <2>4 DEF Next
<1> QED
  BY <1>1, <1>2, PTL DEF Spec, LegalTransitions

-----------------------------------------------------------------------------
(* The run of failures that ends s[1..n] is k long, and RunAt finds it.     *)
IsRun(s, n, k) ==
  /\ k \in 0..n
  /\ \A i \in (n - k + 1)..n : s[i]
  /\ k = n \/ ~s[n - k]
RunIn(s, n) ==
  CHOOSE k \in 0..n : /\ \A i \in (n - k + 1)..n : s[i]
                      /\ k = n \/ ~s[n - k]
Failed(s, n) == {i \in 1..n : s[i]}

(* What the counters say, in terms of the run, and that there always is one.*)
Counted ==
  /\ \A n \in 0..Len(results) : \E k \in 0..n : IsRun(results, n, k)
  /\ total = Len(results)
  /\ failures = Cardinality(Failed(results, Len(results)))
  /\ IsRun(results, Len(results), consecutive)

(* A result that met the rule of evaluateFailure when it came in.           *)
Tripped(s, n) == s[n] /\ TripsAt(Cardinality(Failed(s, n)), RunIn(s, n), n)

CInv == /\ TypeOK /\ Counted
        /\ state = "Closed" <=> \A n \in 1..Len(results) : ~Tripped(results, n)

(* Only one k is the length of the run.                                     *)
LEMMA RunChosen ==
  ASSUME NEW s, NEW n \in Nat, NEW k, IsRun(s, n, k)
  PROVE  RunIn(s, n) = k
<1>1. ASSUME NEW i, NEW j, IsRun(s, n, i), IsRun(s, n, j), i < j PROVE FALSE
  <2>1. i \in 0..n /\ j \in 0..n /\ ~s[n - i]
    BY <1>1 DEF IsRun
  <2>2. n - i \in (n - j + 1)..n
    BY <1>1, <2>1
  <2> QED
    BY <1>1, <2>1, <2>2 DEF IsRun
<1>2. \A j : IsRun(s, n, j) => j = k
  <2> SUFFICES ASSUME NEW j, IsRun(s, n, j), j # k PROVE FALSE
    OBVIOUS
  <2>1. j < k \/ k < j
    BY DEF IsRun
  <2> QED
    BY <1>1, <2>1
<1>3. IsRun(s, n, RunIn(s, n))
  BY DEF IsRun, RunIn
<1> QED
  BY <1>2, <1>3

(* t is s and a result more: what was counted before stays as it is, and the*)
(* run is one longer or ends.                                               *)
Extends(t, s, e) ==
  /\ t \in Seq(BOOLEAN) /\ Len(t) = Len(s) + 1 /\ t[Len(t)] = e
  /\ \A n \in 0..Len(s) : Failed(t, n) = Failed(s, n)
  /\ \A n \in 0..Len(s) : \A k : IsRun(t, n, k) <=> IsRun(s, n, k)
  /\ \A n \in 1..Len(s) : t[n] = s[n]
  /\ \A k : IsRun(s, Len(s), k) => IsRun(t, Len(t), IF e THEN k + 1 ELSE 0)
  /\ IsFiniteSet(Failed(s, Len(s))) /\ Len(t) \notin Failed(s, Len(s))
  /\ Failed(t, Len(t)) = IF e THEN Failed(s, Len(s)) \union {Len(t)}
                              ELSE Failed(s, Len(s))

LEMMA AppendExtends ==
  ASSUME NEW s \in Seq(BOOLEAN), NEW e \in BOOLEAN, NEW t, t = Append(s, e)
  PROVE  Extends(t, s, e)
<1>1. /\ t \in Seq(BOOLEAN) /\ Len(t) = Len(s) + 1 /\ t[Len(t)] = e /\ Len(s) \in Nat
      /\ \A i \in 1..Len(s) : t[i] = s[i]
  BY AppendProperties, LenProperties
<1>2. \A n \in 0..Len(s) : Failed(t, n) = Failed(s, n)
  BY <1>1 DEF Failed
<1>3. ASSUME NEW n \in 0..Len(s), NEW k PROVE IsRun(t, n, k) <=> IsRun(s, n, k)
  <2> SUFFICES ASSUME k \in 0..n PROVE IsRun(t, n, k) <=> IsRun(s, n, k)
    BY DEF IsRun
  <2>1. \A i \in (n - k + 1)..n : t[i] = s[i]
    BY <1>1
  <2>2. k # n => t[n - k] = s[n - k]
    BY <1>1
  <2> QED
    BY <2>1, <2>2 DEF IsRun
<1>4. ASSUME NEW k, IsRun(s, Len(s), k)
      PROVE  IsRun(t, Len(t), IF e THEN k + 1 ELSE 0)
  <2>1. CASE e
    <3>1. k \in 0..Len(s) /\ \A i \in (Len(s) - k + 1)..Len(s) : s[i]
      BY <1>4 DEF IsRun
    <3>2. k + 1 \in 0..Len(t) /\ Len(t) - (k + 1) = Len(s) - k
      BY <1>1, <3>1
    <3>3. \A i \in (Len(t) - (k + 1) + 1)..Len(t) : t[i]
      BY <1>1, <2>1, <3>1
    <3>4. k + 1 = Len(t) \/ ~t[Len(t) - (k + 1)]
      <4>1. k = Len(s) \/ ~s[Len(s) - k]
        BY <1>4 DEF IsRun
      <4>2. k # Len(s) => t[Len(s) - k] = s[Len(s) - k]
        BY <1>1, <3>1
      <4> QED
        BY <1>1, <3>2, <4>1, <4>2
    <3> QED
      BY <2>1, <3>2, <3>3, <3>4 DEF IsRun
  <2>2. CASE ~e
    BY <1>1, <2>2 DEF IsRun
  <2> QED
    BY <2>1, <2>2
<1>5. IsFiniteSet(Failed(s, Len(s))) /\ Len(t) \notin Failed(s, Len(s))
  <2>1. IsFiniteSet(1..Len(s)) /\ Failed(s, Len(s)) \subseteq 1..Len(s)
    BY <1>1, FS_Interval DEF Failed
  <2> QED
    BY <1>1, <2>1, FS_Subset
<1>6. Failed(t, Len(t)) = IF e THEN Failed(s, Len(s)) \union {Len(t)}
                              ELSE Failed(s, Len(s))
  BY <1>1 DEF Failed
<1> QED
  BY <1>1, <1>2, <1>3, <1>4, <1>5, <1>6 DEF Extends

(* RecordResult of e outside the half-open state, or of a failure in it.    *)
LEMMA RecordCounts ==
  ASSUME CInv, NEW e \in BOOLEAN, results' = Append(results, e),
         total' = total + 1,
         failures' = (IF e THEN failures + 1 ELSE failures),
         consecutive' = (IF e THEN consecutive + 1 ELSE 0)
  PROVE  /\ Counted'
         /\ \A n \in 1..Len(results) : Tripped(results', n) <=> Tripped(results, n)
         /\ Len(results') = Len(results) + 1
         /\ Tripped(results', Len(results')) <=>
              e /\ TripsAt(failures', consecutive', total')
<1> DEFINE m == Len(results)
<1>0. /\ results \in Seq(BOOLEAN) /\ m \in Nat /\ total = m
      /\ failures = Cardinality(Failed(results, m)) /\ IsRun(results, m, consecutive)
      /\ \A n \in 0..m : \E k \in 0..n : IsRun(results, n, k)
  BY LenProperties DEF CInv, TypeOK, Counted
<1> HIDE DEF m
<1>1. /\ results' \in Seq(BOOLEAN) /\ Len(results') = m + 1 /\ results'[m + 1] = e
      /\ \A n \in 0..m : Failed(results', n) = Failed(results, n)
      /\ \A n \in 0..m : \A k : IsRun(results', n, k) <=> IsRun(results, n, k)
      /\ \A n \in 1..m : results'[n] = results[n]
      /\ IsRun(results', m + 1, consecutive')
      /\ IsFiniteSet(Failed(results, m)) /\ m + 1 \notin Failed(results, m)
      /\ Failed(results', m + 1) = IF e THEN Failed(results, m) \union {m + 1}
                                        ELSE Failed(results, m)
  <2>0. Extends(results', results, e)
    BY <1>0, AppendExtends
  <2>1. /\ results' \in Seq(BOOLEAN) /\ Len(results') = m + 1 /\ results'[Len(results')] = e
        /\ \A n \in 0..m : Failed(results', n) = Failed(results, n)
        /\ \A n \in 0..m : \A k : IsRun(results', n, k) <=> IsRun(results, n, k)
        /\ \A n \in 1..m : results'[n] = results[n]
        /\ \A k : IsRun(results, m, k) =>
                   IsRun(results', Len(results'), IF e THEN k + 1 ELSE 0)
        /\ IsFiniteSet(Failed(results, m)) /\ Len(results') \notin Failed(results, m)
        /\ Failed(results', Len(results')) =
             IF e THEN Failed(results, m) \union {Len(results')} ELSE Failed(results, m)
    BY <2>0 DEF m, Extends
  <2>2. IsRun(results', Len(results'), consecutive')
    BY <1>0, <2>1, Zenon
  <2> QED
    BY <2>1, <2>2
<1>2. failures' = Cardinality(Failed(results', m + 1))
  <2>1. CASE e
    <3>1. Cardinality(Failed(results, m) \union {m + 1}) = Cardinality(Failed(results, m)) + 1
      BY <1>1, FS_AddElement, Zenon
    <3> QED
      BY <1>0, <1>1, <2>1, <3>1
  <2>2. CASE ~e
    BY <1>0, <1>1, <2>2
  <2> QED
    BY <2>1, <2>2
<1>3. \A n \in 0..(m + 1) : \E k \in 0..n : IsRun(results', n, k)
  <2>1. \A n \in 0..m : \E k \in 0..n : IsRun(results', n, k)
    BY <1>0, <1>1
  <2>2. consecutive' \in 0..(m + 1)
    BY <1>1 DEF IsRun
  <2>3. \A n \in 0..(m + 1) : n \in 0..m \/ n = m + 1
    BY <1>0
  <2> QED
    BY <1>1, <2>1, <2>2, <2>3, Zenon
<1>4. Counted'
  BY <1>0, <1>1, <1>2, <1>3 DEF Counted
<1>5. ASSUME NEW n \in 1..m PROVE Tripped(results', n) <=> Tripped(results, n)
  <2>1. PICK k \in 0..n : IsRun(results, n, k)
    BY <1>0, <1>5
  <2>2. IsRun(results', n, k)
    BY <1>0, <1>1, <2>1
  <2>3. RunIn(results, n) = k /\ RunIn(results', n) = k
    BY <1>0, <2>1, <2>2, RunChosen
  <2>4. results'[n] = results[n] /\ Failed(results', n) = Failed(results, n)
    BY <1>0, <1>1
  <2> QED
    BY <2>3, <2>4 DEF Tripped
<1>6. Tripped(results', m + 1) <=> e /\ TripsAt(failures', consecutive', total')
  <2>1. RunIn(results', m + 1) = consecutive'
    BY <1>0, <1>1, RunChosen
  <2> QED
    BY <1>0, <1>1, <1>2, <2>1 DEF Tripped
<1> QED
  BY <1>0, <1>1, <1>4, <1>5, <1>6 DEF m

LEMMA InitCounts == Init => CInv
<1> SUFFICES ASSUME Init PROVE CInv
  OBVIOUS
<1>1. results = <<>> /\ Len(results) = 0 /\ total = 0 /\ failures = 0 /\ consecutive = 0
      /\ state = "Closed"
  BY EmptySeq DEF Init
<1>2. Failed(results, 0) = {} /\ IsRun(results, 0, 0)
  BY DEF Failed, IsRun
<1>3. Counted
  BY <1>1, <1>2, FS_EmptySet DEF Counted
<1>4. TypeOK
  BY InitIInv DEF IInv
<1> QED
  BY <1>1, <1>3, <1>4 DEF CInv

LEMMA NextCounts == CInv /\ TypeOK' /\ [Next]_vars => CInv'
<1> SUFFICES ASSUME CInv, TypeOK', [Next]_vars PROVE CInv'
  OBVIOUS
<1>0. Len(results) \in Nat /\ state \in {"Closed", "Open", "HalfOpen"}
  BY LenProperties DEF CInv, TypeOK
<1>1. ASSUME UNCHANGED <<results, counts>>, state' = "Closed" <=> state = "Closed"
      PROVE  CInv'
  BY <1>1 DEF CInv, Counted, counts
<1>2. CASE UNCHANGED vars
  BY <1>1, <1>2 DEF vars
<1>3. CASE Tick
  BY <1>1, <1>3 DEF Tick
<1>4. CASE Admit
  BY <1>1, <1>4 DEF Admit
<1>5. CASE RecordFailure
  <2>1. /\ results' = Append(results, TRUE) /\ total' = total + 1
        /\ failures' = failures + 1 /\ consecutive' = consecutive + 1
    BY <1>5 DEF RecordFailure
  <2>2. /\ Counted'
        /\ \A n \in 1..Len(results) : Tripped(results', n) <=> Tripped(results, n)
        /\ Len(results') = Len(results) + 1
        /\ Tripped(results', Len(results')) <=>
             TripsAt(failures', consecutive', total')
    BY <2>1, RecordCounts
  <2>3. state' = "Closed" <=>
          state = "Closed" /\ ~TripsAt(failures', consecutive', total')
    BY <1>0, <1>5 DEF RecordFailure, Trip
  <2>4. state' = "Closed" <=> \A n \in 1..Len(results') : ~Tripped(results', n)
    <3>1. \A n \in 1..Len(results') : n \in 1..Len(results) \/ n = Len(results')
      BY <1>0, <2>2
    <3>2. 1..Len(results) \subseteq 1..Len(results') /\ Len(results') \in 1..Len(results')
      BY <1>0, <2>2
    <3>3. state = "Closed" <=> \A n \in 1..Len(results) : ~Tripped(results, n)
      BY DEF CInv
    <3> QED
      BY <2>2, <2>3, <3>1, <3>2, <3>3, Zenon
  <2> QED
    BY <2>2, <2>4 DEF CInv
<1>6. CASE RecordSuccess
  <2>1. CASE state = "HalfOpen"
    <3>1. /\ results' = <<>> /\ total' = 0 /\ failures' = 0 /\ consecutive' = 0
          /\ state' = "Closed"
      BY <1>6, <2>1 DEF RecordSuccess, Reset
    <3>2. Len(results') = 0 /\ Failed(results', 0) = {} /\ IsRun(results', 0, 0)
      BY <3>1, EmptySeq DEF Failed, IsRun
    <3>3. Counted'
      BY <3>1, <3>2, FS_EmptySet DEF Counted
    <3> QED
      BY <3>1, <3>2, <3>3 DEF CInv
  <2>2. CASE state # "HalfOpen"
    <3>1. /\ results' = Append(results, FALSE) /\ total' = total + 1
          /\ failures' = failures /\ consecutive' = 0 /\ state' = state
      BY <1>6, <2>2, Zenon DEF RecordSuccess
    <3>2. /\ Counted'
          /\ \A n \in 1..Len(results) : Tripped(results', n) <=> Tripped(results, n)
          /\ Len(results') = Len(results) + 1
          /\ ~Tripped(results', Len(results'))
      BY <3>1, RecordCounts
    <3>3. state' = "Closed" <=> \A n \in 1..Len(results') : ~Tripped(results', n)
      <4>1. \A n \in 1..Len(results') : n \in 1..Len(results) \/ n = Len(results')
        BY <1>0, <3>2
      <4>2. 1..Len(results) \subseteq 1..Len(results')
        BY <1>0, <3>2
      <4>3. state = "Closed" <=> \A n \in 1..Len(results) : ~Tripped(results, n)
        BY DEF CInv
      <4> QED
        BY <3>1, <3>2, <4>1, <4>2, <4>3, Zenon
    <3> QED
      BY <3>2, <3>3 DEF CInv
  <2> QED
    BY <2>1, <2>2
<1> QED
  BY <1>2, <1>3, <1>4, <1>5, <1>6 DEF Next

LEMMA SpecCounts == Spec => []CInv
  BY InitCounts, NextCounts, TypeCorrect, PTL DEF Spec

(* The three counters hold what the results recorded since the last reset   *)
(* add up to, in every order in which the calls in flight are recorded.     *)
THEOREM CountersMatch == Spec => []CountsMatchResults
<1>1. CInv => CountsMatchResults
  <2> SUFFICES ASSUME CInv PROVE CountsMatchResults
    OBVIOUS
  <2>1. Len(results) \in Nat
    BY LenProperties DEF CInv, TypeOK
  <2>2. RunAt(Len(results)) = consecutive
    BY <2>1, RunChosen DEF RunAt, RunIn, CInv, Counted
  <2> QED
    BY <2>2 DEF CountsMatchResults, FailuresIn, CInv, Counted, Failed
<1> QED
  BY <1>1, SpecCounts, PTL

(* The breaker is closed exactly as long as evaluateFailure's rule was met  *)
(* by no failure recorded since the last reset.                             *)
THEOREM ClosedUntilTripped == Spec => []ClosedIffNeverTripped
<1>1. CInv => ClosedIffNeverTripped
  BY DEF CInv, ClosedIffNeverTripped, Tripped, FailuresIn, RunAt, RunIn, Failed
<1> QED
  BY <1>1, SpecCounts, PTL
=============================================================================
