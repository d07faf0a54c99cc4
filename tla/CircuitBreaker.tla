---------------------------- MODULE CircuitBreaker ----------------------------
(***************************************************************************)
(* CircuitBreaker (observability/resilience.go): Allow and RecordResult,   *)
(* each one step under the breaker's mutex, called in any order by clients *)
(* that hold to the protocol of ResilientRoundTripper.RoundTrip, one       *)
(* RecordResult for every Allow that answered true.                        *)
(*                                                                         *)
(* time.Since(lastChange) is the variable age.  Ages stop counting one     *)
(* tick past the cooldown, the last point at which Allow tells two of them *)
(* apart.  The ratio threshold is the fraction RatioNum / RatioDen.        *)
(***************************************************************************)
EXTENDS Integers, Sequences, FiniteSets

CONSTANTS
  RatioNum, RatioDen,  (* thresholdRatio                                    *)
  ConsecutiveLimit,    (* consecutiveLimit                                  *)
  Cooldown,            (* cooldown, in ticks                                *)
  MaxTotal,            (* bound: results a closed breaker is given          *)
  MaxFaults,           (* bound: failures recorded in all                   *)
  MaxInFlight          (* bound: calls admitted and not yet recorded        *)

ASSUME BreakerAssumption ==
  /\ RatioNum \in Nat
  /\ RatioDen \in Nat \ {0}
  /\ ConsecutiveLimit \in Int
  /\ Cooldown \in Nat
  /\ MaxTotal \in Nat
  /\ MaxFaults \in Nat
  /\ MaxInFlight \in Nat

VARIABLES
  state,        (* CircuitBreaker.state                                     *)
  failures,     (* CircuitBreaker.failures                                  *)
  consecutive,  (* CircuitBreaker.consecutive                               *)
  total,        (* CircuitBreaker.total                                     *)
  age,          (* ticks since lastChange                                   *)
  inFlight,     (* calls admitted whose result is not recorded yet          *)
  sinceTrip,    (* history: ticks since the breaker tripped last            *)
  results,      (* history: TRUE for each failure recorded since the last   *)
                (* reset, FALSE for each success                            *)
  faults        (* history: failures recorded in all                        *)

counts == <<failures, consecutive, total>>
vars == <<state, counts, age, inFlight, sinceTrip, results, faults>>

(* The literal 10 of evaluateFailure.                                       *)
MinSample == 10

Elapsed == Cooldown + 1
Older(a) == IF a < Elapsed THEN a + 1 ELSE a

-----------------------------------------------------------------------------
(* NewCircuitBreaker.  No trip lies in the past that Allow could wait for.  *)
Init ==
  /\ state = "Closed"
  /\ failures = 0
  /\ consecutive = 0
  /\ total = 0
  /\ age = 0
  /\ inFlight = 0
  /\ sinceTrip = Elapsed
  /\ results = <<>>
  /\ faults = 0

Tick ==
  /\ age < Elapsed \/ sinceTrip < Elapsed
  /\ age' = Older(age)
  /\ sinceTrip' = Older(sinceTrip)
  /\ UNCHANGED <<state, counts, inFlight, results, faults>>

-----------------------------------------------------------------------------
(* Allow                                                                    *)

(* Allow answers true.  Out of the open state this moves to half-open.      *)
Admit ==
  /\ inFlight < MaxInFlight
  /\ inFlight' = inFlight + 1
  /\ \/ /\ state = "Closed"
        /\ total + inFlight < MaxTotal
        /\ UNCHANGED <<state, age>>
     \/ /\ state = "HalfOpen"
        /\ UNCHANGED <<state, age>>
     \/ /\ state = "Open"
        /\ age > Cooldown
        /\ state' = "HalfOpen"
        /\ age' = 0
  /\ UNCHANGED <<counts, sinceTrip, results, faults>>

(* Allow answers false, and ErrCircuitOpen is returned at once: the step    *)
(* changes nothing here.                                                    *)
Refuses == state = "Open" /\ age <= Cooldown

-----------------------------------------------------------------------------
(* RecordResult                                                             *)

(* The rule of evaluateFailure for a breaker that is not half-open, over    *)
(* the counts as they are after the failure was added.                      *)
TripsAt(f, c, t) ==
  \/ c >= ConsecutiveLimit
  \/ t >= MinSample /\ f * RatioDen >= RatioNum * t

(* Mutant of Trip: lastChange keeps the time of an earlier change.          *)
TripKeepsClock ==
  /\ state' = "Open"
  /\ sinceTrip' = 0
  /\ UNCHANGED age

(* trip                                                                     *)
Trip ==
  /\ state' = "Open"
  /\ age' = 0
  /\ sinceTrip' = 0

(* Mutant of RecordFailure: only the limit on consecutive failures trips,   *)
(* and it is met by equality.                                               *)
RecordFailureAnyState ==
  /\ inFlight > 0
  /\ faults < MaxFaults
  /\ inFlight' = inFlight - 1
  /\ faults' = faults + 1
  /\ total' = total + 1
  /\ failures' = failures + 1
  /\ consecutive' = consecutive + 1
  /\ results' = Append(results, TRUE)
  /\ IF consecutive' = ConsecutiveLimit
     THEN Trip
     ELSE UNCHANGED <<state, age, sinceTrip>>

(* RecordResult of an error, with evaluateFailure.  A failure that arrives  *)
(* while the breaker is open can trip it again.                             *)
RecordFailure ==
  /\ inFlight > 0
  /\ faults < MaxFaults
  /\ inFlight' = inFlight - 1
  /\ faults' = faults + 1
  /\ total' = total + 1
  /\ failures' = failures + 1
  /\ consecutive' = consecutive + 1
  /\ results' = Append(results, TRUE)
  /\ IF state = "HalfOpen" \/ TripsAt(failures', consecutive', total')
     THEN Trip
     ELSE UNCHANGED <<state, age, sinceTrip>>

(* Mutant of Reset: the window of the rate is not started again.            *)
ResetConsecutiveOnly ==
  /\ state' = "Closed"
  /\ consecutive' = 0
  /\ age' = 0
  /\ results' = <<>>
  /\ UNCHANGED <<failures, total>>

(* reset                                                                    *)
Reset ==
  /\ state' = "Closed"
  /\ failures' = 0
  /\ consecutive' = 0
  /\ total' = 0
  /\ age' = 0
  /\ results' = <<>>

(* RecordResult of nil, with evaluateSuccess: a half-open breaker is reset, *)
(* whichever call the success belongs to.                                   *)
RecordSuccess ==
  /\ inFlight > 0
  /\ inFlight' = inFlight - 1
  /\ IF state = "HalfOpen"
     THEN Reset
     ELSE /\ consecutive' = 0
          /\ total' = total + 1
          /\ results' = Append(results, FALSE)
          /\ UNCHANGED <<state, failures, age>>
  /\ UNCHANGED <<sinceTrip, faults>>

Next == Tick \/ Admit \/ RecordFailure \/ RecordSuccess

Spec == Init /\ [][Next]_vars

-----------------------------------------------------------------------------
TypeOK ==
  /\ state \in {"Closed", "Open", "HalfOpen"}
  /\ failures \in Nat
  /\ consecutive \in Nat
  /\ total \in Nat
  /\ age \in 0..Elapsed
  /\ inFlight \in Nat
  /\ sinceTrip \in 0..Elapsed
  /\ results \in Seq(BOOLEAN)
  /\ faults \in Nat

(* What the counters should hold after the first n results: how many, how   *)
(* many failures, and how many failures since the last success.             *)
FailuresIn(n) == Cardinality({i \in 1..n : results[i]})
RunAt(n) ==
  CHOOSE k \in 0..n : /\ \A i \in (n - k + 1)..n : results[i]
                      /\ k = n \/ ~results[n - k]

(* The three counters agree with the results recorded since the breaker was *)
(* reset, however the records interleave with openings and probes.          *)
CountsMatchResults ==
  /\ total = Len(results)
  /\ failures = FailuresIn(Len(results))
  /\ consecutive = RunAt(Len(results))

(* The breaker is closed exactly as long as no failure recorded since the   *)
(* last reset met the rule of evaluateFailure at the moment it came in.     *)
ClosedIffNeverTripped ==
  state = "Closed" <=>
    \A n \in 1..Len(results) :
      results[n] => ~TripsAt(FailuresIn(n), RunAt(n), n)

(* evaluateFailure and trip: unless the breaker is open, more than a whole  *)
(* cooldown has passed since the last trip, so nobody was let through       *)
(* before; a failure that comes in late starts the cooldown again.          *)
CooldownRespected == state # "Open" => sinceTrip > Cooldown

(* The state diagram of README section 12: no step closes an open breaker   *)
(* that was not probed, none half-opens a closed one.                       *)
LegalTransitions ==
  [][state' # state =>
       <<state, state'>> \in {<<"Closed", "Open">>, <<"Open", "HalfOpen">>,
                              <<"HalfOpen", "Closed">>, <<"HalfOpen", "Open">>}]_vars

=============================================================================
