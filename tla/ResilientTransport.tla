-------------------------- MODULE ResilientTransport --------------------------
(***************************************************************************)
(* ResilientRoundTripper (observability/resilience.go): goroutines that    *)
(* share a transport and its CircuitBreaker.  RoundTrip asks the breaker   *)
(* once, then runs the whole retry loop of executeWithRetry without asking *)
(* again, then records one result.                                         *)
(*                                                                         *)
(* The backend is external: an attempt comes back "ok", which stands for   *)
(* every response other than 503 and 504, or "transient", an error or one  *)
(* of these two.  The breaker is the module CircuitBreaker, and a call is  *)
(* in flight for it from Allow to RecordResult.                            *)
(***************************************************************************)
EXTENDS Integers, Sequences, FiniteSets

CONSTANTS
  Callers,           (* goroutines that send requests                       *)
  Retries,           (* retries                                             *)
  Backoff,           (* backoff, in ticks                                   *)
  RatioNum, RatioDen, ConsecutiveLimit, Cooldown,  (* of the breaker        *)
  MaxTotal,          (* bound: results a closed breaker is given            *)
  MaxFaults          (* bound: transient answers of the backend             *)

ASSUME TransportAssumption ==
  /\ Callers # {} /\ IsFiniteSet(Callers)
  /\ Retries \in Nat
  /\ Backoff \in Nat
  /\ Cooldown \in Nat

VARIABLES
  state, failures, consecutive, total, age,  (* the CircuitBreaker          *)
  sinceTrip, results, faults,                (* its history                 *)
  pc,         (* where each caller is in RoundTrip                          *)
  attempts,   (* answers the caller's current call has had                  *)
  pause,      (* ticks left of time.Sleep(calculateBackoff(attempt))        *)
  outcome,    (* the caller's latest answer, "refused" for ErrCircuitOpen   *)
  bad,        (* history: transient answers so far                          *)
  fresh       (* history: callers in flight admitted since the last trip    *)

breaker == <<state, failures, consecutive, total, age, sinceTrip, results, faults>>
calls   == <<pc, attempts, pause, outcome>>
vars    == <<breaker, calls, bad, fresh>>

InFlight == {c \in Callers : pc[c] # "idle"}

CB == INSTANCE CircuitBreaker WITH
  inFlight <- Cardinality(InFlight), MaxInFlight <- Cardinality(Callers)

-----------------------------------------------------------------------------
Init ==
  /\ pc = [c \in Callers |-> "idle"]
  /\ attempts = [c \in Callers |-> 0]
  /\ pause = [c \in Callers |-> 0]
  /\ outcome = [c \in Callers |-> "none"]
  /\ bad = 0
  /\ fresh = {}
  /\ CB!Init

(* Time passes for the breaker and for the callers that sleep.              *)
Tick ==
  /\ \/ age < CB!Elapsed
     \/ sinceTrip < CB!Elapsed
     \/ \E c \in Callers : pause[c] > 0
  /\ age' = CB!Older(age)
  /\ sinceTrip' = CB!Older(sinceTrip)
  /\ pause' = [c \in Callers |-> IF pause[c] > 0 THEN pause[c] - 1 ELSE 0]
  /\ UNCHANGED <<state, failures, consecutive, total, results, faults, pc,
                 attempts, outcome, bad, fresh>>

(* Mutant of Enter: a half-open probe leaves the breaker open.              *)
EnterStaysOpen(c) ==
  /\ pc[c] = "idle"
  /\ state = "Open" => age > Cooldown
  /\ state = "Closed" => total + Cardinality(InFlight) < MaxTotal
  /\ pc' = [pc EXCEPT ![c] = "attempt"]
  /\ attempts' = [attempts EXCEPT ![c] = 0]
  /\ fresh' = fresh \union {c}
  /\ UNCHANGED <<breaker, pause, outcome, bad>>

(* RoundTrip of a request that Allow lets through.                          *)
Enter(c) ==
  /\ pc[c] = "idle"
  /\ pc' = [pc EXCEPT ![c] = "attempt"]
  /\ CB!Admit
  /\ attempts' = [attempts EXCEPT ![c] = 0]
  /\ fresh' = fresh \union {c}
  /\ UNCHANGED <<pause, outcome, bad>>

(* RoundTrip of a request that Allow refuses: ErrCircuitOpen, at once.      *)
Refuse(c) ==
  /\ pc[c] = "idle"
  /\ CB!Refuses
  /\ outcome' = [outcome EXCEPT ![c] = "refused"]
  /\ UNCHANGED <<breaker, pc, attempts, pause, bad, fresh>>

(* calculateBackoff: the pause doubles with every retry.                    *)
BackoffFor(attempt) == Backoff * 2^(attempt - 1)

(* isTransientError, and the bound of the loop in executeWithRetry.         *)
RetryLater(c, o) == o = "transient" /\ attempts[c] < Retries

(* next.RoundTrip comes back with o; the loop sleeps and goes round, or     *)
(* ends.                                                                    *)
Answer(c, o) ==
  /\ pc[c] = "attempt"
  /\ o = "transient" => bad < MaxFaults
  /\ bad' = IF o = "transient" THEN bad + 1 ELSE bad
  /\ attempts' = [attempts EXCEPT ![c] = @ + 1]
  /\ outcome' = [outcome EXCEPT ![c] = o]
  /\ IF RetryLater(c, o)
     THEN /\ pc' = [pc EXCEPT ![c] = "sleep"]
          /\ pause' = [pause EXCEPT ![c] = BackoffFor(attempts'[c])]
     ELSE /\ pc' = [pc EXCEPT ![c] = "record"]
          /\ UNCHANGED pause
  /\ UNCHANGED <<breaker, fresh>>

(* The sleep is over; the breaker is not asked again.                       *)
Wake(c) ==
  /\ pc[c] = "sleep"
  /\ pause[c] = 0
  /\ pc' = [pc EXCEPT ![c] = "attempt"]
  /\ UNCHANGED <<breaker, attempts, pause, outcome, bad, fresh>>

(* Mutant of Record: only failures are reported to the breaker.             *)
RecordFailuresOnly(c) ==
  /\ pc[c] = "record"
  /\ pc' = [pc EXCEPT ![c] = "idle"]
  /\ IF outcome[c] = "transient"
     THEN CB!RecordFailure
     ELSE UNCHANGED breaker
  /\ fresh' = IF sinceTrip' = 0 THEN {} ELSE fresh \ {c}
  /\ UNCHANGED <<attempts, pause, outcome, bad>>

(* checkOutcome and RecordResult; RoundTrip returns the last answer.        *)
Record(c) ==
  /\ pc[c] = "record"
  /\ pc' = [pc EXCEPT ![c] = "idle"]
  /\ \/ outcome[c] = "transient" /\ CB!RecordFailure
     \/ outcome[c] = "ok" /\ CB!RecordSuccess
  /\ fresh' = IF state' = "Open" /\ sinceTrip' = 0 /\ outcome[c] = "transient"
              THEN {} ELSE fresh \ {c}
  /\ UNCHANGED <<attempts, pause, outcome, bad>>

InCall(c) ==
  \/ \E o \in {"ok", "transient"} : Answer(c, o)
  \/ Wake(c)
  \/ Record(c)

Next ==
  \/ Tick
  \/ \E c \in Callers : Enter(c) \/ Refuse(c) \/ InCall(c)

(* Time passes, the backend answers or the attempt times out, and the       *)
(* goroutine of a call that has begun runs.  Traffic is an assumption on    *)
(* the application, not on the code: it keeps sending requests.             *)
Fairness ==
  /\ WF_vars(Tick)
  /\ \A c \in Callers : WF_vars(InCall(c))

Traffic == \A c \in Callers : WF_vars(Enter(c))

Spec == Init /\ [][Next]_vars /\ Fairness /\ Traffic

-----------------------------------------------------------------------------
TypeOK ==
  /\ CB!TypeOK
  /\ pc \in [Callers -> {"idle", "attempt", "sleep", "record"}]
  /\ attempts \in [Callers -> 0..Retries + 1]
  /\ DOMAIN pause = Callers
  /\ outcome \in [Callers -> {"none", "ok", "transient", "refused"}]
  /\ bad \in Nat
  /\ fresh \subseteq InFlight

(* RoundTrip holds to the breaker's protocol and adds nothing to it: every  *)
(* call admitted is recorded exactly once, however many attempts it took,   *)
(* and a refused call is not recorded at all.                               *)
ImplementsBreaker == CB!Spec

(* RoundTrip: while the breaker is open, the only calls at the backend, or  *)
(* on their way back to it after a pause, are those admitted before the     *)
(* trip that opened it.                                                     *)
OpenShieldsBackend == state = "Open" => fresh = {}

(* A backend that stops failing is found out: an open breaker closes again  *)
(* once requests keep coming, whatever late results reach it meanwhile.     *)
Recovers == state = "Open" ~> state = "Closed"

=============================================================================
