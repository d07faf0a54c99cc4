---------------------------- MODULE RateLimiter ----------------------------
(***************************************************************************)
(* LogRateLimiter (observability/limiter.go): the token bucket in front of *)
(* the JSON logger.  The bucket has no refill goroutine: every call of     *)
(* Allow first adds what accrued since the previous call, then cuts the    *)
(* bucket to its capacity, then tries to take one token.  Allow runs under *)
(* the limiter's mutex, so a call is one step.                             *)
(*                                                                         *)
(* Time is counted in ticks and tokens in parts of a token, TicksPerSecond *)
(* parts each, so that elapsed * rate is an integer.  The rounding of the  *)
(* code's float64 arithmetic is not modelled.                              *)
(***************************************************************************)
EXTENDS Integers, Sequences

CONSTANTS
  Burst,           (* NewLogRateLimiter's burst: the capacity               *)
  Rate,            (* NewLogRateLimiter's rate: tokens per second           *)
  TicksPerSecond,  (* clock resolution                                      *)
  MaxTicks,        (* bound on the clock                                    *)
  MaxCalls         (* bound on the calls of Allow                           *)

ASSUME LimiterAssumption ==
  /\ Burst \in Nat
  /\ Rate \in Nat
  /\ TicksPerSecond \in Nat \ {0}
  /\ MaxTicks \in Nat
  /\ MaxCalls \in Nat

VARIABLES
  now,             (* time.Now()                                            *)
  tokens,          (* LogRateLimiter.tokens                                 *)
  lastRefill,      (* LogRateLimiter.lastRefill                             *)
  skippedCount,    (* LogRateLimiter.skippedCount                           *)
  reply,           (* the (allow, throttled) pair Allow returned last       *)
  grants           (* history: the times of the calls that took a token     *)

limiterVars == <<now, tokens, lastRefill, skippedCount, reply, grants>>

(* The literal 10 of Allow's sampling test.                                 *)
SampleEvery == 10

One == TicksPerSecond
Capacity == Burst * One

Contract == INSTANCE RateLimitContract

Admitted == [allow |-> TRUE,  throttled |-> FALSE]
Sampled  == [allow |-> TRUE,  throttled |-> TRUE]
Refused  == [allow |-> FALSE, throttled |-> FALSE]

-----------------------------------------------------------------------------
(* NewLogRateLimiter: the bucket starts full.                               *)
LimiterInit ==
  /\ now = 0
  /\ tokens = Capacity
  /\ lastRefill = 0
  /\ skippedCount = 0
  /\ reply = Admitted
  /\ grants = <<>>

(* The clock moves between calls.                                           *)
ClockTick ==
  /\ now < MaxTicks
  /\ now' = now + 1
  /\ UNCHANGED <<tokens, lastRefill, skippedCount, reply, grants>>

Calls == Len(grants) + skippedCount

(* Mutant of Refilled: the cut to the capacity is missing.                  *)
RefilledUncapped == tokens + (now - lastRefill) * Rate

(* What Allow finds in the bucket once it has refilled and cut it.          *)
Refilled ==
  LET sum == tokens + (now - lastRefill) * Rate
  IN  IF sum > Capacity THEN Capacity ELSE sum

(* Mutant of TakeToken: the refill is counted but lastRefill stays behind.  *)
TakeTokenStaleRefill ==
  /\ Refilled >= One
  /\ tokens' = Refilled - One
  /\ reply' = Admitted
  /\ grants' = Append(grants, now)
  /\ UNCHANGED <<now, lastRefill, skippedCount>>

(* Allow, when a whole token is left.                                       *)
TakeToken ==
  /\ Refilled >= One
  /\ tokens' = Refilled - One
  /\ lastRefill' = now
  /\ reply' = Admitted
  /\ grants' = Append(grants, now)
  /\ UNCHANGED <<now, skippedCount>>

(* Mutant of SkipEntry: the sample is decided on the count before this call.*)
SkipEntryOldCount ==
  /\ Refilled < One
  /\ tokens' = Refilled
  /\ lastRefill' = now
  /\ skippedCount' = skippedCount + 1
  /\ reply' = IF skippedCount % SampleEvery = 0 THEN Sampled ELSE Refused
  /\ UNCHANGED <<now, grants>>

(* Allow, when less than a token is left: the entry is counted, and every   *)
(* tenth one counted is let through as a sample.                            *)
SkipEntry ==
  /\ Refilled < One
  /\ tokens' = Refilled
  /\ lastRefill' = now
  /\ skippedCount' = skippedCount + 1
  /\ reply' = IF skippedCount' % SampleEvery = 0 THEN Sampled ELSE Refused
  /\ UNCHANGED <<now, grants>>

Allow ==
  /\ Calls < MaxCalls
  /\ TakeToken \/ SkipEntry

LimiterNext == ClockTick \/ Allow

LimiterSpec == LimiterInit /\ [][LimiterNext]_limiterVars
-----------------------------------------------------------------------------
LimiterTypeOK ==
  /\ now \in 0..MaxTicks
  /\ tokens \in 0..Capacity
  /\ lastRefill \in 0..now
  /\ skippedCount \in Nat
  /\ reply \in {Admitted, Sampled, Refused}
  /\ grants \in Seq(0..now)

(* The rate bound of limiter.go's token bucket (README section 8): between  *)
(* the i-th and the j-th entry admitted, both included, there are never     *)
(* more entries than Burst plus what Rate allows for the time between them. *)
WindowBound ==
  \A i \in 1..Len(grants) : \A j \in i..Len(grants) :
    One * (j - i + 1) <= Capacity + Rate * (grants[j] - grants[i])

(* The bucket is never emptier than the history explains: it is full, or    *)
(* some past grant opened a window whose whole remaining room is what the   *)
(* bucket holds; and it is never fuller than any window allows.  An entry   *)
(* is thus refused only when a window really is used up.                    *)
BucketMatchesHistory ==
  /\ \A i \in 1..Len(grants) : tokens <= Contract!Room(i, lastRefill)
  /\ \/ tokens = Capacity
     \/ \E i \in 1..Len(grants) : tokens = Contract!Room(i, lastRefill)

(* limiter.go implements the contract: same clock, same admissions, same    *)
(* samples, with the bucket and its last refill hidden.                     *)
ImplementsContract == Contract!Spec
=============================================================================
