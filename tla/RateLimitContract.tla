------------------------- MODULE RateLimitContract -------------------------
(***************************************************************************)
(* What a log rate limiter promises, with no bucket in sight: the history  *)
(* of the entries it admitted, and the rule that a further entry is        *)
(* admitted exactly when every window of time that ends now still has room *)
(* for it.  A window of length T has room for Burst + Rate * T entries.    *)
(* Entries that find no room are counted; every SampleEvery-th one of them *)
(* goes through, marked as throttled.                                      *)
(*                                                                         *)
(* RateLimiter (limiter.go) is shown to implement this specification.      *)
(***************************************************************************)
EXTENDS Integers, Sequences

CONSTANTS
  Burst,           (* entries a window of length zero has room for          *)
  Rate,            (* entries per second                                    *)
  TicksPerSecond,  (* clock ticks in a second                               *)
  SampleEvery,     (* one in how many refused entries goes through          *)
  MaxTicks         (* bound on the clock                                    *)

VARIABLES
  now,             (* the clock, in ticks                                   *)
  grants,          (* the times at which entries were admitted normally     *)
  skippedCount,    (* how many entries found no room                        *)
  reply            (* the answer to the last call                           *)

contractVars == <<now, grants, skippedCount, reply>>

Admitted == [allow |-> TRUE,  throttled |-> FALSE]
Sampled  == [allow |-> TRUE,  throttled |-> TRUE]
Refused  == [allow |-> FALSE, throttled |-> FALSE]
Replies  == {Admitted, Sampled, Refused}

(* Room, in parts of an entry, that the window opened by the i-th grant has *)
(* for one more entry at time t.  There are TicksPerSecond parts to an      *)
(* entry, so that Rate parts accrue in each tick.                           *)
Room(i, t) ==
  Burst * TicksPerSecond + Rate * (t - grants[i])
    - TicksPerSecond * (Len(grants) - i + 1)

(* Every window that ends at t, the empty one included, has room for one.   *)
HasRoom(t) ==
  /\ Burst * TicksPerSecond >= TicksPerSecond
  /\ \A i \in 1..Len(grants) : Room(i, t) >= TicksPerSecond

Init ==
  /\ now = 0
  /\ grants = <<>>
  /\ skippedCount = 0
  /\ reply = Admitted

Tick ==
  /\ now < MaxTicks
  /\ now' = now + 1
  /\ UNCHANGED <<grants, skippedCount, reply>>

Admit ==
  /\ HasRoom(now)
  /\ grants' = Append(grants, now)
  /\ reply' = Admitted
  /\ UNCHANGED <<now, skippedCount>>

Skip ==
  /\ ~HasRoom(now)
  /\ skippedCount' = skippedCount + 1
  /\ reply' = IF skippedCount' % SampleEvery = 0 THEN Sampled ELSE Refused
  /\ UNCHANGED <<now, grants>>

Next == Tick \/ Admit \/ Skip

Spec == Init /\ [][Next]_contractVars
=============================================================================
