----------------------------- MODULE AutoProfiler -----------------------------
(***************************************************************************)
(* AutoProfiler (observability/pprof_trigger.go), the telemetry loops that *)
(* call CheckAndTrigger on globalProfiler (sys_telemetry.go), and Init     *)
(* (observability.go), which puts a new profiler there each time it is     *)
(* called while the loops and the profiles of earlier calls go on.         *)
(*                                                                         *)
(* CheckAndTrigger and shouldProfile run under the profiler's mutex and    *)
(* are one step.  The Go runtime (external) has one CPU profile at a time  *)
(* and refuses to start a second.  triggerHeapProfile leaves nothing       *)
(* behind but its file and is left out.                                    *)
(***************************************************************************)
EXTENDS Integers

CONSTANTS
  Loops,     (* goroutines in runTelemetryLoop                              *)
  MaxInits,  (* bound: calls of Init                                        *)
  Cooldown,  (* the five minutes of shouldProfile, in ticks                 *)
  Duration   (* PprofProfileDuration, in ticks                              *)

ASSUME ProfilerAssumption ==
  /\ MaxInits \in Nat \ {0}
  /\ Cooldown \in Nat
  /\ Duration \in Nat

VARIABLES
  globalProfiler,  (* the n-th profiler made, for the n-th Init             *)
  seen,            (* seen[l]: the profiler loop l has read, 0 for none     *)
  isProfiling,     (* AutoProfiler.isProfiling                              *)
  since,           (* ticks since lastRun, counted up to Cooldown           *)
  job,             (* where a profiler's CPU profile goroutine is           *)
  pause,           (* ticks left of stopCPUProfileAfter's sleep             *)
  cpu,             (* the profiler whose profile the runtime takes, or 0    *)
  failed           (* history: profilers one of whose starts failed         *)

profilerVars == <<globalProfiler, seen, isProfiling, since, job, pause, cpu, failed>>

Profilers == 1..MaxInits

(* The first Init.  The zero lastRun lies more than a cooldown back.        *)
ProfilerInit ==
  /\ globalProfiler = 1
  /\ seen = [l \in Loops |-> 0]
  /\ isProfiling = [p \in Profilers |-> FALSE]
  /\ since = [p \in Profilers |-> Cooldown]
  /\ job = [p \in Profilers |-> "none"]
  /\ pause = [p \in Profilers |-> 0]
  /\ cpu = 0
  /\ failed = {}

(* A later Init replaces the global profiler.                               *)
InitAgain ==
  /\ globalProfiler < MaxInits
  /\ globalProfiler' = globalProfiler + 1
  /\ UNCHANGED <<seen, isProfiling, since, job, pause, cpu, failed>>

Tick ==
  /\ \E p \in Profilers : since[p] < Cooldown \/ pause[p] > 0
  /\ since' = [p \in Profilers |-> IF since[p] < Cooldown THEN since[p] + 1
                                   ELSE since[p]]
  /\ pause' = [p \in Profilers |-> IF pause[p] > 0 THEN pause[p] - 1 ELSE 0]
  /\ UNCHANGED <<globalProfiler, seen, isProfiling, job, cpu, failed>>

-----------------------------------------------------------------------------
(* checkAutoPprof reads the global; Init may replace it before the call.    *)
LoopReads(l) ==
  /\ seen[l] = 0
  /\ seen' = [seen EXCEPT ![l] = globalProfiler]
  /\ UNCHANGED <<globalProfiler, isProfiling, since, job, pause, cpu, failed>>

(* shouldProfile, when a limit is exceeded.                                 *)
MayProfile(p) == ~isProfiling[p] /\ since[p] >= Cooldown

(* CheckAndTrigger of a measurement within the limits, or too early: the    *)
(* loop goes on.                                                            *)
LoopPasses(l) ==
  /\ seen[l] # 0
  /\ seen' = [seen EXCEPT ![l] = 0]
  /\ UNCHANGED <<globalProfiler, isProfiling, since, job, pause, cpu, failed>>

(* CheckAndTrigger of a measurement over a limit.                           *)
LoopTriggers(l) ==
  LET p == seen[l] IN
  /\ p # 0
  /\ MayProfile(p)
  /\ seen' = [seen EXCEPT ![l] = 0]
  /\ since' = [since EXCEPT ![p] = 0]
  /\ isProfiling' = [isProfiling EXCEPT ![p] = TRUE]
  /\ job' = [job EXCEPT ![p] = "create"]
  /\ UNCHANGED <<globalProfiler, pause, cpu, failed>>

-----------------------------------------------------------------------------
(* triggerCPUProfile gives up: isProfiling stays as it is.                  *)
GivesUp(p) ==
  /\ job' = [job EXCEPT ![p] = "none"]
  /\ failed' = failed \union {p}
  /\ UNCHANGED <<pause, cpu>>

(* triggerCPUProfile: the file is created, or that fails.                   *)
CreateFile(p) ==
  /\ job[p] = "create"
  /\ \/ job' = [job EXCEPT ![p] = "start"] /\ UNCHANGED <<pause, cpu, failed>>
     \/ GivesUp(p)
  /\ UNCHANGED <<globalProfiler, seen, isProfiling, since>>

(* Mutant of StartProfile: the error of StartCPUProfile is ignored.         *)
StartIgnoresInUse(p) ==
  /\ job[p] = "start"
  /\ job' = [job EXCEPT ![p] = "sleep"]
  /\ pause' = [pause EXCEPT ![p] = Duration]
  /\ cpu' = IF cpu = 0 THEN p ELSE cpu
  /\ UNCHANGED <<globalProfiler, seen, isProfiling, since, failed>>

(* triggerCPUProfile: pprof.StartCPUProfile, refused while a profile runs.  *)
StartProfile(p) ==
  /\ job[p] = "start"
  /\ \/ /\ cpu = 0
        /\ cpu' = p
        /\ job' = [job EXCEPT ![p] = "sleep"]
        /\ pause' = [pause EXCEPT ![p] = Duration]
        /\ UNCHANGED failed
     \/ cpu # 0 /\ GivesUp(p)
  /\ UNCHANGED <<globalProfiler, seen, isProfiling, since>>

(* stopCPUProfileAfter: StopCPUProfile ends whatever profile runs.          *)
StopProfile(p) ==
  /\ job[p] = "sleep"
  /\ pause[p] = 0
  /\ cpu' = 0
  /\ job' = [job EXCEPT ![p] = "clear"]
  /\ UNCHANGED <<globalProfiler, seen, isProfiling, since, pause, failed>>

(* Mutant of ClearFlag: the flag is not taken back.                         *)
ClearNothing(p) ==
  /\ job[p] = "clear"
  /\ job' = [job EXCEPT ![p] = "none"]
  /\ UNCHANGED <<globalProfiler, seen, isProfiling, since, pause, cpu, failed>>

(* stopCPUProfileAfter: isProfiling is cleared last.                        *)
ClearFlag(p) ==
  /\ job[p] = "clear"
  /\ job' = [job EXCEPT ![p] = "none"]
  /\ isProfiling' = [isProfiling EXCEPT ![p] = FALSE]
  /\ UNCHANGED <<globalProfiler, seen, since, pause, cpu, failed>>

Job(p) == CreateFile(p) \/ StartProfile(p) \/ StopProfile(p) \/ ClearFlag(p)

ProfilerNext ==
  \/ InitAgain
  \/ Tick
  \/ \E l \in Loops : LoopReads(l) \/ LoopPasses(l) \/ LoopTriggers(l)
  \/ \E p \in Profilers : Job(p)

(* The goroutines of a profile run, and its sleep comes to an end.          *)
Fairness ==
  /\ WF_profilerVars(Tick)
  /\ \A p \in Profilers : WF_profilerVars(Job(p))

ProfilerSpec == ProfilerInit /\ [][ProfilerNext]_profilerVars /\ Fairness

-----------------------------------------------------------------------------
ProfilerTypeOK ==
  /\ globalProfiler \in Profilers
  /\ seen \in [Loops -> 0..globalProfiler]
  /\ isProfiling \in [Profilers -> BOOLEAN]
  /\ since \in [Profilers -> 0..Cooldown]
  /\ job \in [Profilers -> {"none", "create", "start", "sleep", "clear"}]
  /\ pause \in [Profilers -> 0..Duration]
  /\ cpu \in 0..globalProfiler
  /\ failed \subseteq 1..globalProfiler
  /\ \A p \in Profilers : job[p] # "sleep" => pause[p] = 0

(* triggerCPUProfile and stopCPUProfileAfter: the profile the runtime takes *)
(* is that of the profiler which sleeps before it stops it.  No profiler    *)
(* stops the profile of another, although StopCPUProfile would, and several *)
(* profilers can be at work after a second Init.                            *)
RuntimeProfileOwned == \A p \in Profilers : cpu = p <=> job[p] = "sleep"

(* triggerCPUProfile, lines 76 and 80: a profiler whose start failed keeps  *)
(* its flag and is not ready again.                                         *)
FailedStaysBusy == \A p \in failed : isProfiling[p]

(* stopCPUProfileAfter: a profiler is ready for another profile in the end, *)
(* also when it was replaced meanwhile, unless a start failed, and then it  *)
(* never is.                                                                *)
ReadyAgainUnlessFailed ==
  /\ \A p \in Profilers :
       isProfiling[p] ~> (~isProfiling[p] \/ p \in failed)
  /\ []FailedStaysBusy
=============================================================================
