----------------------------- MODULE DiskProofs -----------------------------
(***************************************************************************)
(* The two components that write files of their own.                       *)
(*                                                                         *)
(* AutoProfiler, for any number of telemetry loops and profilers and any   *)
(* times: its types, the ownership of the runtime's profile, and what a    *)
(* failed start leaves behind.                                             *)
(*                                                                         *)
(* RotatingFile, for every maxSize, every number of backups and any lines: *)
(* its types, the size of the file, the lines and the number of backups    *)
(* that rotations keep.                                                    *)
(***************************************************************************)
EXTENDS AutoProfiler, RotatingFile, SequenceTheorems, FiniteSetTheorems,
        WellFoundedInduction, TLAPS

(* Only a profiler that was made and has its flag set has a goroutine at    *)
(* work, so that no second one is started for it.                           *)
WorkUnderFlag ==
  \A p \in Profilers : job[p] # "none" => isProfiling[p] /\ p <= globalProfiler

(* A failed start leaves no goroutine that could clear the flag later.      *)
FailedIsIdle == \A p \in failed : job[p] = "none"

ProfilerInv == /\ ProfilerTypeOK /\ WorkUnderFlag /\ RuntimeProfileOwned
        /\ FailedStaysBusy /\ FailedIsIdle

LEMMA InitProfilerInv == ProfilerInit => ProfilerInv
BY ProfilerAssumption
DEF ProfilerInit, ProfilerInv, ProfilerTypeOK, WorkUnderFlag, RuntimeProfileOwned, FailedStaysBusy,
    FailedIsIdle, Profilers

(* A start that fails is that of a profiler whose flag is set.              *)
LEMMA GivesUpKeepsInv ==
  ASSUME ProfilerInv, NEW p \in Profilers, job[p] \in {"create", "start"}, GivesUp(p),
         UNCHANGED <<globalProfiler, seen, isProfiling, since>>
  PROVE  ProfilerInv'
<1> USE ProfilerAssumption DEF ProfilerInv
<1>1. /\ isProfiling[p] = TRUE
      /\ p \in 1..globalProfiler /\ cpu # p
  BY DEF WorkUnderFlag, RuntimeProfileOwned, ProfilerTypeOK, Profilers
<1>2. /\ job' \in [Profilers -> {"none", "create", "start", "sleep", "clear"}]
      /\ job'[p] = "none"
      /\ \A q \in Profilers \ {p} : job'[q] = job[q]
  BY DEF GivesUp, ProfilerTypeOK
<1>3. failed' = failed \union {p} /\ UNCHANGED <<pause, cpu>>
  BY DEF GivesUp
<1>4. ProfilerTypeOK'
  BY <1>1, <1>2, <1>3 DEF ProfilerTypeOK
<1>5. WorkUnderFlag'
  BY <1>2, <1>3 DEF WorkUnderFlag
<1>6. RuntimeProfileOwned'
  BY <1>1, <1>2, <1>3 DEF RuntimeProfileOwned
<1>7. FailedStaysBusy'
  BY <1>1, <1>3 DEF FailedStaysBusy
<1>8. FailedIsIdle'
  <2>1. \A q \in failed : q \in Profilers
    BY DEF ProfilerTypeOK, Profilers
  <2> QED
    BY <1>2, <1>3, <2>1 DEF FailedIsIdle
<1> QED
  BY <1>4, <1>5, <1>6, <1>7, <1>8

LEMMA NextProfilerInv == ProfilerInv /\ [ProfilerNext]_profilerVars => ProfilerInv'
<1> SUFFICES ASSUME ProfilerInv, [ProfilerNext]_profilerVars PROVE ProfilerInv'
  OBVIOUS
<1> USE ProfilerAssumption
    DEF ProfilerInv, ProfilerTypeOK, WorkUnderFlag, RuntimeProfileOwned, FailedStaysBusy,
        FailedIsIdle, Profilers
<1>1. CASE InitAgain
  BY <1>1 DEF InitAgain
<1>2. CASE Tick
  <2>1. since' \in [Profilers -> 0..Cooldown]
    BY <1>2 DEF Tick
  <2>2. /\ pause' \in [Profilers -> 0..Duration]
        /\ \A p \in Profilers : job'[p] # "sleep" => pause'[p] = 0
    BY <1>2 DEF Tick
  <2> QED
    BY <1>2, <2>1, <2>2 DEF Tick
<1>3. ASSUME NEW l \in Loops, LoopReads(l) PROVE ProfilerInv'
  BY <1>3 DEF LoopReads
<1>4. ASSUME NEW l \in Loops, LoopPasses(l) PROVE ProfilerInv'
  BY <1>4 DEF LoopPasses
<1>5. ASSUME NEW l \in Loops, LoopTriggers(l) PROVE ProfilerInv'
  <2> DEFINE p == seen[l]
  <2>1. p \in Profilers /\ p <= globalProfiler /\ ~isProfiling[p]
    BY <1>5 DEF LoopTriggers, MayProfile
  <2>2. job[p] = "none" /\ p \notin failed
    BY <2>1
  <2>3. /\ seen' = [seen EXCEPT ![l] = 0]
        /\ since' = [since EXCEPT ![p] = 0]
        /\ isProfiling' = [isProfiling EXCEPT ![p] = TRUE]
        /\ job' = [job EXCEPT ![p] = "create"]
        /\ UNCHANGED <<globalProfiler, pause, cpu, failed>>
    BY <1>5 DEF LoopTriggers
  <2> HIDE DEF p
  <2>4. /\ isProfiling' \in [Profilers -> BOOLEAN]
        /\ isProfiling'[p] = TRUE
        /\ \A q \in Profilers \ {p} : isProfiling'[q] = isProfiling[q]
    BY <2>1, <2>3, Zenon
  <2>5. /\ job' \in [Profilers -> {"none", "create", "start", "sleep", "clear"}]
        /\ job'[p] = "create"
        /\ \A q \in Profilers \ {p} : job'[q] = job[q]
    BY <2>1, <2>3
  <2>6. ProfilerTypeOK'
    <3>1. /\ seen' \in [Loops -> 0..globalProfiler]
          /\ since' \in [Profilers -> 0..Cooldown]
      BY <2>1, <2>3
    <3>2. \A q \in Profilers : job'[q] # "sleep" => pause'[q] = 0
      BY <2>2, <2>3, <2>5
    <3> QED
      BY <2>3, <2>4, <2>5, <3>1, <3>2
  <2>7. RuntimeProfileOwned'
    BY <2>1, <2>2, <2>3, <2>5
  <2>8. WorkUnderFlag'
    BY <2>1, <2>3, <2>4, <2>5
  <2>9. \A q \in failed : q \in Profilers \ {p}
    BY <2>2
  <2>10. FailedStaysBusy'
    BY <2>3, <2>4, <2>9
  <2>11. FailedIsIdle'
    BY <2>3, <2>5, <2>9
  <2> QED
    BY <2>6, <2>7, <2>8, <2>10, <2>11
<1>6. ASSUME NEW p \in Profilers, CreateFile(p) PROVE ProfilerInv'
  <2>1. job[p] = "create" /\ UNCHANGED <<globalProfiler, seen, isProfiling, since>>
    BY <1>6 DEF CreateFile
  <2>2. CASE GivesUp(p)
    BY <2>1, <2>2, GivesUpKeepsInv
  <2>3. CASE job' = [job EXCEPT ![p] = "start"] /\ UNCHANGED <<pause, cpu, failed>>
    <3>1. p \notin failed /\ isProfiling[p] /\ p <= globalProfiler /\ cpu # p
      BY <2>1
    <3>2. /\ job' \in [Profilers -> {"none", "create", "start", "sleep", "clear"}]
          /\ job'[p] = "start"
          /\ \A q \in Profilers \ {p} : job'[q] = job[q]
      BY <2>3
    <3>3. ProfilerTypeOK' /\ FailedStaysBusy'
      BY <2>1, <2>3, <3>1, <3>2
    <3>4. RuntimeProfileOwned'
      BY <2>3, <3>1, <3>2
    <3>5. WorkUnderFlag'
      BY <2>1, <3>1, <3>2
    <3>6. \A q \in failed : q \in Profilers \ {p}
      BY <3>1
    <3>7. FailedIsIdle'
      BY <2>3, <3>2, <3>6
    <3> QED
      BY <3>3, <3>4, <3>5, <3>7
  <2> QED
    BY <1>6, <2>2, <2>3 DEF CreateFile
<1>7. ASSUME NEW p \in Profilers, StartProfile(p) PROVE ProfilerInv'
  <2>1. job[p] = "start" /\ UNCHANGED <<globalProfiler, seen, isProfiling, since>>
    BY <1>7 DEF StartProfile
  <2>2. CASE GivesUp(p)
    BY <2>1, <2>2, GivesUpKeepsInv
  <2>3. CASE /\ cpu = 0 /\ cpu' = p
             /\ job' = [job EXCEPT ![p] = "sleep"]
             /\ pause' = [pause EXCEPT ![p] = Duration]
             /\ UNCHANGED failed
    <3>1. /\ p \notin failed /\ isProfiling[p] /\ p <= globalProfiler /\ p # 0
          /\ \A q \in Profilers : job[q] # "sleep"
      BY <2>1, <2>3
    <3>2. ProfilerTypeOK'
      BY <2>1, <2>3, <3>1
    <3>3. RuntimeProfileOwned'
      BY <2>1, <2>3, <3>1
    <3>4. WorkUnderFlag' /\ FailedStaysBusy' /\ FailedIsIdle'
      BY <2>1, <2>3, <3>1
    <3> QED
      BY <3>2, <3>3, <3>4
  <2> QED
    BY <1>7, <2>2, <2>3 DEF StartProfile
<1>8. ASSUME NEW p \in Profilers, StopProfile(p) PROVE ProfilerInv'
  <2>1. /\ job[p] = "sleep" /\ pause[p] = 0 /\ cpu' = 0
        /\ job' = [job EXCEPT ![p] = "clear"]
        /\ UNCHANGED <<globalProfiler, seen, isProfiling, since, pause, failed>>
    BY <1>8 DEF StopProfile
  <2>2. /\ cpu = p /\ p # 0 /\ isProfiling[p] /\ p <= globalProfiler /\ p \notin failed
        /\ \A q \in Profilers \ {p} : job[q] # "sleep"
    BY <2>1
  <2>3. /\ job' \in [Profilers -> {"none", "create", "start", "sleep", "clear"}]
        /\ job'[p] = "clear"
        /\ \A q \in Profilers \ {p} : job'[q] = job[q]
    BY <2>1
  <2>4. ProfilerTypeOK'
    BY <2>1, <2>2, <2>3
  <2>5. RuntimeProfileOwned'
    BY <2>1, <2>2, <2>3
  <2>6. WorkUnderFlag'
    BY <2>1, <2>2, <2>3
  <2>7. FailedStaysBusy' /\ FailedIsIdle'
    BY <2>1, <2>2, <2>3
  <2> QED
    BY <2>4, <2>5, <2>6, <2>7
<1>9. ASSUME NEW p \in Profilers, ClearFlag(p) PROVE ProfilerInv'
  <2>1. /\ job[p] = "clear"
        /\ job' = [job EXCEPT ![p] = "none"]
        /\ isProfiling' = [isProfiling EXCEPT ![p] = FALSE]
        /\ UNCHANGED <<globalProfiler, seen, since, pause, cpu, failed>>
    BY <1>9 DEF ClearFlag
  <2>2. p \notin failed /\ pause[p] = 0 /\ cpu # p
    BY <2>1
  <2>3. /\ job' \in [Profilers -> {"none", "create", "start", "sleep", "clear"}]
        /\ job'[p] = "none"
        /\ \A q \in Profilers \ {p} : job'[q] = job[q]
    BY <2>1
  <2>4. /\ isProfiling' \in [Profilers -> BOOLEAN]
        /\ \A q \in Profilers \ {p} : isProfiling'[q] = isProfiling[q]
    BY <2>1, Zenon
  <2>5. ProfilerTypeOK'
    BY <2>1, <2>2, <2>3, <2>4
  <2>6. RuntimeProfileOwned'
    BY <2>1, <2>2, <2>3
  <2>7. WorkUnderFlag'
    BY <2>1, <2>3, <2>4
  <2>8. FailedStaysBusy' /\ FailedIsIdle'
    BY <2>1, <2>2, <2>3, <2>4
  <2> QED
    BY <2>5, <2>6, <2>7, <2>8
<1>10. CASE UNCHANGED profilerVars
  BY <1>10 DEF profilerVars
<1> QED
  BY <1>1, <1>2, <1>3, <1>4, <1>5, <1>6, <1>7, <1>8, <1>9, <1>10 DEF ProfilerNext, Job

LEMMA ProfilerInvHolds == ProfilerSpec => []ProfilerInv
BY InitProfilerInv, NextProfilerInv, PTL DEF ProfilerSpec

-----------------------------------------------------------------------------
(* The fields of the profilers, loops and profiles keep their types; a      *)
(* pause runs only inside a sleep.                                          *)
THEOREM ProfilerTypeCorrect == ProfilerSpec => []ProfilerTypeOK
<1>1. ProfilerInv => ProfilerTypeOK
  BY DEF ProfilerInv
<1> QED
  BY <1>1, ProfilerInvHolds, PTL

(* StopCPUProfile never stops the profile of another profiler, however many *)
(* of them repeated calls of Init have made.                                *)
THEOREM ProfileOwned == ProfilerSpec => []RuntimeProfileOwned
<1>1. ProfilerInv => RuntimeProfileOwned
  BY DEF ProfilerInv
<1> QED
  BY <1>1, ProfilerInvHolds, PTL

(* A profiler one of whose starts failed is never ready again.              *)
THEOREM FailedNeverReady == ProfilerSpec => []FailedStaysBusy
<1>1. ProfilerInv => FailedStaysBusy
  BY DEF ProfilerInv
<1> QED
  BY <1>1, ProfilerInvHolds, PTL

-----------------------------------------------------------------------------
Lines == (1..MaxWrites) \X Nat

(* Induction over the natural numbers, for a set of numbers.                *)
LEMMA SetInduction ==
  ASSUME NEW T, 0 \in T, \A n \in Nat : n \in T => n + 1 \in T
  PROVE  Nat \subseteq T
<1> DEFINE R == OpToRel(<, Nat)
           Missing == Nat \ T
<1> SUFFICES ASSUME Missing # {} PROVE FALSE
  OBVIOUS
<1>1. PICK x \in Missing : \A y \in Missing : <<y, x>> \notin R
  <2> HIDE DEF R
  <2>1. IsWellFoundedOn(R, Nat)
    BY NatLessThanWellFounded DEF R
  <2> QED
    BY <2>1, WFMin
<1>2. x - 1 \in Missing /\ x = (x - 1) + 1
  OBVIOUS
<1>3. <<x - 1, x>> \in R
  BY <1>2 DEF OpToRel
<1> QED
  BY <1>1, <1>2, <1>3

-----------------------------------------------------------------------------
(* Sizes of files.                                                          *)

(* The equations of Sizes, as one, and one at a time up to m.               *)
IsSizes(f, g) == g = [n \in 0..Len(f) |-> IF n = 0 THEN 0 ELSE g[n - 1] + f[n][2]]

SizesUpto(m, f, g) == /\ g[0] = 0
                      /\ \A n \in 1..m : g[n] = g[n - 1] + f[n][2]

LEMMA LineLengths ==
  ASSUME NEW f \in Seq(Lines)
  PROVE  Len(f) \in Nat /\ \A n \in 1..Len(f) : f[n] \in Lines /\ f[n][2] \in Nat
<1>1. Len(f) \in Nat /\ \A n \in 1..Len(f) : f[n] \in Lines
  BY LenProperties, ElementOfSeq
<1> QED
  BY <1>1 DEF Lines

LEMMA SizesExist ==
  ASSUME NEW f \in Seq(Lines)
  PROVE  \E g \in [0..Len(f) -> Nat] : SizesUpto(Len(f), f, g)
<1> DEFINE T == {m \in Nat : m <= Len(f) => \E g \in [0..m -> Nat] : SizesUpto(m, f, g)}
<1>1. Len(f) \in Nat /\ \A n \in 1..Len(f) : f[n][2] \in Nat
  BY LineLengths
<1>2. 0 \in T
  <2>1. [n \in 0..0 |-> 0] \in [0..0 -> Nat] /\ SizesUpto(0, f, [n \in 0..0 |-> 0])
    BY DEF SizesUpto
  <2> QED
    BY <2>1
<1>3. ASSUME NEW m \in Nat, m \in T PROVE m + 1 \in T
  <2>1. ASSUME m + 1 <= Len(f)
        PROVE  \E g \in [0..(m + 1) -> Nat] : SizesUpto(m + 1, f, g)
    <3>1. PICK g \in [0..m -> Nat] : SizesUpto(m, f, g)
      BY <1>1, <1>3, <2>1
    <3> DEFINE h == [n \in 0..(m + 1) |-> IF n = m + 1 THEN g[m] + f[m + 1][2] ELSE g[n]]
    <3>2. f[m + 1][2] \in Nat
      BY <1>1, <2>1
    <3>3. h \in [0..(m + 1) -> Nat]
      BY <3>2
    <3>4. SizesUpto(m + 1, f, h)
      BY <3>1, <3>2 DEF SizesUpto
    <3> HIDE DEF h
    <3> QED
      BY <3>3, <3>4
  <2> QED
    BY <2>1
<1>4. Len(f) \in T
  <2> HIDE DEF T
  <2> QED
    BY <1>1, <1>2, <1>3, SetInduction
<1> QED
  BY <1>1, <1>4

LEMMA SizesUnique ==
  ASSUME NEW f, NEW g, NEW h, NEW m \in Nat, SizesUpto(m, f, g), SizesUpto(m, f, h)
  PROVE  g[m] = h[m]
<1> DEFINE T == {n \in Nat : n <= m => g[n] = h[n]}
<1>1. 0 \in T
  BY DEF SizesUpto
<1>2. ASSUME NEW n \in Nat, n \in T PROVE n + 1 \in T
  BY <1>2 DEF SizesUpto
<1>3. m \in T
  <2> HIDE DEF T
  <2> QED
    BY <1>1, <1>2, SetInduction
<1> QED
  BY <1>3

LEMMA SizesProperty ==
  ASSUME NEW f \in Seq(Lines)
  PROVE  SizesUpto(Len(f), f, Sizes(f)) /\ SizeOf(f) \in Nat
<1>1. PICK g \in [0..Len(f) -> Nat] : SizesUpto(Len(f), f, g)
  BY SizesExist
<1>2. Len(f) \in Nat
  BY LineLengths
<1>3. IsSizes(f, g)
  BY <1>1, <1>2 DEF IsSizes, SizesUpto
<1> DEFINE h == Sizes(f)
<1>4. h = [n \in 0..Len(f) |-> IF n = 0 THEN 0 ELSE h[n - 1] + f[n][2]]
  BY <1>3 DEF IsSizes, Sizes
<1>5. SizesUpto(Len(f), f, h)
  <2> HIDE DEF h
  <2> QED
    BY <1>2, <1>4 DEF SizesUpto
<1>6. h[Len(f)] = g[Len(f)]
  BY <1>1, <1>2, <1>5, SizesUnique
<1> QED
  BY <1>1, <1>2, <1>5, <1>6 DEF SizeOf

LEMMA SizeEmpty == SizeOf(<<>>) = 0
BY SizesProperty, EmptySeq DEF SizeOf, SizesUpto

LEMMA SizeAppend ==
  ASSUME NEW f \in Seq(Lines), NEW l \in Lines
  PROVE  SizeOf(Append(f, l)) = SizeOf(f) + l[2]
<1> DEFINE t == Append(f, l)
           p == Sizes(f)
           q == Sizes(t)
<1>1. /\ t \in Seq(Lines) /\ Len(t) = Len(f) + 1 /\ Len(f) \in Nat
      /\ \A n \in 1..Len(f) : t[n] = f[n]
      /\ t[Len(f) + 1] = l
  BY AppendProperties, LenProperties
<1>2. SizesUpto(Len(f), f, p)
  BY SizesProperty
<1>3. SizesUpto(Len(f) + 1, t, q)
  BY <1>1, SizesProperty
<1>4. SizeOf(f) = p[Len(f)] /\ SizeOf(t) = q[Len(f) + 1]
  BY <1>1 DEF SizeOf
<1> HIDE DEF t, p, q
<1>5. SizesUpto(Len(f), f, q)
  BY <1>1, <1>3 DEF SizesUpto
<1>6. p[Len(f)] = q[Len(f)]
  BY <1>1, <1>2, <1>5, SizesUnique
<1>7. q[Len(f) + 1] = q[Len(f)] + l[2]
  BY <1>1, <1>3 DEF SizesUpto
<1> QED
  BY <1>4, <1>6, <1>7 DEF t

-----------------------------------------------------------------------------
(* What the steps of a write rely on.                                       *)

DiskOK ==
  /\ DOMAIN disk \subseteq 0..maxBackups \union {0, 1}
  /\ \A i \in DOMAIN disk : disk[i] \in Seq(Lines)

(* A write under way has its line, and has not failed.                      *)
InWrite ==
  /\ errors <= writes
  /\ pc \notin {"idle", "down"} => line \in Lines /\ errors < writes

(* Where the current file is while rotate works.                            *)
RotateHolds ==
  /\ pc = "shift" => file = "closed" /\ 0 \in DOMAIN disk
  /\ pc = "open" => /\ file = "closed" /\ size = 0
                    /\ 0 \notin DOMAIN disk

(* An open file has the size kept for it, and room for the line to come.    *)
OpenFile ==
  /\ file = "open" => 0 \in DOMAIN disk /\ size = SizeOf(disk[0])
  /\ file = "open" /\ pc = "append" => disk[0] = <<>> \/ size + line[2] <= MaxSize

FilesFit ==
  \A i \in DOMAIN disk : Len(disk[i]) > 1 => SizeOf(disk[i]) <= MaxSize

IInv == TypeOK /\ InWrite /\ RotateHolds /\ OpenFile /\ FilesFit

LEMMA InitIInv == Init => IInv
<1> SUFFICES ASSUME Init PROVE IInv
  OBVIOUS
<1>1. <<>> \in Seq(Lines) /\ Len(<<>>) = 0
  BY EmptySeq
<1>2. maxBackups \in Nat /\ MaxWrites \in Nat
  BY RotationAssumption DEF Init
<1>3. TypeOK
  BY <1>1, <1>2 DEF Init, TypeOK, Lines
<1>4. InWrite /\ RotateHolds /\ OpenFile /\ FilesFit
  BY <1>1, SizeEmpty DEF Init, InWrite, RotateHolds, OpenFile, FilesFit
<1> QED
  BY <1>3, <1>4 DEF IInv

LEMMA TypeSplit ==
  TypeOK <=>
    /\ DiskOK
    /\ maxBackups \in Backups
    /\ file \in {"open", "closed", "nil"}
    /\ size \in Nat
    /\ pc \in {"idle", "close", "shift", "open", "append", "down"}
    /\ slot \in 0..maxBackups
    /\ line \in (0..MaxWrites) \X Nat
    /\ writes \in 0..MaxWrites
    /\ errors \in 0..MaxWrites
    /\ rotations \in Nat
    /\ logged \in Seq(Lines)
BY DEF TypeOK, DiskOK, Lines

LEMMA Consts == ASSUME TypeOK PROVE maxBackups \in Nat /\ MaxWrites \in Nat /\ MaxSize \in Int
BY RotationAssumption DEF TypeOK

(* os.Rename of one slot to the next.                                       *)
LEMMA RenamedProperty ==
  ASSUME NEW i, NEW j, i # j, disk' = Renamed(i, j)
  PROVE  /\ DOMAIN disk' = (DOMAIN disk \ {i}) \union {j}
         /\ disk'[j] = disk[i]
         /\ \A k \in DOMAIN disk \ {i, j} : disk'[k] = disk[k]
BY DEF Renamed

LEMMA WithoutProperty ==
  ASSUME NEW i
  PROVE  /\ DOMAIN Without(i) = DOMAIN disk \ {i}
         /\ \A k \in DOMAIN disk \ {i} : Without(i)[k] = disk[k]
BY DEF Without

LEMMA BeginWriteKeeps ==
  ASSUME IInv, NEW len \in Lengths, BeginWrite(len) PROVE IInv'
<1>1. /\ len \in Nat /\ pc = "idle" /\ writes < MaxWrites
      /\ writes' = writes + 1 /\ line' = <<writes + 1, len>>
      /\ pc' = IF size + len > MaxSize THEN "close" ELSE "append"
      /\ UNCHANGED <<maxBackups, disk, file, size, slot, errors, rotations, logged, faults,
                     crashes>>
  BY RotationAssumption DEF BeginWrite
<1>2. TypeOK /\ maxBackups \in Nat /\ MaxWrites \in Nat /\ MaxSize \in Int
  BY Consts DEF IInv
<1>3. writes' \in 1..MaxWrites /\ line' \in Lines /\ line' \in (0..MaxWrites) \X Nat
  BY <1>1, <1>2, TypeSplit DEF Lines
<1>4. TypeOK'
  BY <1>1, <1>2, <1>3 DEF TypeOK
<1>5. InWrite'
  BY <1>1, <1>2, <1>3, TypeSplit DEF IInv, InWrite
<1>6. RotateHolds' /\ OpenFile' /\ FilesFit'
  BY <1>1, <1>2, TypeSplit DEF IInv, RotateHolds, OpenFile, FilesFit
<1> QED
  BY <1>4, <1>5, <1>6 DEF IInv

LEMMA RotateCloseKeeps == ASSUME IInv, RotateClose PROVE IInv'
<1>1. /\ pc = "close"
      /\ UNCHANGED <<maxBackups, disk, size, line, writes, rotations, logged, crashes>>
      /\ file' = IF file = "open" THEN "closed" ELSE file
      /\ \/ /\ file = "open" /\ pc' = "shift" /\ slot' = maxBackups /\ UNCHANGED errors
         \/ /\ pc' = "idle" /\ errors' = errors + 1 /\ UNCHANGED slot
  BY DEF RotateClose, Fails
<1>2. TypeOK /\ maxBackups \in Nat /\ MaxWrites \in Nat
  BY Consts DEF IInv
<1>3. errors < writes /\ line \in Lines
  BY <1>1 DEF IInv, InWrite
<1>4. TypeOK'
  <2>1. errors' \in 0..MaxWrites /\ slot' \in 0..maxBackups
    BY <1>1, <1>2, <1>3 DEF TypeOK
  <2> QED
    BY <1>1, <1>2, <2>1 DEF TypeOK
<1>5. InWrite'
  BY <1>1, <1>2, <1>3 DEF TypeOK, InWrite
<1>6. RotateHolds' /\ OpenFile' /\ FilesFit'
  BY <1>1, <1>2 DEF IInv, RotateHolds, OpenFile, FilesFit, TypeOK
<1> QED
  BY <1>4, <1>5, <1>6 DEF IInv

LEMMA ShiftBackupKeeps == ASSUME IInv, ShiftBackup PROVE IInv'
<1>1. /\ pc = "shift" /\ slot >= 1 /\ slot' = slot - 1
      /\ UNCHANGED <<maxBackups, file, size, pc, line, writes, errors, rotations, logged,
                     crashes>>
      /\ \/ slot = maxBackups /\ disk' = Without(slot)
         \/ slot # maxBackups /\ slot \in DOMAIN disk /\ disk' = Renamed(slot, slot + 1)
         \/ UNCHANGED disk
  BY DEF ShiftBackup
<1>2. TypeOK /\ maxBackups \in Nat /\ MaxWrites \in Nat /\ slot \in 1..maxBackups
  BY <1>1, Consts DEF IInv, TypeOK
<1>3. file = "closed" /\ 0 \in DOMAIN disk
  BY <1>1 DEF IInv, RotateHolds
<1>4. /\ DiskOK' /\ FilesFit' /\ 0 \in DOMAIN disk'
  <2>1. CASE UNCHANGED disk
    BY <1>1, <1>2, <1>3, <2>1, TypeSplit DEF IInv, DiskOK, FilesFit
  <2>2. CASE disk' = Without(slot)
    <3>1. /\ DOMAIN disk' = DOMAIN disk \ {slot}
          /\ \A k \in DOMAIN disk' : k \in DOMAIN disk /\ disk'[k] = disk[k]
      BY <2>2, WithoutProperty
    <3>2. DiskOK'
      BY <1>1, <1>2, <3>1, TypeSplit DEF DiskOK
    <3>3. FilesFit'
      BY <3>1 DEF IInv, FilesFit
    <3> QED
      BY <1>2, <1>3, <3>1, <3>2, <3>3
  <2>3. CASE slot # maxBackups /\ slot \in DOMAIN disk /\ disk' = Renamed(slot, slot + 1)
    <3>1. /\ DOMAIN disk' = (DOMAIN disk \ {slot}) \union {slot + 1}
          /\ disk'[slot + 1] = disk[slot]
          /\ \A k \in DOMAIN disk \ {slot, slot + 1} : disk'[k] = disk[k]
      <4>1. slot # slot + 1
        BY <1>2
      <4> QED
        BY <2>3, <4>1, RenamedProperty
    <3>2. slot + 1 \in 0..maxBackups
      BY <1>2, <2>3
    <3>3. \A k \in DOMAIN disk' : k = slot + 1 \/ (k \in DOMAIN disk /\ disk'[k] = disk[k])
      BY <3>1
    <3>4. DiskOK'
      <4>1. DOMAIN disk' \subseteq 0..maxBackups \union {0, 1}
        BY <1>2, <3>1, <3>2, TypeSplit DEF DiskOK
      <4>2. \A k \in DOMAIN disk' : disk'[k] \in Seq(Lines)
        BY <1>2, <2>3, <3>1, <3>3, TypeSplit DEF DiskOK
      <4> QED
        BY <1>1, <4>1, <4>2 DEF DiskOK
    <3>5. FilesFit'
      BY <2>3, <3>1, <3>3 DEF IInv, FilesFit
    <3>6. 0 \in DOMAIN disk'
      BY <1>2, <1>3, <3>1
    <3> QED
      BY <3>4, <3>5, <3>6
  <2> QED
    BY <1>1, <2>1, <2>2, <2>3
<1>5. TypeOK'
  BY <1>1, <1>2, <1>4, TypeSplit DEF TypeOK, DiskOK, Lines
<1>6. InWrite' /\ RotateHolds' /\ OpenFile'
  BY <1>1, <1>3, <1>4 DEF IInv, InWrite, RotateHolds, OpenFile
<1> QED
  BY <1>4, <1>5, <1>6 DEF IInv

LEMMA RenameCurrentKeeps == ASSUME IInv, RenameCurrent PROVE IInv'
<1>1. /\ pc = "shift" /\ slot = 0
      /\ UNCHANGED <<maxBackups, file, slot, line, writes, logged, crashes>>
      /\ \/ /\ disk' = Renamed(0, 1) /\ size' = 0 /\ rotations' = rotations + 1
            /\ pc' = "open" /\ UNCHANGED errors
         \/ /\ pc' = "idle" /\ errors' = errors + 1
            /\ UNCHANGED <<disk, size, rotations>>
  BY DEF RenameCurrent, Fails
<1>2. TypeOK /\ maxBackups \in Nat /\ MaxWrites \in Nat
  BY Consts DEF IInv
<1>3. file = "closed" /\ 0 \in DOMAIN disk /\ errors < writes /\ line \in Lines
  BY <1>1 DEF IInv, RotateHolds, InWrite
<1>4. CASE pc' = "idle" /\ errors' = errors + 1 /\ UNCHANGED <<disk, size, rotations>>
  <2>1. errors' \in 0..MaxWrites
    BY <1>2, <1>3, <1>4 DEF TypeOK
  <2>2. TypeOK'
    BY <1>1, <1>2, <1>4, <2>1 DEF TypeOK
  <2>3. InWrite' /\ RotateHolds' /\ OpenFile' /\ FilesFit'
    BY <1>1, <1>2, <1>3, <1>4 DEF IInv, InWrite, RotateHolds, OpenFile, FilesFit, TypeOK
  <2> QED
    BY <2>2, <2>3 DEF IInv
<1>5. CASE /\ disk' = Renamed(0, 1) /\ size' = 0 /\ rotations' = rotations + 1
           /\ pc' = "open" /\ UNCHANGED errors
  <2>1. /\ DOMAIN disk' = (DOMAIN disk \ {0}) \union {1}
        /\ disk'[1] = disk[0]
        /\ \A k \in DOMAIN disk \ {0, 1} : disk'[k] = disk[k]
    <3>1. 0 # 1
      OBVIOUS
    <3> QED
      BY <1>5, <3>1, RenamedProperty
  <2>2. \A k \in DOMAIN disk' : k = 1 \/ (k \in DOMAIN disk /\ disk'[k] = disk[k])
    BY <2>1
  <2>3. DiskOK' /\ FilesFit' /\ 0 \notin DOMAIN disk'
    BY <1>1, <1>2, <1>3, <2>1, <2>2, TypeSplit DEF IInv, DiskOK, FilesFit
  <2>4. TypeOK'
    BY <1>1, <1>2, <1>5, <2>3 DEF TypeOK, DiskOK, Lines
  <2>5. InWrite' /\ RotateHolds' /\ OpenFile'
    BY <1>1, <1>3, <1>5, <2>3 DEF IInv, InWrite, RotateHolds, OpenFile
  <2> QED
    BY <2>3, <2>4, <2>5 DEF IInv
<1> QED
  BY <1>1, <1>4, <1>5

LEMMA RotateOpenKeeps == ASSUME IInv, RotateOpen PROVE IInv'
<1>1. /\ pc = "open"
      /\ UNCHANGED <<maxBackups, size, slot, line, writes, rotations, logged, crashes>>
      /\ \/ /\ disk' = [k \in DOMAIN disk \union {0} |-> IF k = 0 THEN <<>> ELSE disk[k]]
            /\ file' = "open" /\ pc' = "append" /\ UNCHANGED errors
         \/ /\ pc' = "idle" /\ errors' = errors + 1 /\ UNCHANGED <<disk, file>>
  BY DEF RotateOpen, Fails
<1>2. TypeOK /\ maxBackups \in Nat /\ MaxWrites \in Nat
  BY Consts DEF IInv
<1>3. file = "closed" /\ size = 0 /\ errors < writes /\ line \in Lines
  BY <1>1 DEF IInv, RotateHolds, InWrite
<1>4. CASE pc' = "idle" /\ errors' = errors + 1 /\ UNCHANGED <<disk, file>>
  <2>1. errors' \in 0..MaxWrites
    BY <1>2, <1>3, <1>4 DEF TypeOK
  <2>2. TypeOK'
    BY <1>1, <1>2, <1>4, <2>1 DEF TypeOK
  <2>3. InWrite' /\ RotateHolds' /\ OpenFile' /\ FilesFit'
    BY <1>1, <1>2, <1>3, <1>4 DEF IInv, InWrite, RotateHolds, OpenFile, FilesFit, TypeOK
  <2> QED
    BY <2>2, <2>3 DEF IInv
<1>5. CASE /\ disk' = [k \in DOMAIN disk \union {0} |-> IF k = 0 THEN <<>> ELSE disk[k]]
           /\ file' = "open" /\ pc' = "append" /\ UNCHANGED errors
  <2>1. /\ DOMAIN disk' = DOMAIN disk \union {0}
        /\ disk'[0] = <<>>
        /\ \A k \in DOMAIN disk' : k = 0 \/ (k \in DOMAIN disk /\ disk'[k] = disk[k])
    BY <1>5
  <2>2. <<>> \in Seq(Lines) /\ Len(<<>>) = 0
    BY EmptySeq
  <2>3. DiskOK' /\ FilesFit'
    <3>1. DiskOK'
      BY <1>1, <1>2, <2>1, <2>2, TypeSplit DEF DiskOK
    <3>2. Len(disk'[0]) = 0
      BY <2>1, <2>2
    <3>3. FilesFit'
      BY <2>1, <3>2 DEF IInv, FilesFit
    <3> QED
      BY <3>1, <3>3
  <2>4. TypeOK'
    BY <1>1, <1>2, <1>5, <2>3 DEF TypeOK, DiskOK, Lines
  <2>5. InWrite' /\ RotateHolds' /\ OpenFile'
    BY <1>1, <1>3, <1>5, <2>1, SizeEmpty DEF IInv, InWrite, RotateHolds, OpenFile
  <2> QED
    BY <2>3, <2>4, <2>5 DEF IInv
<1> QED
  BY <1>1, <1>4, <1>5

(* A line that is appended where there is room, or to an empty file.        *)
LEMMA AppendedKeeps ==
  ASSUME IInv, pc = "append", file = "open", NEW n \in 0..line[2], NEW l,
         l = <<line[1], n>>, disk' = Appended(l), UNCHANGED maxBackups
  PROVE  /\ DiskOK' /\ FilesFit'
         /\ 0 \in DOMAIN disk' /\ size + n = SizeOf(disk'[0])
<1>1. /\ line \in Lines /\ 0 \in DOMAIN disk /\ size = SizeOf(disk[0]) /\ size \in Nat
      /\ disk[0] \in Seq(Lines)
      /\ disk[0] = <<>> \/ size + line[2] <= MaxSize
  BY TypeSplit DEF IInv, InWrite, OpenFile, DiskOK
<1>2. l \in Lines /\ l[2] = n /\ line[2] \in Nat /\ n \in Nat /\ MaxSize \in Int
  BY <1>1, RotationAssumption DEF Lines
<1> DEFINE t == Append(disk[0], l)
<1>3. /\ DOMAIN disk' = DOMAIN disk
      /\ disk'[0] = t
      /\ \A k \in DOMAIN disk : k # 0 => disk'[k] = disk[k]
  BY <1>1 DEF Appended
<1>4. /\ t \in Seq(Lines) /\ Len(t) = Len(disk[0]) + 1 /\ SizeOf(t) = size + n
  BY <1>1, <1>2, AppendProperties, SizeAppend
<1> HIDE DEF t
<1>5. Len(disk'[0]) > 1 => SizeOf(disk'[0]) <= MaxSize
  <2>1. CASE disk[0] = <<>>
    <3>1. Len(disk[0]) = 0
      BY <2>1, EmptySeq
    <3>2. Len(t) = 1
      BY <1>4, <3>1
    <3>3. ~(1 > 1)
      OBVIOUS
    <3> QED
      BY <1>3, <3>2, <3>3, Zenon
  <2>2. CASE size + line[2] <= MaxSize
    <3>1. SizeOf(disk'[0]) = size + n /\ n <= line[2]
      BY <1>2, <1>3, <1>4
    <3> QED
      BY <1>1, <1>2, <2>2, <3>1
  <2> QED
    BY <1>1, <2>1, <2>2
<1>6. DiskOK'
  BY <1>1, <1>3, <1>4, TypeSplit DEF IInv, DiskOK
<1>7. FilesFit'
  BY <1>3, <1>5 DEF IInv, FilesFit
<1> QED
  BY <1>1, <1>3, <1>4, <1>6, <1>7

LEMMA AppendLineKeeps == ASSUME IInv, AppendLine PROVE IInv'
<1>1. /\ pc = "append" /\ pc' = "idle"
      /\ UNCHANGED <<maxBackups, file, slot, line, writes, rotations, crashes>>
  BY DEF AppendLine, Fails
<1>2. TypeOK /\ maxBackups \in Nat /\ MaxWrites \in Nat
  BY Consts DEF IInv
<1>3. errors < writes /\ line \in Lines /\ line = <<line[1], line[2]>> /\ line[2] \in Nat
      /\ size \in Nat /\ errors \in Nat /\ logged \in Seq(Lines)
  BY <1>1, <1>2, TypeSplit DEF IInv, InWrite, Lines
<1>4. errors' \in {errors, errors + 1} /\ errors' \in 0..MaxWrites
  BY <1>2, <1>3, TypeSplit DEF AppendLine, Fails
<1>5. InWrite' /\ RotateHolds'
  BY <1>1, <1>2, <1>3, <1>4, TypeSplit DEF IInv, InWrite, RotateHolds
<1>6. CASE UNCHANGED <<disk, size, logged>>
  <2>1. TypeOK'
    BY <1>1, <1>2, <1>4, <1>6 DEF TypeOK
  <2>2. OpenFile' /\ FilesFit'
    BY <1>1, <1>2, <1>6 DEF IInv, OpenFile, FilesFit
  <2> QED
    BY <1>5, <2>1, <2>2 DEF IInv
<1>7. ASSUME NEW n \in 0..line[2], file = "open", disk' = Appended(<<line[1], n>>),
             size' = size + n, logged' \in Seq(Lines)
      PROVE  IInv'
  <2>1. /\ DiskOK' /\ FilesFit'
        /\ 0 \in DOMAIN disk' /\ size + n = SizeOf(disk'[0])
    BY <1>1, <1>7, AppendedKeeps
  <2>2. size' \in Nat
    BY <1>3, <1>7
  <2>3. TypeOK'
    BY <1>1, <1>2, <1>4, <1>7, <2>1, <2>2 DEF TypeOK, DiskOK, Lines
  <2>4. OpenFile'
    BY <1>1, <1>7, <2>1 DEF OpenFile
  <2> QED
    BY <1>5, <2>1, <2>3, <2>4 DEF IInv
<1>8. CASE file = "open" /\ disk' = Appended(line) /\ size' = size + line[2]
           /\ logged' = Append(logged, line)
  <2>1. logged' \in Seq(Lines) /\ line[2] \in 0..line[2]
    BY <1>3, <1>8, AppendProperties
  <2> QED
    BY <1>3, <1>7, <1>8, <2>1
<1>9. CASE /\ file = "open" /\ UNCHANGED logged
           /\ \E n \in 0..line[2] - 1 :
                /\ size' = size + n
                /\ disk' = IF n = 0 THEN disk ELSE Appended(<<line[1], n>>)
  <2>1. PICK n \in 0..line[2] - 1 :
          /\ size' = size + n
          /\ disk' = IF n = 0 THEN disk ELSE Appended(<<line[1], n>>)
    BY <1>9
  <2>2. CASE n = 0
    BY <1>3, <1>6, <1>9, <2>1, <2>2
  <2>3. CASE n # 0
    <3>1. n \in 0..line[2]
      BY <1>3
    <3> QED
      BY <1>3, <1>7, <1>9, <2>1, <2>3, <3>1
  <2> QED
    BY <2>2, <2>3
<1> QED
  BY <1>6, <1>8, <1>9 DEF AppendLine

LEMMA CloseKeeps == ASSUME IInv, Close PROVE IInv'
<1>1. TypeOK'
  BY DEF IInv, Close, TypeOK
<1> QED
  BY <1>1 DEF IInv, Close, InWrite, RotateHolds, OpenFile, FilesFit

LEMMA CrashKeeps == ASSUME IInv, Crash PROVE IInv'
<1>1. TypeOK'
  BY DEF IInv, Crash, TypeOK
<1> QED
  BY <1>1 DEF IInv, Crash, InWrite, RotateHolds, OpenFile, FilesFit

LEMMA RestartKeeps == ASSUME IInv, Restart PROVE IInv'
<1>1. /\ pc = "down" /\ pc' = "idle" /\ file' = "open"
      /\ size' = IF 0 \in DOMAIN disk THEN SizeOf(disk[0]) ELSE 0
      /\ disk' = [k \in DOMAIN disk \union {0} |-> IF k \in DOMAIN disk THEN disk[k] ELSE <<>>]
      /\ UNCHANGED <<maxBackups, slot, line, writes, errors, rotations, logged, faults,
                     crashes>>
  BY DEF Restart
<1>2. TypeOK /\ DiskOK /\ maxBackups \in Nat
  BY Consts, TypeSplit DEF IInv
<1>3. /\ DOMAIN disk' = DOMAIN disk \union {0}
      /\ \A k \in DOMAIN disk : disk'[k] = disk[k]
      /\ 0 \notin DOMAIN disk => disk'[0] = <<>>
  BY <1>1
<1>4. <<>> \in Seq(Lines) /\ Len(<<>>) = 0
  BY EmptySeq
<1>5. DiskOK' /\ FilesFit'
  BY <1>1, <1>2, <1>3, <1>4 DEF IInv, DiskOK, FilesFit
<1>6. size' = SizeOf(disk'[0]) /\ size' \in Nat /\ 0 \in DOMAIN disk'
  BY <1>1, <1>2, <1>3, SizeEmpty, SizesProperty DEF DiskOK
<1>7. TypeOK'
  BY <1>1, <1>2, <1>5, <1>6 DEF TypeOK, DiskOK, Lines
<1>8. InWrite' /\ RotateHolds' /\ OpenFile'
  BY <1>1, <1>6 DEF IInv, InWrite, RotateHolds, OpenFile
<1> QED
  BY <1>5, <1>7, <1>8 DEF IInv

LEMMA NextKeeps == IInv /\ [Next]_vars => IInv'
<1> SUFFICES ASSUME IInv, [Next]_vars PROVE IInv'
  OBVIOUS
<1>1. CASE UNCHANGED vars
  BY <1>1 DEF vars, IInv, TypeOK, InWrite, RotateHolds, OpenFile, FilesFit
<1>2. CASE Next
  BY <1>2, BeginWriteKeeps, RotateCloseKeeps, ShiftBackupKeeps, RenameCurrentKeeps,
     RotateOpenKeeps, AppendLineKeeps, CloseKeeps, CrashKeeps, RestartKeeps DEF Next
<1> QED
  BY <1>1, <1>2

LEMMA InductiveInvariant == Spec => []IInv
BY InitIInv, NextKeeps, PTL DEF Spec

(* The writer's fields and the files on disk keep their types: no backup is *)
(* ever numbered above maxBackups, but for the first one.                   *)
THEOREM TypeCorrect == Spec => []TypeOK
<1>1. IInv => TypeOK
  BY DEF IInv
<1> QED
  BY <1>1, InductiveInvariant, PTL

(* The size Write and openFile keep in memory is that of the file on disk,  *)
(* and no file outgrows maxSize but one with a single line, through any     *)
(* failures, crashes and restarts.                                          *)
THEOREM SizeKept == Spec => []SizeMatchesFile
<1>1. IInv => SizeMatchesFile
  BY DEF IInv, OpenFile, FilesFit, SizeMatchesFile
<1> QED
  BY <1>1, InductiveInvariant, PTL

-----------------------------------------------------------------------------
(* The number of backups.                                                   *)

Depth == IF maxBackups = 0 THEN 1 ELSE maxBackups
Held == IF rotations < Depth THEN rotations ELSE Depth

(* The backups in place without failures and crashes: in the middle of      *)
(* renameBackups those above the slot have moved up, and the last is gone.  *)
InPlace ==
  IF pc = "shift" /\ slot < maxBackups
  THEN {i \in 1..Held : i <= slot} \union {i \in (slot + 2)..maxBackups : i - 1 <= Held}
  ELSE 1..Held

DepthInv ==
  /\ faults \in Nat /\ crashes \in Nat
  /\ faults = 0 /\ crashes = 0 => pc # "down" /\ DOMAIN disk \ {0} = InPlace

LEMMA InitDepth == Init => DepthInv
<1> SUFFICES ASSUME Init PROVE DepthInv
  OBVIOUS
<1>1. maxBackups \in Nat
  BY RotationAssumption DEF Init
<1>2. Held = 0
  BY <1>1 DEF Init, Held, Depth
<1> QED
  BY <1>2 DEF Init, DepthInv, InPlace

LEMMA NextDepth == IInv /\ DepthInv /\ [Next]_vars => DepthInv'
<1> SUFFICES ASSUME IInv, DepthInv, [Next]_vars PROVE DepthInv'
  OBVIOUS
<1>1. TypeOK /\ maxBackups \in Nat /\ rotations \in Nat /\ slot \in 0..maxBackups
  BY Consts DEF IInv, TypeOK
<1>2. faults \in Nat /\ crashes \in Nat
  BY DEF DepthInv
<1>3. Held \in Nat /\ Depth \in Nat \ {0} /\ Held <= Depth
  BY <1>1 DEF Held, Depth
<1>4. CASE UNCHANGED vars
  BY <1>4 DEF vars, DepthInv, InPlace, Held, Depth
<1>5. CASE \E len \in Lengths : BeginWrite(len)
  BY <1>5 DEF BeginWrite, DepthInv, InPlace, Held, Depth
<1>6. CASE RotateClose
  BY <1>1, <1>2, <1>6 DEF RotateClose, Fails, Fault, DepthInv, InPlace, Held, Depth
<1>7. CASE ShiftBackup
  <2>1. /\ pc = "shift" /\ slot >= 1 /\ slot' = slot - 1
        /\ UNCHANGED <<maxBackups, pc, rotations, crashes>>
        /\ \/ slot = maxBackups /\ disk' = Without(slot) /\ UNCHANGED faults
           \/ /\ slot # maxBackups /\ slot \in DOMAIN disk /\ disk' = Renamed(slot, slot + 1)
              /\ UNCHANGED faults
           \/ slot # maxBackups /\ slot \notin DOMAIN disk /\ UNCHANGED <<disk, faults>>
           \/ faults' = faults + 1
    BY <1>7 DEF ShiftBackup, Fault
  <2>2. CASE faults' = faults + 1
    BY <1>2, <2>1, <2>2 DEF DepthInv
  <2>3. CASE UNCHANGED faults
    <3> SUFFICES ASSUME faults = 0, crashes = 0
                 PROVE  DOMAIN disk' \ {0} = InPlace'
      BY <1>2, <2>1, <2>3 DEF DepthInv
    <3>1. DOMAIN disk \ {0} = InPlace
      BY DEF DepthInv
    <3>2. /\ Held' = Held /\ slot' < maxBackups /\ maxBackups >= 1 /\ Held <= maxBackups
          /\ InPlace' = {i \in 1..Held : i <= slot - 1}
                          \union {i \in (slot + 1)..maxBackups : i - 1 <= Held}
      <4>1. Held' = Held /\ slot' = slot - 1 /\ slot' < maxBackups /\ maxBackups' = maxBackups
            /\ pc' = "shift" /\ maxBackups >= 1
        BY <1>1, <2>1 DEF Held, Depth
      <4>2. (slot - 1) + 2 = slot + 1
        BY <1>1
      <4>3. Held <= maxBackups
        BY <1>1, <4>1, <1>3 DEF Held, Depth
      <4> QED
        BY <4>1, <4>2, <4>3 DEF InPlace
    <3>3. CASE slot = maxBackups
      <4>1. DOMAIN disk \ {0} = 1..Held
        BY <3>1, <3>3, <2>1, <1>1 DEF InPlace
      <4>2. DOMAIN disk' \ {0} = (1..Held) \ {slot}
        <5>1. disk' = Without(slot)
          BY <2>1, <2>3, <3>3, <1>2
        <5>2. DOMAIN disk' = DOMAIN disk \ {slot}
          BY <5>1, WithoutProperty
        <5> QED
          BY <4>1, <5>2
      <4>3. (1..Held) \ {slot} = {i \in 1..Held : i <= slot - 1}
                          \union {i \in (slot + 1)..maxBackups : i - 1 <= Held}
        BY <1>1, <1>3, <3>2, <3>3
      <4> QED
        BY <3>2, <4>2, <4>3
    <3>4. CASE slot # maxBackups
      <4>1. DOMAIN disk \ {0} = {i \in 1..Held : i <= slot}
                                  \union {i \in (slot + 2)..maxBackups : i - 1 <= Held}
        BY <3>1, <3>4, <2>1, <1>1 DEF InPlace
      <4>2. slot \in DOMAIN disk <=> slot <= Held
        BY <1>1, <1>3, <2>1, <4>1
      <4>3. CASE slot \in DOMAIN disk
        <5>1. slot # slot + 1
          BY <1>1
        <5>2. DOMAIN disk' = (DOMAIN disk \ {slot}) \union {slot + 1}
          <6>1. disk' = Renamed(slot, slot + 1)
            BY <1>2, <2>1, <2>3, <3>4, <4>3
          <6> QED
            BY <4>3, <5>1, <6>1, RenamedProperty
        <5>3. DOMAIN disk' \ {0} = ((DOMAIN disk \ {0}) \ {slot}) \union {slot + 1}
          BY <1>1, <5>2
        <5>4. ASSUME NEW i
              PROVE  i \in ((DOMAIN disk \ {0}) \ {slot}) \union {slot + 1} <=>
                       i \in {j \in 1..Held : j <= slot - 1}
                              \union {j \in (slot + 1)..maxBackups : j - 1 <= Held}
          BY <1>1, <1>3, <2>1, <3>2, <3>4, <4>1, <4>2, <4>3
        <5> QED
          BY <3>2, <5>3, <5>4
      <4>4. CASE slot \notin DOMAIN disk
        <5>1. disk' = disk
          BY <1>2, <2>1, <2>3, <3>4, <4>4
        <5>2. ASSUME NEW i
              PROVE  i \in DOMAIN disk \ {0} <=>
                       i \in {j \in 1..Held : j <= slot - 1}
                              \union {j \in (slot + 1)..maxBackups : j - 1 <= Held}
          BY <1>1, <1>3, <2>1, <3>2, <3>4, <4>1, <4>2, <4>4
        <5> QED
          BY <3>2, <5>1, <5>2
      <4> QED
        BY <4>3, <4>4
    <3> QED
      BY <3>3, <3>4
  <2> QED
    BY <2>1, <2>2, <2>3
<1>8. CASE RenameCurrent
  <2>1. /\ pc = "shift" /\ slot = 0
        /\ UNCHANGED <<maxBackups, slot, crashes>>
        /\ \/ /\ disk' = Renamed(0, 1) /\ rotations' = rotations + 1
              /\ pc' = "open" /\ UNCHANGED faults
           \/ faults' = faults + 1
    BY <1>8 DEF RenameCurrent, Fault
  <2>2. CASE faults' = faults + 1
    BY <1>2, <2>1, <2>2 DEF DepthInv
  <2>3. CASE /\ disk' = Renamed(0, 1) /\ rotations' = rotations + 1
             /\ pc' = "open" /\ UNCHANGED faults
    <3> SUFFICES ASSUME faults = 0, crashes = 0
                 PROVE  DOMAIN disk' \ {0} = InPlace'
      BY <1>2, <2>1, <2>3 DEF DepthInv
    <3>1. DOMAIN disk \ {0} = InPlace /\ 0 \in DOMAIN disk
      BY <2>1 DEF DepthInv, IInv, RotateHolds
    <3>2. DOMAIN disk' = (DOMAIN disk \ {0}) \union {1}
      <4>1. 0 # 1
        OBVIOUS
      <4> QED
        BY <2>3, <4>1, RenamedProperty
    <3>3. DOMAIN disk' \ {0} = InPlace \union {1}
      BY <3>1, <3>2
    <3>4. InPlace' = 1..Held'
      BY <2>3 DEF InPlace
    <3>5. CASE maxBackups = 0
      <4>1. InPlace = 1..Held /\ Held <= 1 /\ Held' = 1
        BY <1>1, <1>3, <2>1, <2>3, <3>5 DEF InPlace, Held, Depth
      <4>2. (1..Held) \union {1} = 1..1
        BY <1>3, <4>1
      <4> QED
        BY <3>3, <3>4, <4>1, <4>2
    <3>6. CASE maxBackups # 0
      <4>1. InPlace = {i \in 1..Held : i <= 0} \union {i \in 2..maxBackups : i - 1 <= Held}
        BY <1>1, <2>1, <3>6 DEF InPlace
      <4>2. Held' = IF Held + 1 < maxBackups THEN Held + 1 ELSE maxBackups
        BY <1>1, <2>1, <2>3, <3>6 DEF Held, Depth
      <4>3. maxBackups >= 1
        BY <1>1, <3>6
      <4>4. ASSUME NEW i
            PROVE  i \in InPlace \union {1} <=> i \in 1..Held'
        BY <1>1, <1>3, <4>1, <4>2, <4>3
      <4> QED
        BY <3>3, <3>4, <4>4
    <3> QED
      BY <3>5, <3>6
  <2> QED
    BY <2>1, <2>2, <2>3
<1>9. CASE RotateOpen
  <2>1. /\ pc = "open" /\ pc' \in {"append", "idle"}
        /\ UNCHANGED <<maxBackups, slot, rotations, crashes>>
        /\ \/ DOMAIN disk' = DOMAIN disk \union {0} /\ UNCHANGED faults
           \/ faults' = faults + 1
    BY <1>9 DEF RotateOpen, Fault, Fails
  <2>2. InPlace' = InPlace
    BY <2>1 DEF InPlace, Held, Depth
  <2> QED
    BY <1>2, <2>1, <2>2 DEF DepthInv
<1>10. CASE AppendLine
  <2>1. /\ pc = "append" /\ pc' = "idle"
        /\ UNCHANGED <<maxBackups, slot, rotations, crashes>>
        /\ \/ DOMAIN disk' = DOMAIN disk /\ UNCHANGED faults
           \/ faults' = faults + 1
    BY <1>10 DEF AppendLine, Fault, Fails, Appended
  <2>2. InPlace' = InPlace
    BY <2>1 DEF InPlace, Held, Depth
  <2> QED
    BY <1>2, <2>1, <2>2 DEF DepthInv
<1>11. CASE Close
  BY <1>11 DEF Close, DepthInv, InPlace, Held, Depth
<1>12. CASE Crash
  BY <1>2, <1>12 DEF Crash, DepthInv
<1>13. CASE Restart
  BY <1>2, <1>13 DEF Restart, DepthInv
<1> QED
  BY <1>4, <1>5, <1>6, <1>7, <1>8, <1>9, <1>10, <1>11, <1>12, <1>13 DEF Next

(* Without failures and crashes rotations keep as many backups as there     *)
(* were rotations, up to maxBackups, or one when that is 0.                 *)
THEOREM DepthKept == Spec => []BackupDepthKept
<1>1. IInv /\ DepthInv => BackupDepthKept
  <2> SUFFICES ASSUME IInv, DepthInv, faults = 0, crashes = 0, pc \in {"idle", "append"}
               PROVE  Cardinality(DOMAIN disk \ {0}) = Held
    BY DEF BackupDepthKept, Held, Depth
  <2>1. DOMAIN disk \ {0} = 1..Held
    BY DEF DepthInv, InPlace
  <2>2. Held \in Nat
    BY Consts DEF Held, Depth, IInv, TypeOK
  <2>3. Cardinality(1..Held) = Held
    BY <2>2, FS_Interval
  <2> QED
    BY <2>1, <2>3
<1>2. Spec => []DepthInv
  BY InitDepth, NextDepth, InductiveInvariant, PTL DEF Spec
<1> QED
  BY <1>1, <1>2, InductiveInvariant, PTL

-----------------------------------------------------------------------------
(* The lines kept.                                                          *)

(* The equations of KeptUpTo, one at a time up to m.                        *)
KeptEqs(m, d, top, g) ==
  /\ g[0] = <<>>
  /\ \A n \in 1..m : g[n] = g[n - 1] \o LinesIn(d, top + 1 - n)

OfLines(d) == \A i \in DOMAIN d : d[i] \in Seq(Lines)

LEMMA LinesInTyped ==
  ASSUME NEW d, OfLines(d), NEW i
  PROVE  LinesIn(d, i) \in Seq(Lines)
BY EmptySeq DEF OfLines, LinesIn

LEMMA LinesConcat ==
  ASSUME NEW r \in Seq(Lines), NEW s \in Seq(Lines), NEW t \in Seq(Lines)
  PROVE  (r \o s) \o t = r \o (s \o t)
BY ConcatAssociative

LEMMA KeptExists ==
  ASSUME NEW d, OfLines(d), NEW top \in Nat, NEW k \in Nat
  PROVE  \E g \in [0..k -> Seq(Lines)] : KeptEqs(k, d, top, g)
<1> DEFINE T == {m \in Nat : \E g \in [0..m -> Seq(Lines)] : KeptEqs(m, d, top, g)}
<1>1. 0 \in T
  <2>1. <<>> \in Seq(Lines)
    BY EmptySeq
  <2>2. [n \in 0..0 |-> <<>>] \in [0..0 -> Seq(Lines)]
    BY <2>1
  <2>3. KeptEqs(0, d, top, [n \in 0..0 |-> <<>>])
    BY DEF KeptEqs
  <2> QED
    BY <2>2, <2>3
<1>2. ASSUME NEW m \in Nat, m \in T PROVE m + 1 \in T
  <2>1. PICK g \in [0..m -> Seq(Lines)] : KeptEqs(m, d, top, g)
    BY <1>2
  <2> DEFINE s == g[m] \o LinesIn(d, top + 1 - (m + 1))
             h == [n \in 0..(m + 1) |-> IF n = m + 1 THEN s ELSE g[n]]
  <2>2. s \in Seq(Lines)
    <3>1. g[m] \in Seq(Lines)
      BY <2>1
    <3> QED
      BY <3>1, LinesInTyped, ConcatProperties
  <2>3. h \in [0..(m + 1) -> Seq(Lines)]
    <3> HIDE DEF s
    <3> QED
      BY <2>2
  <2>4. KeptEqs(m + 1, d, top, h)
    <3>1. h[0] = <<>>
      BY <2>1 DEF KeptEqs
    <3>2. h[m + 1] = h[m] \o LinesIn(d, top + 1 - (m + 1))
      <4>1. h[m + 1] = s /\ h[m] = g[m]
        <5> HIDE DEF s
        <5> QED
          OBVIOUS
      <4> HIDE DEF h
      <4> QED
        BY <4>1
    <3>3. ASSUME NEW n \in 1..m PROVE h[n] = h[n - 1] \o LinesIn(d, top + 1 - n)
      <4>1. h[n] = g[n] /\ h[n - 1] = g[n - 1]
        <5> HIDE DEF s
        <5> QED
          OBVIOUS
      <4>2. g[n] = g[n - 1] \o LinesIn(d, top + 1 - n)
        BY <2>1 DEF KeptEqs
      <4> HIDE DEF h, s
      <4> QED
        BY <4>1, <4>2, Zenon
    <3> HIDE DEF h, s
    <3>4. ASSUME NEW n \in 1..m + 1 PROVE h[n] = h[n - 1] \o LinesIn(d, top + 1 - n)
      <4>1. CASE n = m + 1
        <5>1. n - 1 = m
          BY <4>1
        <5> QED
          BY <3>2, <4>1, <5>1, Zenon
      <4>2. CASE n # m + 1
        <5>1. n \in 1..m
          BY <4>2
        <5> QED
          BY <3>3, <5>1, Zenon
      <4> QED
        BY <4>1, <4>2
    <3> QED
      BY <3>1, <3>4 DEF KeptEqs
  <2> HIDE DEF h
  <2> QED
    BY <2>3, <2>4
<1>3. Nat \subseteq T
  <2> HIDE DEF T
  <2> QED
    BY <1>1, <1>2, SetInduction
<1> QED
  BY <1>3

LEMMA KeptProperty ==
  ASSUME NEW d, OfLines(d), NEW top \in Nat
  PROVE  /\ KeptEqs(top + 1, d, top, KeptUpTo(d, top))
         /\ \A n \in 0..top + 1 : KeptUpTo(d, top)[n] \in Seq(Lines)
<1>1. PICK g \in [0..(top + 1) -> Seq(Lines)] : KeptEqs(top + 1, d, top, g)
  <2>1. top + 1 \in Nat
    OBVIOUS
  <2> QED
    BY <2>1, KeptExists, Zenon
<1>2. g = [n \in 0..top + 1 |->
             IF n = 0 THEN <<>> ELSE g[n - 1] \o LinesIn(d, top + 1 - n)]
  BY <1>1 DEF KeptEqs
<1> DEFINE h == KeptUpTo(d, top)
<1>3. h = [n \in 0..top + 1 |->
             IF n = 0 THEN <<>> ELSE h[n - 1] \o LinesIn(d, top + 1 - n)]
  BY <1>2 DEF KeptUpTo
<1>4. KeptEqs(top + 1, d, top, h)
  <2> HIDE DEF h
  <2>1. \A n \in 0..top + 1 :
          h[n] = IF n = 0 THEN <<>> ELSE h[n - 1] \o LinesIn(d, top + 1 - n)
    BY <1>3, Zenon
  <2>2. h[0] = <<>>
    <3>1. 0 \in 0..top + 1
      OBVIOUS
    <3> QED
      BY <2>1, <3>1, Zenon
  <2>3. ASSUME NEW n \in 1..top + 1 PROVE h[n] = h[n - 1] \o LinesIn(d, top + 1 - n)
    <3>1. n \in 0..top + 1 /\ n # 0
      OBVIOUS
    <3> QED
      BY <2>1, <3>1, Zenon
  <2> QED
    BY <2>2, <2>3 DEF KeptEqs
<1> DEFINE T == {n \in Nat : n <= top + 1 => h[n] \in Seq(Lines)}
<1>5. 0 \in T
  BY <1>4, EmptySeq DEF KeptEqs
<1>6. ASSUME NEW n \in Nat, n \in T PROVE n + 1 \in T
  <2> SUFFICES ASSUME n + 1 <= top + 1 PROVE h[n + 1] \in Seq(Lines)
    OBVIOUS
  <2> HIDE DEF h
  <2>1. h[n] \in Seq(Lines)
    BY <1>6
  <2>2. h[n + 1] = h[n] \o LinesIn(d, top + 1 - (n + 1))
    <3>1. n + 1 \in 1..top + 1 /\ (n + 1) - 1 = n
      OBVIOUS
    <3> QED
      BY <1>4, <3>1 DEF KeptEqs
  <2> QED
    BY <2>1, <2>2, LinesInTyped, ConcatProperties
<1>7. Nat \subseteq T
  <2> HIDE DEF T
  <2> QED
    BY <1>5, <1>6, SetInduction
<1> QED
  BY <1>4, <1>7

(* In the j slots up to top, d has the lines u before those of e; below     *)
(* them both have the same.                                                 *)
KeepsMore(d, e, top, j, u) ==
  KeptUpTo(d, top)[j] = u \o KeptUpTo(e, top)[j]

SameBelow(d, e, top, j) == \A i \in 0..top - j : LinesIn(d, i) = LinesIn(e, i)

(* What one directory keeps more in the upper slots, it keeps more in all.  *)
LEMMA KeptFrom ==
  ASSUME NEW d, NEW e, OfLines(d), OfLines(e), NEW top \in Nat, NEW j \in 0..top + 1,
         NEW u \in Seq(Lines), KeepsMore(d, e, top, j, u), SameBelow(d, e, top, j)
  PROVE  KeepsMore(d, e, top, top + 1, u)
<1> DEFINE g == KeptUpTo(d, top)
           h == KeptUpTo(e, top)
           T == {n \in Nat : j + n <= top + 1 => g[j + n] = u \o h[j + n]}
<1>1. /\ KeptEqs(top + 1, d, top, g) /\ KeptEqs(top + 1, e, top, h)
      /\ \A n \in 0..top + 1 : g[n] \in Seq(Lines) /\ h[n] \in Seq(Lines)
  BY KeptProperty
<1>2. g[j] = u \o h[j]
  BY DEF KeepsMore
<1> HIDE DEF g, h
<1>3. 0 \in T
  BY <1>2
<1>4. ASSUME NEW n \in Nat, n \in T PROVE n + 1 \in T
  <2> SUFFICES ASSUME j + (n + 1) <= top + 1
               PROVE  g[j + (n + 1)] = u \o h[j + (n + 1)]
    OBVIOUS
  <2> DEFINE i == top + 1 - (j + (n + 1))
  <2>1. /\ j + n \in 0..top + 1 /\ j + (n + 1) \in 1..top + 1
        /\ (j + (n + 1)) - 1 = j + n /\ i \in 0..top - j
    OBVIOUS
  <2>2. /\ g[j + (n + 1)] = g[j + n] \o LinesIn(d, i)
        /\ h[j + (n + 1)] = h[j + n] \o LinesIn(e, i)
    BY <1>1, <2>1 DEF KeptEqs
  <2>3. g[j + n] = u \o h[j + n]
    BY <1>4, <2>1
  <2>4. LinesIn(d, i) = LinesIn(e, i) /\ LinesIn(e, i) \in Seq(Lines) /\ h[j + n] \in Seq(Lines)
    BY <1>1, <2>1, LinesInTyped DEF SameBelow
  <2> HIDE DEF i
  <2>5. (u \o h[j + n]) \o LinesIn(e, i) = u \o (h[j + n] \o LinesIn(e, i))
    BY <2>4, LinesConcat, Zenon
  <2> QED
    BY <2>2, <2>3, <2>4, <2>5, Zenon
<1>5. Nat \subseteq T
  <2> HIDE DEF T
  <2> QED
    BY <1>3, <1>4, SetInduction
<1>6. top + 1 - j \in Nat /\ j + (top + 1 - j) = top + 1
  OBVIOUS
<1>7. g[j + (top + 1 - j)] = u \o h[j + (top + 1 - j)]
  <2>1. top + 1 - j \in T
    BY <1>5, <1>6
  <2>2. j + (top + 1 - j) <= top + 1
    OBVIOUS
  <2> QED
    BY <2>1, <2>2, Zenon
<1> QED
  BY <1>6, <1>7 DEF g, h, KeepsMore

(* As far as two directories have the same lines, the same is kept.         *)
LEMMA KeptSame ==
  ASSUME NEW d, NEW e, OfLines(d), OfLines(e), NEW top \in Nat, NEW j \in 0..top + 1,
         \A i \in top + 1 - j..top : LinesIn(d, i) = LinesIn(e, i)
  PROVE  KeptUpTo(d, top)[j] = KeptUpTo(e, top)[j]
<1> DEFINE g == KeptUpTo(d, top)
           h == KeptUpTo(e, top)
           T == {n \in Nat : n <= j => g[n] = h[n]}
<1>1. KeptEqs(top + 1, d, top, g) /\ KeptEqs(top + 1, e, top, h)
  BY KeptProperty
<1> HIDE DEF g, h
<1>2. 0 \in T
  BY <1>1 DEF KeptEqs
<1>3. ASSUME NEW n \in Nat, n \in T PROVE n + 1 \in T
  <2> SUFFICES ASSUME n + 1 <= j PROVE g[n + 1] = h[n + 1]
    OBVIOUS
  <2> DEFINE i == top + 1 - (n + 1)
  <2>1. n + 1 \in 1..top + 1 /\ (n + 1) - 1 = n /\ i \in top + 1 - j..top
    OBVIOUS
  <2>2. g[n + 1] = g[n] \o LinesIn(d, i) /\ h[n + 1] = h[n] \o LinesIn(e, i)
    BY <1>1, <2>1 DEF KeptEqs
  <2>3. g[n] = h[n] /\ LinesIn(d, i) = LinesIn(e, i)
    BY <1>3, <2>1
  <2> HIDE DEF i
  <2> QED
    BY <2>2, <2>3, Zenon
<1>4. Nat \subseteq T
  <2> HIDE DEF T
  <2> QED
    BY <1>2, <1>3, SetInduction
<1> QED
  BY <1>4 DEF g, h

LEMMA KeptTwice ==
  ASSUME NEW d, OfLines(d), NEW top \in Nat, NEW i \in 0..top - 1
  PROVE  KeptUpTo(d, top)[top + 1 - i] =
           (KeptUpTo(d, top)[top - 1 - i] \o LinesIn(d, i + 1)) \o LinesIn(d, i)
<1> DEFINE g == KeptUpTo(d, top)
<1>1. KeptEqs(top + 1, d, top, g)
  BY KeptProperty
<1> HIDE DEF g
<1>2. /\ top + 1 - i \in 1..top + 1 /\ (top + 1 - i) - 1 = top - i
      /\ top + 1 - (top + 1 - i) = i
      /\ top - i \in 1..top + 1 /\ (top - i) - 1 = top - 1 - i
      /\ top + 1 - (top - i) = i + 1
  OBVIOUS
<1>3. g[top + 1 - i] = g[top - i] \o LinesIn(d, i)
  BY <1>1, <1>2 DEF KeptEqs
<1>4. g[top - i] = g[top - 1 - i] \o LinesIn(d, i + 1)
  BY <1>1, <1>2 DEF KeptEqs
<1> QED
  BY <1>3, <1>4 DEF g

(* What is on disk is the same, but for some of the oldest lines.           *)
OldestGone(d, e, top) == \E u \in Seq(Lines) : KeepsMore(d, e, top, top + 1, u)

(* A file is moved up one slot: what was in that slot is lost, which is     *)
(* nothing, or what was the oldest.                                         *)
MovedUp(d, e, top, i) ==
  /\ LinesIn(e, i + 1) = LinesIn(d, i) /\ LinesIn(e, i) = <<>>
  /\ \A k \in 0..top : k \notin {i, i + 1} => LinesIn(e, k) = LinesIn(d, k)
  /\ LinesIn(d, i + 1) = <<>> \/ i + 1 = top

LEMMA KeptMoved ==
  ASSUME NEW d, NEW e, OfLines(d), OfLines(e), NEW top \in Nat, NEW i \in 0..top - 1,
         MovedUp(d, e, top, i)
  PROVE  OldestGone(d, e, top)
<1> DEFINE g == KeptUpTo(d, top)
           h == KeptUpTo(e, top)
           low == LinesIn(d, i)
           old == LinesIn(d, i + 1)
           j == top + 1 - i
           p == top - 1 - i
<1>1. low \in Seq(Lines) /\ old \in Seq(Lines) /\ <<>> \in Seq(Lines)
  BY LinesInTyped, EmptySeq
<1>2. j \in 0..top + 1 /\ p \in 0..top + 1 /\ top - j = i - 1 /\ top + 1 - p = i + 2
  OBVIOUS
<1>3. g[j] = (g[p] \o old) \o low
  BY KeptTwice
<1>4. h[j] = (h[p] \o low) \o <<>>
  <2>1. h[j] = (h[p] \o LinesIn(e, i + 1)) \o LinesIn(e, i)
    BY KeptTwice
  <2> QED
    BY <2>1 DEF MovedUp
<1>5. g[p] = h[p]
  <2>1. \A k \in top + 1 - p..top : LinesIn(d, k) = LinesIn(e, k)
    BY <1>2 DEF MovedUp
  <2> QED
    BY <1>2, <2>1, KeptSame
<1>6. h[p] \in Seq(Lines) /\ h[0] = <<>>
  BY <1>2, KeptProperty DEF KeptEqs
<1>7. i + 1 = top => p = 0
  OBVIOUS
<1>8. \A k \in 0..top - j : LinesIn(d, k) = LinesIn(e, k)
  BY <1>2 DEF MovedUp
<1>9. old = <<>> \/ i + 1 = top
  BY DEF MovedUp
<1>10. g[j] = old \o h[j]
  <2> HIDE DEF g, h, low, old, j, p
  <2>1. h[p] \o low \in Seq(Lines)
    BY <1>1, <1>6, ConcatProperties
  <2>2. h[j] = h[p] \o low
    <3>1. (h[p] \o low) \o <<>> = h[p] \o low
      BY <2>1, ConcatEmptySeq
    <3> QED
      BY <1>4, <3>1, Zenon
  <2>3. CASE old = <<>>
    <3>1. h[p] \o <<>> = h[p] /\ <<>> \o h[j] = h[j]
      BY <1>6, <2>1, <2>2, ConcatEmptySeq
    <3> QED
      BY <1>3, <1>5, <2>2, <2>3, <3>1, Zenon
  <2>4. CASE i + 1 = top
    <3>1. h[p] = <<>>
      BY <1>6, <1>7, <2>4
    <3>2. <<>> \o old = old /\ <<>> \o low = low
      BY <1>1, ConcatEmptySeq
    <3> QED
      BY <1>3, <1>5, <2>2, <3>1, <3>2, Zenon
  <2> QED
    BY <1>9, <2>3, <2>4
<1>11. KeepsMore(d, e, top, top + 1, old)
  <2>1. old \in Seq(Lines) /\ j \in 0..top + 1
    BY <1>1, <1>2
  <2>2. KeepsMore(d, e, top, j, old)
    BY <1>10 DEF KeepsMore
  <2>3. SameBelow(d, e, top, j)
    BY <1>8 DEF SameBelow
  <2> HIDE DEF j, old
  <2> QED
    BY <2>1, <2>2, <2>3, KeptFrom
<1> QED
  BY <1>1, <1>11 DEF OldestGone

(* The highest slot in use is emptied.                                      *)
Emptied(d, e, top, i) ==
  /\ i + 1 = top /\ LinesIn(d, top) = <<>> /\ LinesIn(e, i) = <<>>
  /\ \A k \in 0..top : k # i => LinesIn(e, k) = LinesIn(d, k)

LEMMA KeptDropped ==
  ASSUME NEW d, NEW e, OfLines(d), OfLines(e), NEW top \in Nat, NEW i \in 0..top - 1,
         Emptied(d, e, top, i)
  PROVE  OldestGone(d, e, top)
<1> DEFINE g == KeptUpTo(d, top)
           h == KeptUpTo(e, top)
           low == LinesIn(d, i)
<1>1. low \in Seq(Lines) /\ <<>> \in Seq(Lines)
  BY LinesInTyped, EmptySeq
<1>2. top + 1 - i = 2 /\ top - 1 - i = 0 /\ 2 \in 0..top + 1 /\ LinesIn(e, top) = <<>>
      /\ i + 1 = top /\ LinesIn(d, top) = <<>> /\ LinesIn(e, i) = <<>>
  BY DEF Emptied
<1>3. g[0] = <<>> /\ h[0] = <<>>
  BY KeptProperty DEF KeptEqs
<1>4. g[2] = (<<>> \o <<>>) \o low
  <2>1. g[top + 1 - i] = (g[top - 1 - i] \o LinesIn(d, i + 1)) \o LinesIn(d, i)
    BY KeptTwice
  <2> QED
    BY <1>2, <1>3, <2>1
<1>5. h[2] = (<<>> \o <<>>) \o <<>>
  <2>1. h[top + 1 - i] = (h[top - 1 - i] \o LinesIn(e, i + 1)) \o LinesIn(e, i)
    BY KeptTwice
  <2> QED
    BY <1>2, <1>3, <2>1
<1>6. g[2] = low \o h[2]
  <2> HIDE DEF g, h, low
  <2>1. <<>> \o <<>> = <<>> /\ <<>> \o low = low /\ low \o <<>> = low
    BY <1>1, ConcatEmptySeq
  <2> QED
    BY <1>4, <1>5, <2>1, Zenon
<1>7. \A k \in 0..top - 2 : LinesIn(d, k) = LinesIn(e, k)
  BY <1>2 DEF Emptied
<1>8. KeepsMore(d, e, top, top + 1, low)
  <2>1. low \in Seq(Lines) /\ 2 \in 0..top + 1
    BY <1>1, <1>2
  <2>2. KeepsMore(d, e, top, 2, low)
    BY <1>6 DEF KeepsMore
  <2>3. SameBelow(d, e, top, 2)
    BY <1>7 DEF SameBelow
  <2> HIDE DEF low
  <2> QED
    BY <2>1, <2>2, <2>3, KeptFrom
<1> QED
  BY <1>1, <1>8 DEF OldestGone

(* A line at the end of the current file.                                   *)
LEMMA KeptAppended ==
  ASSUME NEW d, NEW e, OfLines(d), OfLines(e), NEW top \in Nat, NEW l \in Lines,
         LinesIn(e, 0) = Append(LinesIn(d, 0), l),
         \A k \in 1..top : LinesIn(e, k) = LinesIn(d, k)
  PROVE  KeptUpTo(e, top)[top + 1] = Append(KeptUpTo(d, top)[top + 1], l)
<1> DEFINE g == KeptUpTo(d, top)
           h == KeptUpTo(e, top)
           c == LinesIn(d, 0)
<1>1. c \in Seq(Lines) /\ <<l>> \in Seq(Lines)
  BY LinesInTyped
<1>2. g[top] = h[top]
  <2>1. \A k \in top + 1 - top..top : LinesIn(d, k) = LinesIn(e, k)
    OBVIOUS
  <2> QED
    BY <2>1, KeptSame
<1>3. g[top] \in Seq(Lines) /\ g[top + 1] \in Seq(Lines)
  <2>1. \A n \in 0..top + 1 : g[n] \in Seq(Lines)
    BY KeptProperty
  <2>2. top \in 0..top + 1 /\ top + 1 \in 0..top + 1
    OBVIOUS
  <2> HIDE DEF g
  <2> QED
    BY <2>1, <2>2
<1>4. g[top + 1] = g[top] \o c
  <2>1. KeptEqs(top + 1, d, top, g)
    BY KeptProperty
  <2>2. top + 1 \in 1..top + 1 /\ (top + 1) - 1 = top /\ top + 1 - (top + 1) = 0
    OBVIOUS
  <2> HIDE DEF g
  <2> QED
    BY <2>1, <2>2 DEF KeptEqs
<1>5. h[top + 1] = h[top] \o LinesIn(e, 0)
  <2>1. KeptEqs(top + 1, e, top, h)
    BY KeptProperty
  <2>2. top + 1 \in 1..top + 1 /\ (top + 1) - 1 = top /\ top + 1 - (top + 1) = 0
    OBVIOUS
  <2> HIDE DEF h
  <2> QED
    BY <2>1, <2>2 DEF KeptEqs
<1>6. LinesIn(e, 0) = c \o <<l>>
  BY <1>1, AppendIsConcat
<1> HIDE DEF g, h, c
<1>7. (g[top] \o c) \o <<l>> = g[top] \o (c \o <<l>>)
  BY <1>1, <1>3, LinesConcat, Zenon
<1>8. Append(g[top + 1], l) = g[top + 1] \o <<l>>
  BY <1>3, AppendIsConcat
<1> QED
  BY <1>2, <1>4, <1>5, <1>6, <1>7, <1>8, Zenon DEF g, h

(* What is left of a sequence when some of its beginning goes is a suffix.  *)
LEMMA SuffixOfConcat ==
  ASSUME NEW S, NEW u \in Seq(S), NEW s \in Seq(S)
  PROVE  IsSuffix(s, u \o s)
<1> DEFINE t == u \o s
           r == Reverse(s)
           q == Reverse(t)
<1>1. /\ t \in Seq(S) /\ Len(t) = Len(u) + Len(s)
      /\ \A i \in 1..Len(u) + Len(s) : t[i] = IF i <= Len(u) THEN u[i] ELSE s[i - Len(u)]
  BY ConcatProperties
<1>2. Len(u) \in Nat /\ Len(s) \in Nat
  BY LenProperties
<1> HIDE DEF t
<1>3. /\ r = [i \in 1..Len(s) |-> s[(Len(s) - i) + 1]]
      /\ q = [i \in 1..Len(t) |-> t[(Len(t) - i) + 1]]
  BY DEF Reverse
<1>4. \A i \in 1..Len(s) : s[i] \in S
  BY ElementOfSeq
<1>5. \A i \in 1..Len(t) : t[i] \in S
  BY <1>1, ElementOfSeq
<1> HIDE DEF r, q
<1>6. r \in Seq(S) /\ Len(r) = Len(s)
  <2>1. \A i \in 1..Len(s) : s[(Len(s) - i) + 1] \in S
    BY <1>2, <1>4
  <2> QED
    BY <1>2, <1>3, <2>1
<1>7. q \in Seq(S) /\ Len(q) = Len(t)
  <2>1. \A i \in 1..Len(t) : t[(Len(t) - i) + 1] \in S
    BY <1>1, <1>2, <1>5
  <2> QED
    BY <1>1, <1>2, <1>3, <2>1
<1>8. \A i \in 1..Len(s) : r[i] = q[i]
  <2> SUFFICES ASSUME NEW i \in 1..Len(s) PROVE r[i] = q[i]
    OBVIOUS
  <2>1. r[i] = s[(Len(s) - i) + 1]
    BY <1>3
  <2>2. q[i] = t[(Len(t) - i) + 1]
    BY <1>1, <1>2, <1>3
  <2>3. /\ (Len(t) - i) + 1 \in 1..Len(u) + Len(s) /\ ~((Len(t) - i) + 1 <= Len(u))
        /\ ((Len(t) - i) + 1) - Len(u) = (Len(s) - i) + 1
    BY <1>1, <1>2
  <2>4. t[(Len(t) - i) + 1] = s[((Len(t) - i) + 1) - Len(u)]
    BY <1>1, <2>3
  <2> QED
    BY <2>1, <2>2, <2>3, <2>4
<1>9. SubSeq(r, 1, Len(r)) = SubSeq(q, 1, Len(r))
  <2> DEFINE a == SubSeq(r, 1, Len(s))
             b == SubSeq(q, 1, Len(s))
  <2>1. /\ \A i \in 1..Len(s) : r[i] \in S
        /\ \A i \in 1..Len(s) : q[i] \in S
    BY <1>6, <1>8, ElementOfSeq
  <2>2. /\ a \in Seq(S)
        /\ Len(a) = IF 1 <= Len(s) THEN Len(s) - 1 + 1 ELSE 0
        /\ \A i \in 1..Len(s) - 1 + 1 : a[i] = r[1 + i - 1]
    BY <1>2, <2>1, SubSeqProperties
  <2>3. /\ b \in Seq(S)
        /\ Len(b) = IF 1 <= Len(s) THEN Len(s) - 1 + 1 ELSE 0
        /\ \A i \in 1..Len(s) - 1 + 1 : b[i] = q[1 + i - 1]
    BY <1>2, <2>1, SubSeqProperties
  <2> HIDE DEF a, b
  <2>4. Len(a) = Len(b) /\ \A i \in 1..Len(a) : a[i] = b[i]
    BY <1>2, <1>8, <2>2, <2>3
  <2>5. a = b
    BY <2>2, <2>3, <2>4, SeqEqual
  <2> QED
    BY <1>6, <2>5 DEF a, b
<1>10. Len(r) <= Len(q)
  BY <1>1, <1>2, <1>6, <1>7
<1> QED
  BY <1>9, <1>10 DEF IsSuffix, IsPrefix, r, q, t

(* As long as nothing fails the lines on disk are the end of what was       *)
(* logged.  renameBackups never renames onto a backup that is there: what   *)
(* was above the slot has moved up, or was the oldest and is gone.          *)
KeptInv ==
  /\ faults \in Nat
  /\ faults = 0 =>
       /\ \E u \in Seq(Lines) : logged = u \o Kept
       /\ pc = "shift" /\ slot < maxBackups => slot + 1 \notin DOMAIN disk

Top == maxBackups + 1

LEMMA DiskOfLines == IInv => OfLines(disk)
BY TypeSplit DEF IInv, DiskOK, OfLines

LEMMA KeptIs ==
  ASSUME IInv
  PROVE  /\ OfLines(disk) /\ Top \in Nat
         /\ Kept = KeptUpTo(disk, Top)[Top + 1] /\ Kept \in Seq(Lines)
<1>1. maxBackups \in Nat
  BY Consts DEF IInv
<1>2. OfLines(disk)
  BY TypeSplit DEF IInv, DiskOK, OfLines
<1>3. Top \in Nat /\ Top + 1 = maxBackups + 2 /\ Top + 1 \in 0..Top + 1
  BY <1>1 DEF Top
<1>4. Kept = KeptUpTo(disk, Top)[Top + 1]
  BY <1>3 DEF Kept, Top
<1>5. KeptUpTo(disk, Top)[Top + 1] \in Seq(Lines)
  BY <1>2, <1>3, KeptProperty
<1> QED
  BY <1>2, <1>3, <1>4, <1>5

LEMMA InitKept == Init => KeptInv
<1> SUFFICES ASSUME Init PROVE KeptInv
  OBVIOUS
<1>1. IInv
  BY InitIInv
<1>2. /\ OfLines(disk) /\ Top \in Nat
      /\ Kept = KeptUpTo(disk, Top)[Top + 1] /\ Kept \in Seq(Lines)
  BY <1>1, KeptIs
<1>3. \A i : LinesIn(disk, i) = <<>>
  BY DEF Init, LinesIn
<1>4. KeptEqs(Top + 1, disk, Top, KeptUpTo(disk, Top))
  BY <1>2, KeptProperty
<1> DEFINE g == KeptUpTo(disk, Top)
           T == {n \in Nat : n <= Top + 1 => g[n] = <<>>}
<1>5. <<>> \in Seq(Lines) /\ <<>> \o <<>> = <<>>
  BY EmptySeq, ConcatEmptySeq
<1> HIDE DEF g
<1>6. 0 \in T
  BY <1>4 DEF KeptEqs, g
<1>7. ASSUME NEW n \in Nat, n \in T PROVE n + 1 \in T
  <2> SUFFICES ASSUME n + 1 <= Top + 1 PROVE g[n + 1] = <<>>
    OBVIOUS
  <2>1. n + 1 \in 1..Top + 1 /\ (n + 1) - 1 = n /\ g[n] = <<>>
    BY <1>2, <1>7
  <2>2. g[n + 1] = g[n] \o LinesIn(disk, Top + 1 - (n + 1))
    BY <1>4, <2>1 DEF KeptEqs, g
  <2> QED
    BY <1>3, <1>5, <2>1, <2>2, Zenon
<1>8. Top + 1 \in T
  <2> HIDE DEF T
  <2>1. Nat \subseteq T
    BY <1>6, <1>7, SetInduction
  <2> QED
    BY <1>2, <2>1
<1>9. Kept = <<>>
  BY <1>2, <1>8 DEF g
<1>10. logged = <<>> \o Kept
  BY <1>5, <1>9 DEF Init
<1> QED
  BY <1>5, <1>10 DEF Init, KeptInv

(* A step that keeps all lines but the oldest.                              *)
LEMMA OldestGo ==
  ASSUME IInv, IInv', UNCHANGED <<maxBackups, logged>>,
         NEW u \in Seq(Lines), logged = u \o Kept, OldestGone(disk, disk', Top)
  PROVE  \E w \in Seq(Lines) : logged' = w \o Kept'
<1>1. PICK v \in Seq(Lines) :
        KeptUpTo(disk, Top)[Top + 1] = v \o KeptUpTo(disk', Top)[Top + 1]
  BY DEF OldestGone, KeepsMore
<1>2. Kept = KeptUpTo(disk, Top)[Top + 1]
  BY KeptIs
<1>3. Kept' = KeptUpTo(disk', Top)[Top + 1] /\ Kept' \in Seq(Lines)
  <2>1. (/\ OfLines(disk) /\ Top \in Nat
         /\ Kept = KeptUpTo(disk, Top)[Top + 1] /\ Kept \in Seq(Lines))'
    BY KeptIs, PTL
  <2>2. Top' = Top
    BY DEF Top
  <2> QED
    BY <2>1, <2>2
<1>4. logged' = u \o (v \o Kept')
  BY <1>1, <1>2, <1>3, Zenon
<1>5. (u \o v) \o Kept' = u \o (v \o Kept')
  BY <1>3, LinesConcat, Zenon
<1>6. u \o v \in Seq(Lines)
  BY ConcatProperties
<1> QED
  BY <1>4, <1>5, <1>6, Zenon

LEMMA ShiftBackupLoses ==
  ASSUME IInv, IInv', KeptInv, ShiftBackup PROVE KeptInv'
<1>1. /\ pc = "shift" /\ slot >= 1 /\ slot' = slot - 1
      /\ UNCHANGED <<maxBackups, pc, logged>>
      /\ \/ slot = maxBackups /\ disk' = Without(slot) /\ UNCHANGED faults
         \/ /\ slot # maxBackups /\ slot \in DOMAIN disk /\ disk' = Renamed(slot, slot + 1)
            /\ UNCHANGED faults
         \/ slot # maxBackups /\ slot \notin DOMAIN disk /\ UNCHANGED <<disk, faults>>
         \/ faults' = faults + 1
  BY DEF ShiftBackup, Fault
<1>2. /\ maxBackups \in Nat /\ slot \in 1..maxBackups /\ slot <= maxBackups
      /\ DOMAIN disk \subseteq 0..maxBackups \union {0, 1} /\ faults \in Nat
  <2>1. maxBackups \in Nat
    BY Consts DEF IInv
  <2>2. slot \in 1..maxBackups /\ slot <= maxBackups
    BY <1>1, <2>1 DEF IInv, TypeOK
  <2>3. DOMAIN disk \subseteq 0..maxBackups \union {0, 1}
    BY DEF IInv, TypeOK
  <2>4. faults \in Nat
    BY DEF KeptInv
  <2> QED
    BY <2>1, <2>2, <2>3, <2>4
<1>3. CASE faults' = faults + 1
  BY <1>2, <1>3 DEF KeptInv
<1>4. CASE UNCHANGED faults
  <2> SUFFICES ASSUME faults = 0
               PROVE  /\ \E w \in Seq(Lines) : logged' = w \o Kept'
                      /\ slot \notin DOMAIN disk'
    <3>1. slot' + 1 = slot /\ maxBackups' = maxBackups
      BY <1>1, <1>2
    <3> QED
      BY <1>2, <1>4, <3>1 DEF KeptInv
  <2>1. PICK u \in Seq(Lines) : logged = u \o Kept
    BY DEF KeptInv
  <2>2. slot < maxBackups => slot + 1 \notin DOMAIN disk
    BY <1>1 DEF KeptInv
  <2>3. Top \in Nat /\ Top = maxBackups + 1 /\ OfLines(disk)
    BY KeptIs DEF Top
  <2>4. OfLines(disk')
    <3>1. OfLines(disk)'
      BY DiskOfLines, PTL
    <3> QED
      BY <3>1
  <2>5. CASE slot = maxBackups /\ disk' = Without(slot)
    <3>1. /\ DOMAIN disk' = DOMAIN disk \ {slot}
          /\ \A k \in DOMAIN disk \ {slot} : disk'[k] = disk[k]
      BY <2>5, WithoutProperty
    <3>2. slot \in 0..Top - 1 /\ slot + 1 = Top
      BY <1>2, <2>3, <2>5
    <3>3. Top \notin DOMAIN disk
      BY <1>2, <2>3
    <3>4. LinesIn(disk, Top) = <<>> /\ LinesIn(disk', slot) = <<>>
      BY <3>1, <3>3 DEF LinesIn
    <3>5. \A k \in 0..Top : k # slot => LinesIn(disk', k) = LinesIn(disk, k)
      BY <3>1 DEF LinesIn
    <3>6. OldestGone(disk, disk', Top)
      <4>1. Emptied(disk, disk', Top, slot)
        BY <3>2, <3>4, <3>5 DEF Emptied
      <4> QED
        BY <2>3, <2>4, <3>2, <4>1, KeptDropped
    <3>7. \E w \in Seq(Lines) : logged' = w \o Kept'
      BY <1>1, <2>1, <3>6, OldestGo
    <3> QED
      BY <3>1, <3>7
  <2>6. CASE slot # maxBackups /\ slot \in DOMAIN disk /\ disk' = Renamed(slot, slot + 1)
    <3>1. /\ DOMAIN disk' = (DOMAIN disk \ {slot}) \union {slot + 1}
          /\ disk'[slot + 1] = disk[slot]
          /\ \A k \in DOMAIN disk \ {slot, slot + 1} : disk'[k] = disk[k]
      <4>1. slot # slot + 1
        BY <1>2
      <4> QED
        BY <2>6, <4>1, RenamedProperty
    <3>2. slot \in 0..Top - 1 /\ slot + 1 \notin DOMAIN disk /\ slot # slot + 1
      BY <1>2, <2>2, <2>3, <2>6
    <3>3. /\ LinesIn(disk', slot + 1) = LinesIn(disk, slot) /\ LinesIn(disk', slot) = <<>>
          /\ LinesIn(disk, slot + 1) = <<>>
      BY <2>6, <3>1, <3>2 DEF LinesIn
    <3>4. \A k \in 0..Top : k \notin {slot, slot + 1} => LinesIn(disk', k) = LinesIn(disk, k)
      BY <3>1 DEF LinesIn
    <3>5. OldestGone(disk, disk', Top)
      <4>1. MovedUp(disk, disk', Top, slot)
        BY <3>3, <3>4 DEF MovedUp
      <4> QED
        BY <2>3, <2>4, <3>2, <4>1, KeptMoved
    <3>6. \E w \in Seq(Lines) : logged' = w \o Kept'
      BY <1>1, <2>1, <3>5, OldestGo
    <3> QED
      BY <3>1, <3>2, <3>6
  <2>7. CASE slot # maxBackups /\ slot \notin DOMAIN disk /\ UNCHANGED disk
    <3>1. Kept' = Kept
      BY <1>1, <2>7 DEF Kept
    <3> QED
      BY <1>1, <2>1, <2>7, <3>1
  <2>8. \/ slot = maxBackups /\ disk' = Without(slot)
        \/ slot # maxBackups /\ slot \in DOMAIN disk /\ disk' = Renamed(slot, slot + 1)
        \/ slot # maxBackups /\ slot \notin DOMAIN disk /\ UNCHANGED disk
    BY <1>1, <1>2, <1>4
  <2> QED
    BY <2>5, <2>6, <2>7, <2>8, Zenon
<1> QED
  BY <1>1, <1>3, <1>4

LEMMA RenameCurrentLoses ==
  ASSUME IInv, IInv', KeptInv, RenameCurrent PROVE KeptInv'
<1>1. /\ pc = "shift" /\ slot = 0 /\ pc' # "shift"
      /\ UNCHANGED <<maxBackups, logged>>
      /\ \/ disk' = Renamed(0, 1) /\ UNCHANGED faults
         \/ faults' = faults + 1
  BY DEF RenameCurrent, Fault, Fails
<1>2. maxBackups \in Nat /\ faults \in Nat /\ 0 \in DOMAIN disk
  BY <1>1, Consts DEF IInv, KeptInv, RotateHolds
<1>3. CASE faults' = faults + 1
  BY <1>2, <1>3 DEF KeptInv
<1>4. CASE disk' = Renamed(0, 1) /\ UNCHANGED faults
  <2> SUFFICES ASSUME faults = 0
               PROVE  \E w \in Seq(Lines) : logged' = w \o Kept'
    BY <1>1, <1>2, <1>4 DEF KeptInv
  <2>1. PICK u \in Seq(Lines) : logged = u \o Kept
    BY DEF KeptInv
  <2>2. 0 < maxBackups => 1 \notin DOMAIN disk
    <3>1. slot < maxBackups => slot + 1 \notin DOMAIN disk
      BY <1>1 DEF KeptInv
    <3> QED
      BY <1>1, <3>1
  <2>3. Top \in Nat /\ Top = maxBackups + 1 /\ OfLines(disk)
    BY KeptIs DEF Top
  <2>4. OfLines(disk')
    <3>1. OfLines(disk)'
      BY DiskOfLines, PTL
    <3> QED
      BY <3>1
  <2>5. /\ DOMAIN disk' = (DOMAIN disk \ {0}) \union {1}
        /\ disk'[1] = disk[0]
        /\ \A k \in DOMAIN disk \ {0, 1} : disk'[k] = disk[k]
    <3>1. 0 # 1
      OBVIOUS
    <3> QED
      BY <1>4, <3>1, RenamedProperty
  <2>6. 0 \in 0..Top - 1 /\ 0 + 1 = 1
    BY <1>2, <2>3
  <2>7. LinesIn(disk', 0 + 1) = LinesIn(disk, 0) /\ LinesIn(disk', 0) = <<>>
    BY <1>2, <2>5, <2>6 DEF LinesIn
  <2>8. \A k \in 0..Top : k \notin {0, 0 + 1} => LinesIn(disk', k) = LinesIn(disk, k)
    BY <2>5 DEF LinesIn
  <2>9. LinesIn(disk, 0 + 1) = <<>> \/ 0 + 1 = Top
    BY <1>2, <2>2, <2>3 DEF LinesIn
  <2>10. OldestGone(disk, disk', Top)
    <3>1. MovedUp(disk, disk', Top, 0)
      BY <2>7, <2>8, <2>9 DEF MovedUp
    <3> QED
      BY <2>3, <2>4, <2>6, <3>1, KeptMoved
  <2> QED
    BY <1>1, <2>1, <2>10, OldestGo
<1> QED
  BY <1>1, <1>3, <1>4

LEMMA AppendLineKeepsAll ==
  ASSUME IInv, IInv', KeptInv, AppendLine PROVE KeptInv'
<1>1. /\ pc = "append" /\ pc' = "idle"
      /\ UNCHANGED maxBackups
      /\ \/ /\ file = "open" /\ disk' = Appended(line) /\ logged' = Append(logged, line)
            /\ UNCHANGED faults
         \/ faults' = faults + 1
         \/ UNCHANGED <<disk, logged, faults>>
  BY DEF AppendLine, Fault, Fails
<1>2. faults \in Nat
  BY DEF KeptInv
<1>3. CASE faults' = faults + 1
  BY <1>2, <1>3 DEF KeptInv
<1>4. CASE UNCHANGED <<disk, logged, faults>>
  <2>1. Kept' = Kept
    BY <1>1, <1>4 DEF Kept
  <2> QED
    BY <1>1, <1>4, <2>1 DEF KeptInv
<1>5. CASE /\ file = "open" /\ disk' = Appended(line) /\ logged' = Append(logged, line)
           /\ UNCHANGED faults
  <2> SUFFICES ASSUME faults = 0
               PROVE  \E w \in Seq(Lines) : logged' = w \o Kept'
    BY <1>1, <1>2, <1>5 DEF KeptInv
  <2>1. PICK u \in Seq(Lines) : logged = u \o Kept
    BY DEF KeptInv
  <2>2. Top \in Nat /\ OfLines(disk) /\ Kept = KeptUpTo(disk, Top)[Top + 1]
        /\ Kept \in Seq(Lines)
    BY KeptIs
  <2>3. OfLines(disk')
    <3>1. OfLines(disk)'
      BY DiskOfLines, PTL
    <3> QED
      BY <3>1
  <2>4. 0 \in DOMAIN disk /\ line \in Lines
    BY <1>1, <1>5 DEF IInv, OpenFile, InWrite
  <2>5. /\ LinesIn(disk', 0) = Append(LinesIn(disk, 0), line)
        /\ \A k \in 1..Top : LinesIn(disk', k) = LinesIn(disk, k)
    <3>1. /\ DOMAIN disk' = DOMAIN disk /\ disk'[0] = Append(disk[0], line)
          /\ \A k \in DOMAIN disk : k # 0 => disk'[k] = disk[k]
      BY <1>5, <2>4 DEF Appended
    <3> QED
      BY <2>4, <3>1 DEF LinesIn
  <2>6. KeptUpTo(disk', Top)[Top + 1] = Append(KeptUpTo(disk, Top)[Top + 1], line)
    BY <2>2, <2>3, <2>4, <2>5, KeptAppended
  <2>7. Kept' = Append(Kept, line)
    <3>1. (/\ OfLines(disk) /\ Top \in Nat
           /\ Kept = KeptUpTo(disk, Top)[Top + 1] /\ Kept \in Seq(Lines))'
      BY KeptIs, PTL
    <3>2. Top' = Top
      BY <1>1 DEF Top
    <3> QED
      BY <2>2, <2>6, <3>1, <3>2
  <2>8. u \o Kept \in Seq(Lines) /\ <<line>> \in Seq(Lines)
    BY <2>2, <2>4, ConcatProperties
  <2>9. Append(u \o Kept, line) = (u \o Kept) \o <<line>>
    BY <2>4, <2>8, AppendIsConcat
  <2>10. Append(Kept, line) = Kept \o <<line>>
    BY <2>2, <2>4, AppendIsConcat
  <2>11. (u \o Kept) \o <<line>> = u \o (Kept \o <<line>>)
    BY <2>2, <2>8, LinesConcat, Zenon
  <2> QED
    BY <1>5, <2>1, <2>7, <2>9, <2>10, <2>11, Zenon
<1> QED
  BY <1>1, <1>3, <1>4, <1>5

(* An empty file where there was none.                                      *)
LEMMA CreatedKeepsAll ==
  ASSUME IInv, IInv', UNCHANGED maxBackups,
         \A i : LinesIn(disk', i) = LinesIn(disk, i)
  PROVE  Kept' = Kept
<1>1. Top \in Nat /\ OfLines(disk) /\ Kept = KeptUpTo(disk, Top)[Top + 1]
  BY KeptIs
<1>2. OfLines(disk')
  <2>1. OfLines(disk)'
    BY DiskOfLines, PTL
  <2> QED
    BY <2>1
<1>3. Top + 1 \in 0..Top + 1
  BY <1>1
<1>4. \A i \in Top + 1 - (Top + 1)..Top : LinesIn(disk, i) = LinesIn(disk', i)
  OBVIOUS
<1>5. KeptUpTo(disk, Top)[Top + 1] = KeptUpTo(disk', Top)[Top + 1]
  BY <1>1, <1>2, <1>3, <1>4, KeptSame
<1>6. (/\ OfLines(disk) /\ Top \in Nat
       /\ Kept = KeptUpTo(disk, Top)[Top + 1] /\ Kept \in Seq(Lines))'
  BY KeptIs, PTL
<1>7. Top' = Top
  BY DEF Top
<1> QED
  BY <1>1, <1>5, <1>6, <1>7

LEMMA NextKept == IInv /\ IInv' /\ KeptInv /\ [Next]_vars => KeptInv'
<1> SUFFICES ASSUME IInv, IInv', KeptInv, [Next]_vars PROVE KeptInv'
  OBVIOUS
<1>1. maxBackups \in Nat /\ slot \in 0..maxBackups /\ faults \in Nat
  BY Consts DEF IInv, TypeOK, KeptInv
<1>2. ASSUME UNCHANGED <<maxBackups, disk, logged, faults>>,
             pc' # "shift" \/ slot' = maxBackups \/ UNCHANGED <<pc, slot>>
      PROVE  KeptInv'
  <2>1. Kept' = Kept
    BY <1>2 DEF Kept
  <2>2. faults' = 0 => \E u \in Seq(Lines) : logged' = u \o Kept'
    BY <1>2, <2>1, Zenon DEF KeptInv
  <2>3. faults' = 0 /\ pc' = "shift" /\ slot' < maxBackups' => slot' + 1 \notin DOMAIN disk'
    BY <1>1, <1>2 DEF KeptInv
  <2> QED
    BY <1>1, <1>2, <2>2, <2>3 DEF KeptInv
<1>3. ASSUME UNCHANGED <<maxBackups, logged, faults>>, pc' # "shift",
             \A i : LinesIn(disk', i) = LinesIn(disk, i)
      PROVE  KeptInv'
  <2>1. Kept' = Kept
    BY <1>3, CreatedKeepsAll
  <2> QED
    BY <1>1, <1>3, <2>1 DEF KeptInv
<1>4. ASSUME faults' = faults + 1 PROVE KeptInv'
  BY <1>1, <1>4 DEF KeptInv
<1>5. CASE UNCHANGED vars
  BY <1>2, <1>5 DEF vars
<1>6. CASE \E len \in Lengths : BeginWrite(len)
  BY <1>2, <1>6 DEF BeginWrite
<1>7. CASE RotateClose
  BY <1>2, <1>4, <1>7 DEF RotateClose, Fault, Fails
<1>8. CASE ShiftBackup
  BY <1>8, ShiftBackupLoses
<1>9. CASE RenameCurrent
  BY <1>9, RenameCurrentLoses
<1>10. CASE RotateOpen
  <2>1. /\ UNCHANGED <<maxBackups, logged>> /\ pc = "open" /\ pc' # "shift"
        /\ \/ /\ disk' = [k \in DOMAIN disk \union {0} |-> IF k = 0 THEN <<>> ELSE disk[k]]
              /\ UNCHANGED faults
           \/ faults' = faults + 1
    BY <1>10 DEF RotateOpen, Fault, Fails
  <2>2. 0 \notin DOMAIN disk
    BY <2>1 DEF IInv, RotateHolds
  <2>3. CASE /\ disk' = [k \in DOMAIN disk \union {0} |-> IF k = 0 THEN <<>> ELSE disk[k]]
             /\ UNCHANGED faults
    <3>1. \A i : LinesIn(disk', i) = LinesIn(disk, i)
      BY <2>2, <2>3 DEF LinesIn
    <3> QED
      BY <1>3, <2>1, <2>3, <3>1
  <2> QED
    BY <1>4, <2>1, <2>3
<1>11. CASE AppendLine
  BY <1>11, AppendLineKeepsAll
<1>12. CASE Close
  BY <1>2, <1>12 DEF Close
<1>13. CASE Crash
  BY <1>2, <1>13 DEF Crash
<1>14. CASE Restart
  <2>1. /\ UNCHANGED <<maxBackups, logged, faults>> /\ pc' # "shift"
        /\ disk' = [k \in DOMAIN disk \union {0} |->
                      IF k \in DOMAIN disk THEN disk[k] ELSE <<>>]
    BY <1>14 DEF Restart
  <2>2. \A i : LinesIn(disk', i) = LinesIn(disk, i)
    BY <2>1 DEF LinesIn
  <2> QED
    BY <1>3, <2>1, <2>2
<1> QED
  BY <1>5, <1>6, <1>7, <1>8, <1>9, <1>10, <1>11, <1>12, <1>13, <1>14 DEF Next

(* As long as no file operation fails, what is on disk, oldest backup       *)
(* first, is the end of what was logged, whole and in order, through any    *)
(* number of rotations and crashes in the middle of them.                   *)
THEOREM OldestLost == Spec => []OnlyOldestLost
<1>1. IInv /\ KeptInv => OnlyOldestLost
  <2> SUFFICES ASSUME IInv, KeptInv, faults = 0 PROVE IsSuffix(Kept, logged)
    BY DEF OnlyOldestLost
  <2>1. PICK u \in Seq(Lines) : logged = u \o Kept
    BY DEF KeptInv
  <2>2. Kept \in Seq(Lines)
    BY KeptIs
  <2>3. IsSuffix(Kept, u \o Kept)
    BY <2>2, SuffixOfConcat
  <2> QED
    BY <2>1, <2>3, Zenon
<1>2. Spec => []KeptInv
  BY InitKept, NextKept, InductiveInvariant, PTL DEF Spec
<1> QED
  BY <1>1, <1>2, InductiveInvariant, PTL
=============================================================================
