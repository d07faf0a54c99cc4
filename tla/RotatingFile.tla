---------------------------- MODULE RotatingFile ----------------------------
(***************************************************************************)
(* RotatingFileWriter (observability/rotating_file.go) and the directory   *)
(* it works on.  Slot 0 is filePath, slot i the backup filePath.i.  Write  *)
(* holds the mutex throughout, so there is one write at a time; its steps  *)
(* are the file operations of rotate, each of which can fail, and between  *)
(* any two of them the process can crash.                                  *)
(*                                                                         *)
(* The file system is external: rename replaces its target, and what was   *)
(* written before a crash of the process stays.  A line is a pair of its   *)
(* number and its length in bytes, shorter for a write that failed half    *)
(* way.                                                                    *)
(***************************************************************************)
EXTENDS Integers, Sequences, FiniteSets, SequencesExt

CONSTANTS
  MaxSize,     (* maxSize                                                   *)
  Backups,     (* the values maxBackups may have                            *)
  Lengths,     (* lengths of the lines written                              *)
  MaxWrites,   (* bound: calls of Write                                     *)
  MaxFaults,   (* bound: file operations that fail                          *)
  MaxCrashes   (* bound: crashes of the process                             *)

ASSUME RotationAssumption ==
  /\ MaxSize \in Int
  /\ Backups \subseteq Nat
  /\ Lengths \subseteq Nat \ {0}
  /\ MaxWrites \in Nat
  /\ MaxFaults \in Nat
  /\ MaxCrashes \in Nat

VARIABLES
  maxBackups,  (* RotatingFileWriter.maxBackups                             *)
  disk,       (* disk[i]: the lines in slot i, for every slot that exists   *)
  file,       (* RotatingFileWriter.file: "open", "closed" or "nil"         *)
  size,       (* RotatingFileWriter.size                                    *)
  pc,         (* where the current Write is                                 *)
  slot,       (* renameBackups's i                                          *)
  line,       (* the line being written                                     *)
  writes,     (* calls of Write so far                                      *)
  errors,     (* the counter observability_internal_errors_total            *)
  rotations,  (* history: rotations that renamed the current file           *)
  logged,     (* history: the lines written in full, in order               *)
  faults,     (* history: file operations that failed                       *)
  crashes     (* history: crashes so far                                    *)

vars == <<maxBackups, disk, file, size, pc, slot, line, writes, errors,
          rotations, logged, faults, crashes>>

(* Sizes(f)[n]: the bytes of the first n lines of f.                        *)
Sizes(f) ==
  LET sizes[n \in 0..Len(f)] == IF n = 0 THEN 0 ELSE sizes[n - 1] + f[n][2]
  IN  sizes

SizeOf(f) == Sizes(f)[Len(f)]

Without(i) == [j \in DOMAIN disk \ {i} |-> disk[j]]

(* os.Rename of slot i to slot j.                                           *)
Renamed(i, j) ==
  [k \in (DOMAIN disk \ {i}) \union {j} |-> IF k = j THEN disk[i] ELSE disk[k]]

Fault == faults < MaxFaults /\ faults' = faults + 1

-----------------------------------------------------------------------------
(* NewRotatingFileWriter on an empty directory.                             *)
Init ==
  /\ maxBackups \in Backups
  /\ disk = [i \in {0} |-> <<>>]
  /\ file = "open"
  /\ size = 0
  /\ pc = "idle"
  /\ slot = 0
  /\ line = <<0, 0>>
  /\ writes = 0
  /\ errors = 0
  /\ rotations = 0
  /\ logged = <<>>
  /\ faults = 0
  /\ crashes = 0

(* Write, up to the decision to rotate.                                     *)
BeginWrite(len) ==
  /\ pc = "idle"
  /\ writes < MaxWrites
  /\ writes' = writes + 1
  /\ line' = <<writes', len>>
  /\ pc' = IF size + len > MaxSize THEN "close" ELSE "append"
  /\ UNCHANGED <<maxBackups, disk, file, size, slot, errors, rotations,
                 logged, faults, crashes>>

(* Write returns an error of rotate, or of a file that is not open.         *)
Fails ==
  /\ pc' = "idle"
  /\ errors' = errors + 1

(* rotate closes the file; a file that is closed already is an error.       *)
RotateClose ==
  /\ pc = "close"
  /\ \/ /\ file = "open"
        /\ pc' = "shift"
        /\ slot' = maxBackups
        /\ UNCHANGED <<errors, faults>>
     \/ /\ file # "open"
        /\ Fails
        /\ UNCHANGED <<slot, faults>>
     \/ /\ file = "open"
        /\ Fault
        /\ Fails
        /\ UNCHANGED slot
  /\ file' = IF file = "open" THEN "closed" ELSE file
  /\ UNCHANGED <<maxBackups, disk, size, line, writes, rotations, logged,
                 crashes>>

(* Mutant of ShiftBackup: the backups are renamed upwards, lowest first.    *)
ShiftBackupAscending ==
  /\ pc = "shift"
  /\ slot >= 1
  /\ LET i == maxBackups + 1 - slot IN
       disk' = IF i = maxBackups THEN Without(i)
               ELSE IF i \in DOMAIN disk THEN Renamed(i, i + 1) ELSE disk
  /\ slot' = slot - 1
  /\ UNCHANGED <<maxBackups, file, size, pc, line, writes, errors, rotations,
                 logged, faults, crashes>>

(* Mutant of ShiftBackup: the oldest backup is not removed but renamed.     *)
ShiftBackupKeepsOldest ==
  /\ pc = "shift"
  /\ slot >= 1
  /\ disk' = IF slot \in DOMAIN disk THEN Renamed(slot, slot + 1) ELSE disk
  /\ slot' = slot - 1
  /\ UNCHANGED <<maxBackups, file, size, pc, line, writes, errors, rotations,
                 logged, faults, crashes>>

(* One round of renameBackups: the oldest backup is removed, every other    *)
(* one that exists moves up by one.  Errors are ignored.                    *)
ShiftBackup ==
  /\ pc = "shift"
  /\ slot >= 1
  /\ \/ /\ disk' = IF slot = maxBackups THEN Without(slot)
                   ELSE IF slot \in DOMAIN disk THEN Renamed(slot, slot + 1)
                   ELSE disk
        /\ UNCHANGED faults
     \/ Fault /\ UNCHANGED disk
  /\ slot' = slot - 1
  /\ UNCHANGED <<maxBackups, file, size, pc, line, writes, errors, rotations,
                 logged, crashes>>

(* Mutant of RenameCurrent: the size is not started again.                  *)
RenameCurrentKeepsSize ==
  /\ pc = "shift"
  /\ slot = 0
  /\ disk' = Renamed(0, 1)
  /\ rotations' = rotations + 1
  /\ pc' = "open"
  /\ UNCHANGED <<maxBackups, file, size, slot, line, writes, errors, logged,
                 faults, crashes>>

(* rotate renames the current file to the first backup.                     *)
RenameCurrent ==
  /\ pc = "shift"
  /\ slot = 0
  /\ \/ /\ disk' = Renamed(0, 1)
        /\ size' = 0
        /\ rotations' = rotations + 1
        /\ pc' = "open"
        /\ UNCHANGED <<errors, faults>>
     \/ /\ Fault
        /\ Fails
        /\ UNCHANGED <<disk, size, rotations>>
  /\ UNCHANGED <<maxBackups, file, slot, line, writes, logged, crashes>>

(* openFile at the end of rotate: the slot was just renamed away, so Stat   *)
(* leaves the size alone and the file is created.                           *)
RotateOpen ==
  /\ pc = "open"
  /\ \/ /\ disk' = [k \in DOMAIN disk \union {0} |->
                     IF k = 0 THEN <<>> ELSE disk[k]]
        /\ file' = "open"
        /\ pc' = "append"
        /\ UNCHANGED <<errors, faults>>
     \/ /\ Fault
        /\ Fails
        /\ UNCHANGED <<disk, file>>
  /\ UNCHANGED <<maxBackups, size, slot, line, writes, rotations, logged,
                 crashes>>

(* The line is appended, or a part of it before an error.                   *)
Appended(l) == [disk EXCEPT ![0] = Append(@, l)]

AppendLine ==
  /\ pc = "append"
  /\ \/ /\ file = "open"
        /\ disk' = Appended(line)
        /\ size' = size + line[2]
        /\ logged' = Append(logged, line)
        /\ pc' = "idle"
        /\ UNCHANGED <<errors, faults>>
     \/ /\ file = "open"
        /\ Fault
        /\ Fails
        /\ \E n \in 0..line[2] - 1 :
             /\ size' = size + n
             /\ disk' = IF n = 0 THEN disk ELSE Appended(<<line[1], n>>)
        /\ UNCHANGED logged
     \/ /\ file # "open"
        /\ Fails
        /\ UNCHANGED <<disk, size, logged, faults>>
  /\ UNCHANGED <<maxBackups, file, slot, line, writes, rotations, crashes>>

(* Close, between two writes.                                               *)
Close ==
  /\ pc = "idle"
  /\ file # "nil"
  /\ file' = "nil"
  /\ UNCHANGED <<maxBackups, disk, size, pc, slot, line, writes, errors,
                 rotations, logged, faults, crashes>>

(* The process dies, in a write or outside of one.                          *)
Crash ==
  /\ pc # "down"
  /\ crashes < MaxCrashes
  /\ crashes' = crashes + 1
  /\ pc' = "down"
  /\ file' = "nil"
  /\ UNCHANGED <<maxBackups, disk, size, slot, line, writes, errors,
                 rotations, logged, faults>>

(* Mutant of Restart: the file that is there is truncated, not appended to. *)
RestartTruncates ==
  /\ pc = "down"
  /\ pc' = "idle"
  /\ file' = "open"
  /\ size' = 0
  /\ disk' = [k \in DOMAIN disk \union {0} |-> IF k = 0 THEN <<>> ELSE disk[k]]
  /\ UNCHANGED <<maxBackups, slot, line, writes, errors, rotations, logged,
                 faults, crashes>>

(* NewRotatingFileWriter of the next process: openFile takes the size of    *)
(* the file that is there, and creates it when there is none.               *)
Restart ==
  /\ pc = "down"
  /\ pc' = "idle"
  /\ file' = "open"
  /\ size' = IF 0 \in DOMAIN disk THEN SizeOf(disk[0]) ELSE 0
  /\ disk' = [k \in DOMAIN disk \union {0} |->
                IF k \in DOMAIN disk THEN disk[k] ELSE <<>>]
  /\ UNCHANGED <<maxBackups, slot, line, writes, errors, rotations, logged,
                 faults, crashes>>

Next ==
  \/ \E len \in Lengths : BeginWrite(len)
  \/ RotateClose \/ ShiftBackup \/ RenameCurrent \/ RotateOpen \/ AppendLine
  \/ Close \/ Crash \/ Restart

Spec == Init /\ [][Next]_vars

-----------------------------------------------------------------------------
TypeOK ==
  /\ maxBackups \in Backups
  /\ DOMAIN disk \subseteq 0..maxBackups \union {0, 1}
  /\ \A i \in DOMAIN disk : disk[i] \in Seq((1..MaxWrites) \X Nat)
  /\ file \in {"open", "closed", "nil"}
  /\ size \in Nat
  /\ pc \in {"idle", "close", "shift", "open", "append", "down"}
  /\ slot \in 0..maxBackups
  /\ line \in (0..MaxWrites) \X Nat
  /\ writes \in 0..MaxWrites
  /\ errors \in 0..MaxWrites
  /\ rotations \in Nat
  /\ logged \in Seq((1..MaxWrites) \X Nat)

(* Write and openFile: the size kept in memory, on which every decision to  *)
(* rotate rests, is the size of the file on disk, after failed writes,      *)
(* rotations and restarts; so that no file outgrows maxSize but one whose   *)
(* only line does, however crashes and failures cut rotations short.        *)
SizeMatchesFile ==
  /\ file = "open" => 0 \in DOMAIN disk /\ size = SizeOf(disk[0])
  /\ \A i \in DOMAIN disk : Len(disk[i]) > 1 => SizeOf(disk[i]) <= MaxSize

LinesIn(d, i) == IF i \in DOMAIN d THEN d[i] ELSE <<>>

(* KeptUpTo(d, top)[n]: the lines in the n slots of d up to top, oldest     *)
(* backup first.                                                            *)
KeptUpTo(d, top) ==
  LET kept[n \in 0..top + 1] ==
        IF n = 0 THEN <<>> ELSE kept[n - 1] \o LinesIn(d, top + 1 - n)
  IN  kept

(* The lines on disk; slot 1 is used even when maxBackups is 0.             *)
Kept == KeptUpTo(disk, maxBackups + 1)[maxBackups + 2]

(* rotate and renameBackups: as long as no file operation fails, what is on *)
(* disk is the latest of what was logged, whole and in order: a line is     *)
(* lost only with everything before it, also when crashes interrupt         *)
(* rotations half way.                                                      *)
OnlyOldestLost == faults = 0 => IsSuffix(Kept, logged)

(* renameBackups: without failures and crashes every rotation adds a        *)
(* backup, until there are maxBackups of them, and then keeps that many;    *)
(* with a maxBackups of 0 the file renamed last is kept all the same.       *)
BackupDepthKept ==
  faults = 0 /\ crashes = 0 /\ pc \in {"idle", "append"} =>
    Cardinality(DOMAIN disk \ {0}) =
      LET depth == IF maxBackups = 0 THEN 1 ELSE maxBackups
      IN  IF rotations < depth THEN rotations ELSE depth

=============================================================================
