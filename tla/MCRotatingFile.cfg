\* No, two or three backups; a crash and a failing operation; lines up to past
\* the limit; enough rotations to evict from three backups.
CONSTANTS
  MaxSize = 2
  Backups = {0, 2, 3}
  Lengths = {1, 2, 3}
  MaxWrites = 6
  MaxFaults = 1
  MaxCrashes = 1
SPECIFICATION Spec
INVARIANTS TypeOK SizeMatchesFile OnlyOldestLost BackupDepthKept
CHECK_DEADLOCK FALSE
