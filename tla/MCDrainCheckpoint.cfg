SPECIFICATION Spec
CONSTANTS
  NLines = 3
  BatchLines = 2
  MaxInflight = 1
  MaxPending = 0
  MaxRestarts = 1
  DiskFaults = FALSE
  Malformed = {}
  Unmappable = {}
  Dropped = {}
  Poison = {}
  MaxBytes = 2
INVARIANT CheckpointNeverPastMemory
