SPECIFICATION Spec
CONSTANTS
  NLines = 5
  BatchLines = 1
  MaxInflight = 1
  MaxPending = 1
  MaxRestarts = 1
  DiskFaults = TRUE
  Malformed = {1}
  Unmappable = {2}
  Dropped = {}
  Poison = {4}
  MaxBytes = 1
INVARIANTS TypeOK Custody CheckpointCovered HeldPausesReading
