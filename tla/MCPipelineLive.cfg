SPECIFICATION FairSpec
CONSTANTS
  NLines = 4
  BatchLines = 1
  MaxInflight = 1
  MaxPending = 1
  MaxRestarts = 1
  DiskFaults = FALSE
  Malformed = {}
  Unmappable = {4}
  Dropped = {2}
  Poison = {3}
  MaxBytes = 1
PROPERTIES Delivered 
