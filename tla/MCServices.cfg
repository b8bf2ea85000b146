CONSTANTS
  Paths = {"a"}
  MaxMounts = 2
  MaxDeaths = 1
  MaxRuns = 1
  MaxRestarts = 1
  MaxBytes = 2
  Rotators = {"source"}
  Versions = {1, 2}
  Bad = 99
  MaxWrites = 3
SPECIFICATION Spec
INVARIANTS TypeOK ProbesBounded Matched
PROPERTIES RecoveredReports RenewalPresented
CHECK_DEADLOCK FALSE
