SPECIFICATION Spec
CONSTANTS
  Exports = {{1, 2, 4}, {3}}
  Unmappable = {4}
  Poison = {1}
  MaxTries = 2
  MaxRestarts = 1
  MaxBytes = 3
INVARIANTS TypeOK AckedDurable
PROPERTIES AckedStored
