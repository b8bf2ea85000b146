CONSTANTS
  Names = {"a", "b"}
  Globs = {"b"}
  Paths = {"p", "q"}
  MaxEdits = 2
  MaxReloads = 2
  Files = {"f"}
  MaxLives = 2
  MaxLines = 2
  MaxEnds = 1
SPECIFICATION Spec
INVARIANTS TypeOK OneTask ReadIsKept
PROPERTIES StopEnds ReloadConverges AllTailed
CHECK_DEADLOCK FALSE
