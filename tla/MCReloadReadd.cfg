SPECIFICATION Spec
CONSTANTS
  Names = {"a", "b"}
  Globs = {"b"}
  Paths = {"p", "q"}
  MaxEdits = 2
  MaxReloads = 2
PROPERTY ConfiguredIsTailed
CHECK_DEADLOCK FALSE
