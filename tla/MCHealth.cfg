SPECIFICATION Spec
CONSTANTS
  Loops = {"a", "b"}
  Handlers = {1}
  Wedged = 2
  MaxSpawns = 2
INVARIANT WorkingIsGreen
