SPECIFICATION Spec
CONSTANTS
  TickNs = 2
  Window = 2
  Timestamps <- FewNs
  NLines = 5
  MaxRestarts = 2
INVARIANTS TypeOK StampIsPosition KeysUnique  UniqueInWindow
