CONSTANTS
  JoinLines = 3
  JoinBytes = 7
  LineLengths = {1, 6}
  FramedLines = 4
  Times = {0, 1, 3}
  Floor = 0
  Ceiling = 2
  Window = 3
  MinSamples = 2
  Num = 2
  Den = 3
  ReadLines = 4
  ReadStarts = 1
  NEntries = 5
  BatchLines = 2
  MaxRestarts = 1
  Fieldless = {1}
  Bad = {5}
  Poison = {3}
  MaxBytes = 2
  Limit = 3
  Every = 2
  Keeps = {0, 1, 5}
  LogLengths = {1, 4}
  MaxLog = 5
  MaxSecond = 2
  LogStarts = 1
  Loops = {l1, l2}
  Handlers = {h1, h2}
  Wedged = 1
  MaxSpawns = 2
SYMMETRY Symmetry
SPECIFICATION Spec
INVARIANTS TypeOK FramingSound  NoGap LogSound ShippingHonest
CHECK_DEADLOCK FALSE
