SPECIFICATION FairSpec
CONSTANTS
  Tasks = {1, 2}
  Size <- Sizes
  Bad <- Poisons
  RebuildAfter = 2
  MaxReshapes = 1
INVARIANTS TypeOK ChunksPartition SendContract
PROPERTY Recovers
