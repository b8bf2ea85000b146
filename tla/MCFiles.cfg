\* Three files are a rotation during a rotation.  Batches of one and of two
\* records; two of the same size, so that a segment in the wrong place shows.
CONSTANTS
  MaxFiles = 3
  NLines = 3
  MaxRestarts = 1
  MaxTruncates = 1
  MaxBytes = 3
  Bodies = {{1}, {2}, {1, 2}}
  MaxSeq = 4
SPECIFICATION Spec
INVARIANTS TypeOK  InOrder
PROPERTIES AllRead ImplementsAtomicQueue
