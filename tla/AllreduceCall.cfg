\* Four elements on three ranks: chunks of 2, 2 and 0 elements, and a mask
\* of the tree that has no partner for rank 2.
SPECIFICATION Spec
CONSTANTS
  World = 3
  Numel = 4
  SockBuf = 1
  Avg = TRUE
INVARIANTS
  TypeOK
  FrameMatch
  OwnsReducedChunk
  WireClean
PROPERTIES
  ImplementsAllreduce
  EveryRankReturns
