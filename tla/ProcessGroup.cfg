SPECIFICATION Spec
CONSTANTS
  World = 3
  SockBuf = 2
  Programs <- Orderly
INVARIANTS
  TypeOK
  FramesMatch
  BarrierFences
  WireClean
PROPERTIES
  EveryCallCompletes
