SPECIFICATION Spec
CONSTANTS
  World = 2
  SockBuf = 2
  Programs <- Overlapping
INVARIANT FramesMatch
