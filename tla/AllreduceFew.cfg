\* Fewer elements than ranks: every request runs the tree, over six ranks.
SPECIFICATION Spec
CONSTANTS
  World = 6
  Numel = 2
  SockBuf = 1
  Avg = TRUE
INVARIANTS
  FrameMatch
PROPERTIES
  ImplementsAllreduce
