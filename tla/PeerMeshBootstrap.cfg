SPECIFICATION Spec
CONSTANTS
  World = 3
  Nets <- NetsOf
  Priority <- PriorityOf
  MaxPasses = 1
INVARIANTS TypeOK  OnlyPriorityLinks
PROPERTY NoSilentHang
CHECK_DEADLOCK FALSE
