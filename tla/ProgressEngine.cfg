\* The system may stop: all callers are done and the engine is stopped.
SPECIFICATION Spec
CONSTANTS
  o1 = o1
  o2 = o2
  o3 = o3
  Ops = {o1, o2, o3}
  Bytes <- MCBytes
  max_depth = 1
  MaxStarts = 2
  Alignment = 4
  LargeBytes = 8
  Addresses = {a1, a2, a3}
INVARIANTS
  TypeOK
  StopDrains
  Accounted
PROPERTIES
  EveryCallEnds
CHECK_DEADLOCK FALSE
