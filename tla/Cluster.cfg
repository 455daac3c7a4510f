SPECIFICATION Spec
CONSTANTS
  Nodes = 2
  Self = 0
  InUse <- MCInUse
  Region = {0}
  Timeout = 1
  MaxLag = 1
  Wrap = 8
  Requests <- MCRequests
  MemPerNode = 2
  MaxJobs = 2
  MaxElapsed = 1
CHECK_DEADLOCK FALSE
INVARIANTS
  TypeOK
  JobInOnePlace
  FullyPlaced
  FailedNodesAreVacated
PROPERTIES
  TickFits
  FailedForCause
