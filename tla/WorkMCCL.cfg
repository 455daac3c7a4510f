SPECIFICATION Spec
CONSTANTS
  Finishers = {f1, f2}
  Waiters = {w1, w2}
  TimedWaiters = {w2}
  Pollers = {p1}
  NoThread = NoThread
INVARIANTS
  TypeOK
  OneOutcome
PROPERTIES
  WaitReturns
  FutureFulfilled
