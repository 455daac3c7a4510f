SPECIFICATION Spec
CONSTANTS
  Finishers = {f1}
  Waiters = {w1}
  TimedWaiters = {}
  Pollers = {}
  NoThread = NoThread
INVARIANT FulfilledAfterWait
