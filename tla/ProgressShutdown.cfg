SPECIFICATION Spec
CONSTANTS
  Tasks = {t1}
  NoTask = NoTask
PROPERTY ShutdownReturns
