SPECIFICATION Spec
CONSTANTS
  Servers = {web, metrics}
  Requests = {q1, q2}
  MaxSignals = 2
INVARIANTS
  StopHasACause
  ShutdownIsClean
PROPERTY SignalEndsRun
