SPECIFICATION Spec
CONSTANTS
  MonTypes = {"tcp", "ping"}
  Count = 3
  Cap = 2
  Latencies = {1, 4}
  MaxTicks = 4
INVARIANTS
  InOrder
  ReportAddsUp
PROPERTIES
  ReportsGrow
  CancelEndsWatch
