SPECIFICATION HostSpec
CONSTANTS
  Workers = {w1, w2}
  NumJobs = 2
  Ports = 2
  IcmpEnabled = TRUE
  TcpEnabled = TRUE
  MaxOther = 1
INVARIANTS
  TcpVerdictsAreRight
PROPERTY ImplementsPool
