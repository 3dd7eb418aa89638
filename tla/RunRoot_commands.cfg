SPECIFICATION RootSpec
CONSTANTS
  TcpCount = 3
  TcpTimeout = 5
  TcpLatencies = {2, 5}
  RoundTrips = {1, 4}
  MaxCounted = 4
  Cycles = 3
  MaxHops = 2
  MtrTimeout = 3
  MtrLatencies = {1, 2}
  Types = {"A", "MX", "CNAME"}
  MaxValues = 2
  TraceHops = 3
  Distance = 3
  MaxStray = 1
  RedirectLimit = 3
  FollowRedirects = TRUE
  PhaseCount = 2
  HoursLeft = {0, 1, 719, 720, 721, 743, 744, 745}
  MaxDelay = 1
  Octets = 2
  OctetBits = 2
  MaxListed = 18
  MaxFlags = 2
INVARIANTS
  RootTypeOK
  SummaryIsTrue
  VerdictIsWhole
  HopsAreProbedAlike
  ReportCoversSamples
  MtrStopsPromptly
  RecordsAreWhole
  RouteEndsAtTarget
  RouteIsNotTooShort
  HttpReportIsSane
  WarnsInTime
  HostsAreTheSubnet
PROPERTIES
  LookupsAreABatch
  CommandsHeedCancel
CHECK_DEADLOCK FALSE
