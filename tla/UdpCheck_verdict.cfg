SPECIFICATION Spec
CONSTANTS
  Ports = {46, 53}
  MaxForeign = 2
  ForeignLen = 46
INVARIANTS
  VerdictRests
PROPERTY NothingLeaks
