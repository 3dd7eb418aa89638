SPECIFICATION Spec
CONSTANTS
  Count = 3
  Timeout = 2
  ForeignSeq = 1
  MaxForeign = 2
INVARIANTS
  ErrTellsTheTruth
  CountsAreSane
PROPERTY BothEnd
