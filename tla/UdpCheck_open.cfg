SPECIFICATION Spec
CONSTANTS
  Ports = {46, 53}
  MaxForeign = 0
  ForeignLen = 46
INVARIANT OpenMeansAnswered
