SPECIFICATION Spec
CONSTANTS
  NONE = NONE
  ApiProcesses = {a1, a2}
  Workers = {w1, w2}
  DefaultState = "PAUSED"
  MaxVersion = 4
SYMMETRY ControlSymmetry
PROPERTY VersionIncrements
