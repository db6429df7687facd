SPECIFICATION Spec
CONSTANTS
  NONE = NONE
  w1 = w1
  w2 = w2
  p1 = p1
  p2 = p2
  t1 = t1
  t2 = t2
  k1 = k1
  Workers = {w1, w2}
  Partitions = {p1}
  Tasks = {t1}
  Log <- OneTask
  Keys = {k1}
  Indicators = {k1}
  MaxRetries = 2
  StopExits = FALSE
  InitialDesired = {"RUNNING"}
  Budget <- StoreFaults
SYMMETRY WorkerSymmetry
INVARIANT TypeOK
INVARIANT SuccessIsWhole
