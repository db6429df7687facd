SPECIFICATION Spec
CONSTANTS
  NONE = NONE
  w1 = w1
  w2 = w2
  p1 = p1
  p2 = p2
  t1 = t1
  t2 = t2
  k1 = k1
  Workers = {w1, w2}
  Partitions = {p1, p2}
  Tasks = {t1, t2}
  Log <- TaskAndInvalid
  Keys = {}
  Indicators = {}
  MaxRetries = 1
  StopExits = FALSE
  InitialDesired = {"RUNNING"}
  Budget <- DeliveryFaults
SYMMETRY WorkerSymmetry
INVARIANT NoLoss
INVARIANT PositionInv
PROPERTY DeliverySpec
