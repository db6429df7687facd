SPECIFICATION Spec
CONSTANTS
  NONE = NONE
  w1 = w1
  w2 = w2
  p1 = p1
  p2 = p2
  t1 = t1
  t2 = t2
  k1 = k1
  Workers = {w1, w2}
  Partitions = {p1}
  Tasks = {t1, t2}
  Log <- TaskThenPoison
  Keys = {}
  Indicators = {}
  MaxRetries = 2
  StopExits = TRUE
  InitialDesired = {"RUNNING", "STOPPED"}
  Budget <- ControlEvents
SYMMETRY WorkerSymmetry
INVARIANT QuietReportIsTrue
INVARIANT PauseTakesAtMostOne
INVARIANT AcknowledgedIsFinal
