SPECIFICATION FairSpec
CONSTANTS
  NONE = NONE
  DOWN = DOWN
  i1 = i1
  i2 = i2
  Instances = {i1, i2}
  Serves <- StudentsOnly2
  MaxLoad = 1
  FrameCount <- Frames31
  BatchSize = 2
  MaxRetry = 2
  Threshold = 2
  Cooldown = 2
  Analyses = 1
  RowChanges = 2
INVARIANT ReservationsMatch
INVARIANT ResultsAreWhole
INVARIANT OneInstanceSuffices
INVARIANT WorkIsShared
PROPERTY AsksOthers
PROPERTY CircuitSpec
PROPERTY AnalysisSpec
PROPERTY AnalysisEnds
