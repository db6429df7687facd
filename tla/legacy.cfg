SPECIFICATION Spec
CONSTANTS
  NONE = NONE
  p1 = p1
  p2 = p2
  t1 = t1
  t2 = t2
  e1 = e1
  Workers = {w1, w2}
  Partitions = {p1, p2}
  Tasks = {t1, t2}
  Images = {e1}
  Log <- MixedLog
  MaxRetries = 2
  MaxFaults = 1
SYMMETRY LegacySymmetry
INVARIANT InvalidIsRecorded
INVARIANT LastRecordDecides
INVARIANT RowsHaveImages
INVARIANT WholeVideos
INVARIANT NothingLeftBehind
PROPERTY LegacyDelivery
