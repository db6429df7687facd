SPECIFICATION Spec
CONSTANTS
  FrameInterval = 40
  Policy <- SmallPolicy
  StartMinute = 1
  MaxSegments = 1
  StudentCount = 5
  Frames <- FiveFrames
  Rules <- TwoRules
  MaxFrames = 6
INVARIANT SnapshotsSpaced
INVARIANT DroppedForStronger
INVARIANT AlertsPerRun
INVARIANT SegmentsAreRuns
PROPERTY EmptyFramesDoNotCount
PROPERTY FacingPays
CHECK_DEADLOCK FALSE
