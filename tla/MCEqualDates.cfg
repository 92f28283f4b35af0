CONSTANTS
  DirList <- OnlyA
  B1 = B1
  B2 = B2
  Branch = {B1}
  Tracked <- TrackA
  Histories <- TieHistories
  FirstBatch = 1
  NextBatch = 2
  MaxRuns = 2
SPECIFICATION Spec
CHECK_DEADLOCK FALSE
INVARIANT PathReachesHead
