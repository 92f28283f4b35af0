CONSTANTS
  DirList <- MCDirs
  B1 = B1
  B2 = B2
  Branch = {B1, B2}
  Tracked <- MCTracked
  Histories <- MCHistories
  FirstBatch = 1
  NextBatch = 2
  MaxRuns = 3
SPECIFICATION Spec
CHECK_DEADLOCK FALSE
INVARIANTS TypeOK AncestryKeptIfDated HeadInStep FailsOnlyWithoutBase
PROPERTIES RerunIsIdle PromiseKept
