CONSTANTS
  Repo = {"a", "b", "c"}
  Pairs <- Chain
  CommitKey = {"k1", "k2"}
  SvnKey = {"s1"}
  Generates <- OwnKeys
  MaxRecords = 3
  MtDb = {"a", "b"}
  None = "none"
SPECIFICATION Spec
INVARIANTS TypeOK RecordedIsMerged UpToDateIsComplete MergesSucceed
PROPERTIES UpstreamsMoveForward
