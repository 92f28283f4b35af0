CONSTANTS
  MapKey = {"a", "b"}
  MapDigit <- Near
  HandKey = {"a", "d"}
  HandDigit <- Apart
  Value = {"v", "w"}
  Slot <- MCSlot
  Depth = 3
  Byte <- MCByte
  MaxRecords = 2
  Thread = {"main", "worker"}
  Input <- MCInput
  Output = 2
  Capacity = 1
  MaxCalls = 2
  MaxDeaths = 1
  Interruptible = {"write", "wait"}
  MaxInterrupts = 1
  Upstream = 2
  MaxCommits = 5
  Branch = {"main", "release"}
  MaxRuns = 2
  MaxRev = 4
  MaxFaults = 2
  TrieName <- MCNames
  Width = 5
  RootBits = 1
  Bits = 2
  DirName <- MCDirNames
  RootDir <- MCRoot
  MaxSize = 4
  Order <- MCOrder
  WithTags = {"llvm"}
  Heads = {"main", "llvm/main"}
  Tags = {"v1"}
  FwdLine <- MCLine
  MaxMoves = 2
  MaxKills = 1
  Window = 3
  MaxBase = 3
  MaxBranch = 5
SPECIFICATION Spec
CHECK_DEADLOCK FALSE
INVARIANTS TypeOK FilesLagBehind ReplyIsOutput NewestBaseWinsInOneRun DownstreamTranslated ParentsMapped OneEntryPerName MasksFollow EveryNameIsClaimed NothingLeftBehind
PROPERTIES EveryCallReturns EveryRevisionMapped EventuallyForwarded
