CONSTANTS
  Agent = {"d", "e"}
  Declared <- SplitThenMono
  MaxCommits = 2
  Retries <- Patience
SPECIFICATION Spec
INVARIANTS TypeOK TranslatedOnce
PROPERTIES DownstreamCatchesUp
