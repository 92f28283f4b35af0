CONSTANTS
  Agent = {"x"}
  Founder = "f"
  Branch = {"main"}
  Actions <- One
  Modes <- InTwoRuns
  MaxCommits <- UpTo2
  Published = 1
  MaxKills = 0
  None = None
  Bare = Bare
SPECIFICATION Spec
INVARIANTS PublishedIsMapped
