CONSTANTS
  Agent = {"x", "y"}
  Founder = "f"
  Branch = {"main"}
  Actions <- One
  Modes <- AlwaysNormal
  MaxCommits <- UpTo2
  Published = 0
  MaxKills = 2
  None = None
  Bare = Bare
SPECIFICATION Spec
INVARIANTS TypeOK
PROPERTIES PublishedUnlessStuck
