CONSTANTS
  Agent = {"x", "y"}
  Founder = "f"
  Branch = {"main", "release"}
  Actions <- Both
  Modes <- AlwaysNormal
  MaxCommits <- UpTo2
  Published = 1
  MaxKills = 1
  None = None
  Bare = Bare
SPECIFICATION Spec
INVARIANTS PublishedIsMapped SplitRefsBehind CompletedRunPublishes
PROPERTIES ImplementsTranslateOnce EventuallyPublished SplitRefsCatchUp
