CONSTANTS
  Upstream = 2
  MaxCommits = 5
  Branch = {"main", "release"}
  MaxRuns = 3
SPECIFICATION Spec
CHECK_DEADLOCK FALSE
INVARIANT NewestBaseWins
