CONSTANTS
  Agent = {"d"}
  Declared <- MonoThenSplit
  MaxCommits = 2
  Retries <- Patience
SPECIFICATION Spec
INVARIANT TranslatedOnce
