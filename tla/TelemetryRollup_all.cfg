SPECIFICATION FairSpec
CONSTANTS
  Snapshots = {s1, s2}
  Jobs = {j1, j2}
  MaxTime = 3
  Period = 2
  Window = 1
  MaxDelay = 2
  MaxAhead = 1
  MaxCrashes = 1
  PromptLock = TRUE
INVARIANTS
  CountedOnce
  NothingSkipped
PROPERTIES
  TimelyIsRolledUp
  ImplementsOnce
