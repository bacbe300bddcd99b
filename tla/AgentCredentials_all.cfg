SPECIFICATION FairSpec
CONSTANTS
  MaxTokens = 2
  RejectLimit = 2
  MaxActs = 2
CHECK_DEADLOCK FALSE
INVARIANTS
  NoLostWakeup
  NewTokenIsFound
PROPERTIES
  TokenComesBack
