SPECIFICATION Spec
CONSTANTS
  MaxTokens = 2
  RejectLimit = 2
  MaxActs = 1
CHECK_DEADLOCK FALSE
INVARIANT ClearedIsGone
