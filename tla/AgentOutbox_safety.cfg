SPECIFICATION Spec
CONSTANTS
  MaxMessages = 2
  Kinds = {"heartbeat", "inventory"}
  Replies = {"ok", "rejected", "unauthorized", "gone", "serverError", "noResponse"}
  BatchSize = 2
  MaxRetries = 2
  BreakerThreshold = 2
  AuthThreshold = 2
  MaxCrashes = 1
INVARIANTS
  NothingVanishes
  DeadOnlyAfterMaxRetries
PROPERTIES
  OnlyDueRowsPosted
  ImplementsMailbox
CHECK_DEADLOCK FALSE
