SPECIFICATION FairSpec
CONSTANTS
  MaxMessages = 2
  Kinds = {"heartbeat", "telemetry"}
  Replies = {"ok", "unauthorized", "noResponse"}
  BatchSize = 1
  MaxRetries = 2
  BreakerThreshold = 2
  AuthThreshold = 2
  MaxCrashes = 1
PROPERTIES
  EverySettles
CHECK_DEADLOCK FALSE
