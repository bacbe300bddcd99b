SPECIFICATION FairSpec
CONSTANTS
  Devices = {d1}
  Views = {v1}
  Threshold = 6
  SweepPeriod = 1
  BeatPeriod = 2
  Latency = 2
  MaxDisturbances = 3
INVARIANTS
  PresenceIsTimely
  SteadyStaysOnline
PROPERTIES
  TalkingComesBack
  SilentGoesDark
