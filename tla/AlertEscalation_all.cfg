SPECIFICATION FairSpec
CONSTANTS
  Alerts = {a1, a2}
  Cycles = {c1, c2}
  Requests = {q1}
  Users = {u1}
  OperatorPool = OperatorPool
  AdminPool = AdminPool
  None = None
  MaxActs = 1
  RuleSeverities = {"MEDIUM"}
INVARIANTS
  TimelineIsAStory
PROPERTIES
  CycleIsThorough
  PromotesOnlyOverdue
  OverdueGetsCritical
