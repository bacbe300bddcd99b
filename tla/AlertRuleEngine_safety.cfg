SPECIFICATION Spec
CONSTANTS
  Evals = {e1, e2, e3}
  Rules = {r1}
  Duration <- OneTick
  MaxTime = 1
  MaxFailures = 1
SYMMETRY EvalSymmetry
INVARIANTS
  BackedByBreach
  DuplicatesOverlap
  SerialAlertsResolve
CHECK_DEADLOCK FALSE
PROPERTIES
  ImplementsMonitor
