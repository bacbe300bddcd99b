SPECIFICATION Spec
CONSTANTS
  Rules = {r1, r2}
  Requests = {q1, q2, q3}
  Settings = {s1, s2}
  Extras = {x1}
  FirstVersions = {1}
  HistoryLimit = 2
  None = None
SYMMETRY Symmetry
CONSTRAINT ThreeOnOneOrTwoOnTwo
CHECK_DEADLOCK FALSE
INVARIANTS
  VersionNamesOneState
  CacheFollows
PROPERTIES
  SettingsAreUndoable
  RollbackRestores
  ImplementsVersioned
