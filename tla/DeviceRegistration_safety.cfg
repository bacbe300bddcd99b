SPECIFICATION Spec
CONSTANTS
  k1 = k1
  k2 = k2
  orgA = orgA
  orgB = orgB
  Requests = {r1, r2, r3}
  Uuids = {u1}
  Keys = {k1, k2}
  NoKey = NoKey
  MaxUses <- TwoKeys
  Orgs = {orgA, orgB}
  KeyOrg <- TwoOrgs
SYMMETRY RequestSymmetry
INVARIANTS
  EveryUseCounted
  SuccessIsCharged
  NoFreeDevices
  AnsweredHasRow
PROPERTIES
  ForeignKeyNeverRetokens
  ImplementsLedger
CHECK_DEADLOCK FALSE
