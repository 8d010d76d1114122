SPECIFICATION MCSpec
CONSTANTS
  p1 = p1
  p2 = p2
  m1 = m1
  m2 = m2
  snapshot = snapshot
  e1 = e1
  e2 = e2
  e3 = e3
  pol1 = pol1
  pol2 = pol2
  System = System
  NoVersion = NoVersion
  NoRow = NoRow
  NoPolicy = NoPolicy
  NoOne = NoOne
  Rejected = Rejected
  Importers = {p1}
  Versions = {1, 3}
  Disks <- OneRunDisks
  Databases <- RoomyDatabases
  Changeable = {m1, snapshot}
  Faulty = FALSE
  BatchSize = 2
  InputsOf <- MCInputsOf
  PlanOf <- MCPlanOf
  ConfigOf <- MCConfigOf
  Targets <- MCTargets
  Keys <- MCKeys
  Values <- MCValues
  Envelopes = {e1, e2, e3}
  Policies = {pol1, pol2}
INVARIANTS
  ExactImport
PROPERTIES
  ChangeAtVerifyDetected
