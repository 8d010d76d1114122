SPECIFICATION MCFairSpec
CONSTANTS
  p1 = p1
  p2 = p2
  m1 = m1
  m2 = m2
  snapshot = snapshot
  e1 = e1
  e2 = e2
  e3 = e3
  pol1 = pol1
  pol2 = pol2
  System = System
  NoVersion = NoVersion
  NoRow = NoRow
  NoPolicy = NoPolicy
  NoOne = NoOne
  Rejected = Rejected
  Importers = {p1, p2}
  Versions = {1, 2, 3, 4, 5}
  Disks <- ConcurrentDisks
  Databases <- MCDatabases
  Changeable = {}
  Faulty = TRUE
  BatchSize = 2
  InputsOf <- MCInputsOf
  PlanOf <- MCPlanOf
  ConfigOf <- MCConfigOf
  Targets <- MCTargets
  Keys <- MCKeys
  Values <- MCValues
  Envelopes = {e1, e2, e3}
  Policies = {pol1, pol2}
INVARIANTS
  IInv
  BoundTogether
  ImportsSerialized
  TruthfulReport
  CountCheckRedundant
PROPERTIES
  NoTraceWithoutCommit
  ImplementsAtomicImport
  EveryRunEnds
  SomeImportSucceeds
