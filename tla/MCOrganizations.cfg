SPECIFICATION Spec
CHECK_DEADLOCK FALSE
CONSTANTS
  o1 = o1
  o2 = o2
  e1 = e1
  e2 = e2
  e3 = e3
  pol1 = pol1
  pol2 = pol2
  System = System
  NoVersion = NoVersion
  NoRow = NoRow
  NoPolicy = NoPolicy
  NoOne = NoOne
  NoReport = NoReport
  Rejected = Rejected
  Importers = {o1, o2}
  Versions = {1, 2, 3, 4}
  MaxImports = 2
  Envelopes = {e1, e2, e3}
  Policies = {pol1, pol2}
  Targets <- MCTargets
  Keys <- MCKeys
  Values <- MCValues
  InputsOf <- MCInputsOf
  PlanOf <- MCPlanOf
  ConfigOf <- MCConfigOf
  SourcesOf <- MCSourcesOf
  Disks <- MCDisks
  Databases <- MCDatabases
INVARIANTS
  EqualReportsEqualRows
  OldReportsHold
