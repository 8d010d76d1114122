SPECIFICATION Spec
CONSTANTS
  NoHashNamespace = NoHashNamespace
  SystemSources = {"_lifecycle", "lscc", "cscc", "qscc"}
  ReservedTargets = {9}
  Targets = {1, 2, 9}
  Rejected = Rejected
  Pending = Pending
  MaxMappings = 2
  MappingFiles <- MCFiles
  Supplied <- MCSnapshots
INVARIANTS
  CountsMatchWalk
  WalkIsTheSelection
  OnlyApplicationState
