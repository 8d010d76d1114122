SPECIFICATION Spec
CONSTANTS
  NoHashNamespace = NoHashNamespace
  Rejected = Rejected
  Malformed = Malformed
  NoPolicy = NoPolicy
  P = P
  Q = Q
  R = R
  X = X
  V = V
  NotStatic = NotStatic
  SystemSources = {"lscc", "_lifecycle"}
  ReservedTargets = {}
  Inputs <- TwinOwners
  Forgeries <- MCForgeries
  Resolve <- MCResolve
  Verifiable <- MCVerifiable
CHECK_DEADLOCK FALSE
INVARIANTS
  RepeatedRunsAgree
