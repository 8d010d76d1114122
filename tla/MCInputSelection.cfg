SPECIFICATION Spec
CHECK_DEADLOCK FALSE
CONSTANTS
  c1 = c1
  c2 = c2
  h1 = h1
  h2 = h2
  h3 = h3
  h4 = h4
  sig = sig
  NoName = NoName
  NoBlock = NoBlock
  Unreadable = Unreadable
  Configs = {c1, c2}
  URLs = {"url"}
  Paths <- MCPaths
  FileAt <- MCFileAt
  Lines <- MCLines
INVARIANTS
  InputsBelongTogether
  NoneIgnored
  ResolvedIsReusable
