CONSTANTS
  None = None
  Trunk = 0
  Symbols <- MCSymbols
  Parsed <- MCParsed
  Projects <- MCProjects
SPECIFICATION MCSpec
INVARIANTS
  LinksConsistent
  ContentKept
  ClosedByItsSuccessor
  FeedsChangesets
  FeedsFileItems
CHECK_DEADLOCK FALSE
