\* Files with something wrong with them.
CONSTANTS
  None = None
  Trunk = 0
  Symbols <- MCSymbols
  Parsed = {}
  Projects <- SpoiltProjects
SPECIFICATION MCFairSpec
PROPERTY CollectionStops
CHECK_DEADLOCK FALSE
