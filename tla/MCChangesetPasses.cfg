CONSTANTS
  None = None
  TimeCeiling = 100
  MaxInt = 100
SPECIFICATION Spec
INVARIANTS
  NothingLost
  CutForDependency
  OutputIsOrdered
  TimestampsExact
  SkeletonKept
PROPERTIES
  Termination
  ImplementsCommitOrder
