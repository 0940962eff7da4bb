\* Two program runs that end after any pass they start with, the fourth or the
\* last one; the other programs with the inputs of the module.
SPECIFICATION MCSpec
CONSTANTS
  None = None
  MaxRuns = 2
  Ends = {4, 16}
INVARIANTS
  FilesThere
  RunnableAsAsked
  ShrinksWell
  BlobsExact
PROPERTIES
  CollectionEnds
  SortsAll
CHECK_DEADLOCK FALSE
