CONSTANTS
  None = None
  Dir = Dir
  Trunk = 0
  Root = 0
  Directories <- MCDirectories
  Files <- MCFiles
  parent_directory <- MCparent_directory
  Projects <- MCProjectSet
  Rank <- MCCVSFile
  CVSFile <- MCCVSFile
  LODs <- MCLODs
SPECIFICATION MCSpec
CHECK_DEADLOCK FALSE
INVARIANT
  SVNCommittedInItsRevision
