CONSTANTS
  None = None
  Trunk = 0
  NameOf <- MCNameOf
  Files <- MCFilesOf
  Options <- MCOptions
  Keyword = "Id"
  Value = "now"
  Unset = "None"
  Keywords = "Author Date Id Revision"
  Texts <- RevisionTexts
  Patterns <- AllPatterns
SPECIFICATION MCSpec
INVARIANT
  WholeNamesOnly
CHECK_DEADLOCK FALSE
