CONSTANTS
  None = None
  Trunk = 0
  NameOf <- MCNameOf
  Files <- MCFilesOf
  Options <- MCOptions
  Keyword = "Id"
  Value = "now"
  Unset = "None"
  Keywords = "Author Date Id Revision"
  Texts <- RevisionTexts
  Patterns <- AnchoredPatterns
SPECIFICATION MCSpec
INVARIANTS
  WalkExact
  TransformsExact
  AppleExact
  TextAndProperties
  PlanFitsEveryFile
CHECK_DEADLOCK FALSE
