CONSTANTS
  None = None
  Item <- MCItem
  cvs_item <- MCcvs_item
  TimeCeiling = 100
  Breakable <- MCBreakable
  SourceId <- MCSourceId
  OrderedIds = {}
  SymbolIds = {}
SPECIFICATION Spec
INVARIANTS
  TypeOK
  ItemsPartitioned
  GraphExact
  ChosenLinkBreakable
  AcyclicWhenDone
