CONSTANTS
  None = None
  Item <- MCItem
  cvs_item <- MCcvs_item
  TimeCeiling = 100
  OrderedIds <- MCOrderedIds
  SymbolIds <- MCSymbolIds
  MaxInt = 100
SPECIFICATION Spec
INVARIANTS
  Consistent
  NoneRetrograde
  PathFound
PROPERTY
  EarlyStays
