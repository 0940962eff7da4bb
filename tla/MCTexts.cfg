CONSTANTS
  None = None
  la = la
  lb = lb
  lz = lz
  short = short
  long = long
  Line = {la, lb}
  Bare = {lz}
  Index <- MCIndex
  Asked <- MCAsked
  Record <- MCRecord
  Empty = 0
  Hole = 0
  MaxMemoryCache = 2
  Item <- MCItem
  NoItem = NoItem
  Garbled = Garbled
  SizeOf <- MCSizeOf
  OffsetLimit = 8
  MaxSize = 5
SPECIFICATION MCSpec
INVARIANTS
  TokensExact
  SinkExact
  ThereAndBack
  CheckoutExact
PROPERTIES
  ImplementsMap
  ImplementsStore
CHECK_DEADLOCK FALSE
