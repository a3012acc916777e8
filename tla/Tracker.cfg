SPECIFICATION FairSpec
CONSTANTS
  Tag = {a, b}
  NoTag = NoTag
  TxId = {x, y}
  TransactionTimeout = 2
  InvalidationTimeout = 2
  Delays = {0, 1}
  DataUntil = 2
  MaxTime = 7
INVARIANTS
  TypeOK
  ReportsFollowCacheUnlessRaced
PROPERTIES
  NoEarlyExpiry
  SilentTagsDisappear
CHECK_DEADLOCK FALSE
