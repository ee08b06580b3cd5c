SPECIFICATION MCSpec
CONSTANTS
  N = 4
  Sect = 2
  CacheN = 2
  MaxRetries = 2
  Blobs = {b1}
  MaxAppends = 5
  MaxExtras = 2
INVARIANTS
  TypeOK
  ReportsHold
  NothingMisread
  RecentKept
PROPERTY CallsReturn
CHECK_DEADLOCK FALSE
