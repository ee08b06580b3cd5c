SPECIFICATION MCSpec
CONSTANTS
  N = 4
  Sect = 2
  CacheN = 2
  MaxRetries = 2
  Blobs = {b1}
  MaxAppends = 6
  MaxExtras = 1
INVARIANT NewestKept
CHECK_DEADLOCK FALSE
