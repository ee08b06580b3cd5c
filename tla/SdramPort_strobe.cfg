SPECIFICATION Spec
CONSTANTS
  TRCD = 3
  CL = 3
  TRP = 2
  TRFC = 4
  TWR = 2
  TMRD = 2
  InitWait = 31
  RefreshInterval = 29
  WrAlign = 1
  Skew = 1
  Len = 3
  NBurst = 2
  Bins = 5
  DrainWait = 5
  Window = 22
  Serial = 93
INVARIANT StrobeNeverOnRefresh
