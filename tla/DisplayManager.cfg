SPECIFICATION Spec
CONSTANTS
  Slaves = {"s1", "s2"}
  Counted = "s1"
  Settings <- MCSettings
  Default <- MCDefault
  Stored <- MCStored
  JobQ = 4
  Bars = 3
  LogRows = 2
  LogBack = 3
  Chunks = 1
  InitSteps = 1
  MaxEvents = 2
INVARIANTS TypeOK ToldIsTrue NeverMixed WholeWhenQuiet
PROPERTY ScreenCatchesUp
