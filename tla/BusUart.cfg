SPECIFICATION Spec
CONSTANTS
  Timeout = 26
  Period = 12
  Latch = 9
  Depth = 2
  SendTime = 7
  Gap = 3
  K = 4
  S = 2
INVARIANTS
  TypeOK
  SampleOnce
  AccessesAnswered
PROPERTY AccessEnds
