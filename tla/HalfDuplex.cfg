SPECIFICATION Spec
CONSTANTS
  Wrap = 8
  HoldTime = 4
  Tone = 1
  Sil = 2
  Warmup = 2
  QueueLen = 2
  FifoLen = 2
  Latency = 2
  Guard = 1
  MaxWait = 2
  Pace = 4
  WarmupPace = 5
  FrameChars = 2
  MaxChars = 4
  MaxStalls = 1
INVARIANTS
  TypeOK
  PlayedFaithfully
PROPERTIES
  SelfNotHeard
  QueueDrains
