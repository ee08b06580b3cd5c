SPECIFICATION MCSpec
CONSTANTS
  EofBurst = 1
  RxMax = 4
  DefaultTries = 1
  MaxEvents = 2
  TriesChoice = {0, 2}
INVARIANT NoPhantomMessage
CHECK_DEADLOCK FALSE
