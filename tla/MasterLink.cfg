SPECIFICATION MCSpec
CONSTANTS
  EofBurst = 1
  RxMax = 4
  DefaultTries = 2
  MaxEvents = 2
  TriesChoice = {0, 1}
INVARIANTS
  TypeOK
  OnePendingRegistration
  NestingBoundedByOks
  CleanReception
  FramesHeard
PROPERTIES
  PresenceResolved
  SendsReturn
CHECK_DEADLOCK FALSE
