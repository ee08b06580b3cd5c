SPECIFICATION MCSpec
CONSTANTS
  Sensors = {s1, s2}
  Pids = {123, 124}
  IdSpace = 5
  Broadcast = 9
  Cuts = {90}
  Fives = {2}
  MaxDevices = 1
  SendTime = 2
  MeasureTime = 1
  RetryTime = 3
  Targets = {1}
  Commands = {"OK"}
  MaxFaults = 1
  MaxCommands = 1
  MaxUpsets = 1
INVARIANTS
  TypeOK
PROPERTIES
  ImplementsRegistry
  AnswersAreShown
  SetGetsThrough
