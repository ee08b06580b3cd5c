SPECIFICATION MCSpec
CONSTANTS
  Uis = {u1, u2}
  Dev = esp
  Values = {v1, v2, v3}
  Unreadable = {v2}
  Default = v3
  MaxBreaks = 1
  MaxEvents = 1
INVARIANTS
  TypeOK
  PagesAgree
PROPERTY Settles
CHECK_DEADLOCK FALSE
