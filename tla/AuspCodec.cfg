SPECIFICATION Spec
CONSTANTS
  Texts <- MCTexts
  Loudness <- MCLoudness
  ToneWin = 3
  GapWin = 3
  EofWin = 3
  Timeout = 8
  MaxLate = 1
  DeafWin = 3
  ArraySize = 23
  NumArrays = 2
  MaxTexts = 2
  MaxStalls = 1
INVARIANTS
  TypeOK
  CleanTextHanded
  CodesCarryText
PROPERTIES
  SilentHandsNothing
