SPECIFICATION Spec
CONSTANTS
  N <- TLN
  Events <- TLEvents
  Parent <- TLParent
  Cases <- TLCases
  Initial <- TLInitial
  HasEntry <- TLEntry
  HasExit <- TLExit
  Queried = {}
  Reentrant = {}
  MaxFrames = 1
  EnumUnsigned = TRUE
PROPERTIES
  TimerTurnsGreen
CHECK_DEADLOCK FALSE
