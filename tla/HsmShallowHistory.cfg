SPECIFICATION ObservedSpec
CONSTANTS
  N <- XN
  Events <- XEvents
  Parent <- XParent
  Cases <- XCases
  Initial <- XInitial
  HasEntry <- XEntry
  HasExit <- XExit
  Queried = {}
  Reentrant = {}
  MaxFrames = 1
  EnumUnsigned = TRUE
PROPERTIES
  ShallowHistory
CHECK_DEADLOCK FALSE
