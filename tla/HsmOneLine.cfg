SPECIFICATION HsmSpec
CONSTANTS
  MaxStates = 3
  MaxTransitions = 2
  MaxEvents = 2
  MaxDepth = 2
  HistoryNames = {"history", "historyX"}
  Names = {"A", "B"}
  Events = {"e"}
  Targets <- MCTargets
  Attributes <- AttributeKinds
  MaxLines = 4
  OnLine <- MCOnLine
  MaxOneLine = 1
INVARIANT
  ParentsAreAsWritten
CHECK_DEADLOCK FALSE
