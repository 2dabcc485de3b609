SPECIFICATION WSpec
CONSTANTS
  Specs <- MCSpecs
  OutputsOf <- MCOutputsOf
  Order <- MCOrder
  Commits <- MCCommits
  Broken = {2}
  MaxVersion = 3
  MaxEdits = 2
  Watched = {"door.sm"}
  Undo = FALSE
INVARIANTS
  WTypeOK
PROPERTIES
  GateIsExact
  EditsAreRegenerated
CHECK_DEADLOCK FALSE
