SPECIFICATION WSpec
CONSTANTS
  Specs <- MCSpecs
  OutputsOf <- MCOutputsOf
  Order <- MCOrder
  Commits <- MCCurrent
  Broken = {2}
  MaxVersion = 3
  MaxEdits = 3
  Watched = {"door.sm"}
  Undo = TRUE
PROPERTIES
  EditsAreRegenerated
CHECK_DEADLOCK FALSE
