SPECIFICATION WSpec
CONSTANTS
  Specs <- MCSpecs
  OutputsOf <- MCOutputsOf
  Order <- MCOrder
  Commits <- MCCommits
  Broken = {2}
  MaxVersion = 3
  MaxEdits = 0
  Watched = {"door.sm"}
  Undo = FALSE
INVARIANTS
  VerifiedMatchesSpecs
CHECK_DEADLOCK FALSE
