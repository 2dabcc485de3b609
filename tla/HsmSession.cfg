SPECIFICATION FairSpec
CONSTANTS
  N <- SN
  Events <- SEvents
  Parent <- SParent
  Cases <- SCases
  Initial <- SInitial
  HasEntry <- SEntry
  HasExit <- SExit
  Queried = {2, 3}
  Reentrant = {"entry"}
  MaxFrames = 2
  EnumUnsigned = FALSE
PROPERTIES
  DispatchIsOneStep
