SPECIFICATION FairSpec
CONSTANTS
  N <- PN
  Events <- PEvents
  Parent <- PParent
  Cases <- PCases
  Initial <- PInitial
  HasEntry <- PEntry
  HasExit <- PExit
  Queried = {}
  Reentrant = {"entry"}
  MaxFrames = 2
  EnumUnsigned = TRUE
INVARIANTS
  TypeOK
  SourceIsActive
  HistoryInside
  HistoryWasSaved
  NoWildRead
PROPERTIES
  InnermostCallReturns
  DispatchIsOneStep
