SPECIFICATION FairSpec
CONSTANTS
  MaxClicks = 3
  MaxProfiles = 4
  AutoLoad = TRUE
  Starts <- SomeStarts
  WithAnalysis = TRUE
  WithOthers = TRUE
INVARIANTS TypeOK ChainAttended
PROPERTIES ChainEnds WaitingSearchKeepsItsFill
CHECK_DEADLOCK FALSE
