SPECIFICATION FairSpec
CONSTANTS
  c1 = c1
  c2 = c2
  a1 = a1
  s1 = s1
  None = None
  ClickRequests <- TwoClicks
  AutoRequests <- OneAuto
  SummaryRequests <- OneSummary
  MaxGen = 1
  WithFirmware = FALSE
  WithRefresh = FALSE
  WithPortable = FALSE
  FinishRace = FALSE
INVARIANTS QueueAttended
PROPERTIES QueuedSearchStarts
CHECK_DEADLOCK FALSE
