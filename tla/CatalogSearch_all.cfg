SPECIFICATION Spec
CONSTANTS
  c1 = c1
  c2 = c2
  a1 = a1
  s1 = s1
  None = None
  ClickRequests <- TwoClicks
  AutoRequests <- OneAuto
  SummaryRequests <- OneSummary
  MaxGen = 1
  WithFirmware = TRUE
  WithRefresh = TRUE
  WithPortable = TRUE
  FinishRace = FALSE
SYMMETRY Symmetric
INVARIANTS TypeOK OneSearchAndSeen SearchRefreshExclusive
PROPERTIES AnswerBelongs ServerSpec
CHECK_DEADLOCK FALSE
