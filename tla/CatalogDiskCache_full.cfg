SPECIFICATION Spec
CONSTANTS
  m1 = m1
  m2 = m2
  model1 = model1
  serial1 = serial1
  serial2 = serial2
  w1 = w1
  Unknown = Unknown
  Home = Home
  Main = Main
  NoRows = NoRows
  NoFile = NoFile
  Torn = Torn
  Untagged = Untagged
  NoCall = NoCall
  Ids <- MixedIds
  Machines <- TwoPCs
  Base <- MixedBase
  Tag <- TwoTag
  Legacy <- OldOfAnyone
  Pool <- OneWorker
  FullInstall = TRUE
  MaxDay = 1
  MaxRestarts = 1
INVARIANTS TypeOK RowsOfThisMachine RefreshLeavesNothingOld
PROPERTIES RowsNeverGoBack
