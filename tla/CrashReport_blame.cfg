SPECIFICATION FairSpec
CONSTANTS
  Drivers = {"gpu", "storport"}
  StorageHints = {"storport"}
  GraphicsHints = {"gpu"}
  KernelHints <- Guesses
  ModuleOrder <- Order
  Devices = {"card", "dock", "disk"}
  Suite = "suite"
  DevicesOf <- Mapped
  Primary = {"suite"}
  Answers <- SomeAnswers
  Picks <- SomePicks
  Cases <- SomeCases
  None = None
  MaxNames = 2
  MaxRuns = 2
  MaxLoads = 2
INVARIANTS TypeOK ReportAgrees MainSuspectCurrent BlameIsGrounded
PROPERTIES ConfirmedFirst SummaryCatchesUp
CHECK_DEADLOCK FALSE
