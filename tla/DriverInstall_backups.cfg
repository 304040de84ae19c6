SPECIFICATION FairSpec
CONSTANTS
  d1 = d1
  Device <- OneDevice
  NoDevice = none
  MaxSec = 2
  Keep = 2
  MaxClicks = 3
INVARIANTS TypeOK SavedBackupStands ContextOfInstall BarCounts
PROPERTIES BarEnds ButtonsComeBack
CHECK_DEADLOCK FALSE
