SPECIFICATION Spec
CONSTANTS
  Versions <- ThreeVersions
  Installed <- Second
  Suites <- Second
INVARIANTS TypeOK ArrivalOrderIsInvisible OemSkippedForAPackage WindowsAgrees
CHECK_DEADLOCK FALSE
