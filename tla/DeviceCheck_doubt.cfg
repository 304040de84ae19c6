SPECIFICATION Spec
CONSTANTS
  Versions <- ThreeVersions
  Installed <- Known
  Suites <- Second
INVARIANTS DoubtIsTold
CHECK_DEADLOCK FALSE
