SPECIFICATION Spec
CONSTANTS
  MaxActions = 3
  MaxCrashes = 3
  MaxFailures = 2
INVARIANTS WriteAhead DiskIsTrue OneInDoubt RecoveredClean  NoOrphan
CHECK_DEADLOCK FALSE
