\* A session with a recorder. A run ends when the bridge has returned.
SPECIFICATION FairSpec
CONSTANTS
  Record = TRUE
  QueueCap = 1
  MaxPending = 1
INVARIANTS
  TypeOK
  RunningShellIsHeld
  ExitMeansExited
  NothingIsDropped
PROPERTY EndsEverywhere
CHECK_DEADLOCK FALSE
