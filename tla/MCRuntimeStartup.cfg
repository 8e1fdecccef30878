SPECIFICATION BootFairSpec
CONSTANTS
  Period = 2
  BackStep = 1
  Errors <- MCErrors
  MaxUptime = 4
  MaxWall = 5
  MaxFaults = 1
  MaxCrashes = 1
INVARIANTS
  NetworkStartsLast
PROPERTIES
  CheckpointAscends
  NoTimeBeforeCheckpoint
  Settles
CHECK_DEADLOCK FALSE
