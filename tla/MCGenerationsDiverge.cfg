SPECIFICATION Spec
CONSTANTS
  Limit = 3
  Block = 1
  MaxOverlaps = 1
  MaxFaults = 0
  MaxCrashes = 0
  MaxCommits = 1
  ServerFloors = {1}
INVARIANTS
  GenerationsAgree
CHECK_DEADLOCK FALSE
