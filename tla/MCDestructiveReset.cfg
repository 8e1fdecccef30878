SPECIFICATION FairSpec
CONSTANTS
  Limit = 2
  Block = 1
  MaxOverlaps = 1
  MaxFaults = 1
  MaxCrashes = 1
  MaxCommits = 2
  ServerFloors = {1}
INVARIANTS
  SuccessIsComplete
  FailureIsHarmless
  InTurnGenerationsAgree
PROPERTIES
  CommitFinishes
CHECK_DEADLOCK FALSE
