SPECIFICATION Spec
CONSTANTS
  Limit = 5
  Block = 2
  MaxOverlaps = 1
  MaxFaults = 0
  MaxCrashes = 0
  SegmentRecords = 2
  CardRecords = 3
  BatchMax = 2
  RecordBytes = 2
  BodyBytes = 5
  MaxTimeouts = 0
INVARIANTS
  NumbersUsedOnce
CHECK_DEADLOCK FALSE
