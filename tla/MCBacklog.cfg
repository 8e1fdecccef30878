SPECIFICATION Spec
CONSTANTS
  Limit = 4
  Block = 2
  MaxOverlaps = 1
  MaxFaults = 1
  MaxCrashes = 1
  SegmentRecords = 2
  CardRecords = 2
  BatchMax = 2
  RecordBytes = 2
  BodyBytes = 5
  MaxTimeouts = 1
INVARIANTS
  InTurnNumbersUsedOnce
  InTurnAcknowledgementKept
  PowerCutsNeverHalt
  AcknowledgedIsKnown
  PrefixIsMissing
PROPERTIES
  DeletesOnlyKnown
CONSTRAINT
  TwoMishaps
CHECK_DEADLOCK FALSE
