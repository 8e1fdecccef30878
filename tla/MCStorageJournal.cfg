SPECIFICATION Spec
CONSTANTS
  MaxSequence = 4
  SegmentRecords = 2
  CardRecords = 2
  BatchMax = 2
  MaxFaults = 1
  MaxCrashes = 2
INVARIANTS
  DurableAppends
  IndexCoversCard
PROPERTIES
  BatchIsNext
CHECK_DEADLOCK FALSE
