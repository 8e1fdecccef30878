SPECIFICATION FairSpec
CONSTANTS
  Images = 3
  Chunks = 2
  MaxFaults = 1
  MaxCrashes = 2
INVARIANTS
  WorkingImageKept
  OnlyFitImagesServe
  FailedUpdateIsNotRunning
PROPERTIES
  AlwaysComesBack
  UpdateSettles
CHECK_DEADLOCK FALSE
