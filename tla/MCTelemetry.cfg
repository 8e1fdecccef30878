SPECIFICATION FairSpec
CONSTANTS
  Second = 1
  MaxExponent = 3
  Cap = 5
  Word = 64
  MaxFailures = 3
  Periods <- TwoPeriods
  FirstPeriod = 2
  RequestTimeout = 3
  JoinTimeout = 2
  MaxSequence = 4
  MaxOutages = 2
INVARIANTS
  EverySampleAccounted
  TimersAgree
PROPERTIES
  NewestIsSent
  CadenceKept
  DeliveryResumes
