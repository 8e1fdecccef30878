SPECIFICATION Spec
CONSTANTS
  LedgerSize = 3
  Commands <- OtaTrio
  NoCommand = NoCommand
  MaxGeneration = 12
  MaxFailures = 0
  MaxResets = 0
INVARIANTS
  OtaSingleFlight
