SPECIFICATION FairSpec
CONSTANTS
  LedgerSize = 2
  Commands <- MixedCommands
  NoCommand = NoCommand
  MaxGeneration = 20
  MaxFailures = 0
  MaxResets = 1
INVARIANTS
  UniqueIdentities
PROPERTIES
  AcceptedIsSettled
