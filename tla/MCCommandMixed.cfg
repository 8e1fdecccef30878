SPECIFICATION Spec
CONSTANTS
  LedgerSize = 2
  Commands <- ThreeCommands
  NoCommand = NoCommand
  MaxGeneration = 5
  MaxFailures = 1
  MaxResets = 1
INVARIANTS
  TypeOK
  BootSeesLatest
  NothingStranded
  CommittedResultIsFinal
  RebootAtMostOnce
  HeldEntriesAreLive
  OneHolder
CHECK_DEADLOCK FALSE
