SPECIFICATION Spec
CONSTANTS
  Settings <- TwoSettings
  NoConfig = NoConfig
  MaxGeneration = 3
  LastTransaction = 2
  MaxCredentials = 3
  MaxFailures = 2
  MaxResets = 2
INVARIANTS
  SelectedIsVetted
  NoOrphanTransaction
  IdentityFollowsConfig
PROPERTIES
  ReplacesAtomically
