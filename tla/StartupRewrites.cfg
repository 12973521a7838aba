CONSTANTS
  configFile = configFile
  setupFile = setupFile
  Configured = Configured
  SetupDone = SetupDone
  Missing = Missing
  File = {configFile}
  Unit = {Configured}
  UnitOf <- OneFile
  Content = {old, new}
  MaxEntries = 2
  MaxTransactions = 1
  MaxCrashes = 1
  MaxRetries = 1
  MaxEdits = 1
SPECIFICATION Spec
SYMMETRY ContentSymmetry
CHECK_DEADLOCK FALSE
INVARIANTS
  TypeOK
  RolledBackRestoresFiles
  EveryChangeIsUndoable
  SealedLeavesNoEvidence
  PendingWorkHasEvidence
  UntrackedBlocks
  ClaimsVouchLiveFiles
  BlockedOnlyWithCause
