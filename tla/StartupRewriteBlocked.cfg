CONSTANTS
  configFile = configFile
  setupFile = setupFile
  Configured = Configured
  SetupDone = SetupDone
  Missing = Missing
  File = {configFile}
  Unit = {Configured}
  UnitOf <- OneFile
  Content = {old, new}
  MaxEntries = 2
  MaxTransactions = 1
  MaxCrashes = 1
  MaxRetries = 0
  MaxEdits = 0
SPECIFICATION Spec
CHECK_DEADLOCK FALSE
INVARIANT AttributableStartupRecovers
