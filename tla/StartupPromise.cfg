CONSTANTS
  configFile = configFile
  setupFile = setupFile
  Configured = Configured
  SetupDone = SetupDone
  Missing = Missing
  File = {configFile}
  Unit = {Configured}
  UnitOf <- OneFile
  Content = {new}
  MaxEntries = 2
  MaxTransactions = 2
  MaxCrashes = 1
  MaxRetries = 0
  MaxEdits = 1
SPECIFICATION FairSpec
CHECK_DEADLOCK FALSE
PROPERTIES
  StartupSettles
  ImplementsPromise
