CONSTANTS
  configFile = configFile
  setupFile = setupFile
  Configured = Configured
  SetupDone = SetupDone
  Missing = Missing
  File = {configFile, setupFile}
  Unit = {Configured, SetupDone}
  UnitOf <- OneFilePerUnit
  Content = {old, new}
  MaxEntries = 4
  MaxTransactions = 1
  MaxCrashes = 1
  MaxRetries = 0
  MaxEdits = 2
SPECIFICATION HeldUpSpec
SYMMETRY ContentSymmetry
CHECK_DEADLOCK FALSE
INVARIANT EditsStayApart
