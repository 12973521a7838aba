SPECIFICATION Spec
CONSTANTS
  Restarter = {r1}
  r1 = r1
  r2 = r2
  Commands = {"start", "stop", "install", "restart"}
  Monitored = TRUE
  MayShutDown = FALSE
  MaxAttempts = 1
  MaxSpawns = 2
  MaxExits = 1
  MaxCommands = 2
  MaxRounds = 1
  MaxFailures = 1
INVARIANTS
  TypeOK
  RegistryNamesProcess
  StopIsNoCrash
  StoreAgrees
CHECK_DEADLOCK FALSE
