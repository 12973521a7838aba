SPECIFICATION FairSpec
CONSTANTS
  Restarter = {r1}
  r1 = r1
  r2 = r2
  Commands = {"start", "stop", "install"}
  Monitored = FALSE
  MayShutDown = TRUE
  MaxAttempts = 1
  MaxSpawns = 3
  MaxExits = 1
  MaxCommands = 2
  MaxRounds = 0
  MaxFailures = 1
INVARIANTS
  ShutdownDrains
  OneProcess
PROPERTIES
  CommandsEnd
  SupervisionSettles
  ShutdownEnds
CHECK_DEADLOCK FALSE
