SPECIFICATION FairSpec
CONSTANTS
  Restarter = {r1}
  r1 = r1
  r2 = r2
  Commands = {"start", "restart"}
  Monitored = FALSE
  MayShutDown = TRUE
  MaxAttempts = 1
  MaxSpawns = 2
  MaxExits = 1
  MaxCommands = 2
  MaxRounds = 0
  MaxFailures = 0
PROPERTIES
  RestartsDrain
CHECK_DEADLOCK FALSE
