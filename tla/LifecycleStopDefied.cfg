SPECIFICATION Spec
CONSTANTS
  Restarter = {r1}
  r1 = r1
  r2 = r2
  Commands = {"start", "stop"}
  Monitored = TRUE
  MayShutDown = FALSE
  MaxAttempts = 1
  MaxSpawns = 2
  MaxExits = 0
  MaxCommands = 2
  MaxRounds = 1
  MaxFailures = 0
INVARIANTS
  StopSticks
CHECK_DEADLOCK FALSE
