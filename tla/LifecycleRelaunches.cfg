SPECIFICATION Spec
CONSTANTS
  Restarter = {r1, r2}
  r1 = r1
  r2 = r2
  Commands = {"start"}
  Monitored = FALSE
  MayShutDown = FALSE
  MaxAttempts = 2
  MaxSpawns = 4
  MaxExits = 3
  MaxCommands = 1
  MaxRounds = 0
  MaxFailures = 0
SYMMETRY Turns
INVARIANTS
  RelaunchesBounded
CHECK_DEADLOCK FALSE
