CONSTANTS
  Process = {p1, p2, p3}
  Proc = {p1, p2, p3}
  Runtime = {p1, p2, p3}
  Workspace = {w1, w2}
  Serving = {w1}
  Port = {n1, n2, n3}
  MaxPortTroubles = 1
  MaxTroubles = 2
  MaxCrashes = 1
  MaxPauses = 1
  Services = 3
  Graphs <- ServiceGraphs
  Alternatives = 2
  Cutovers = 2
SPECIFICATION Spec
SYMMETRY Symmetry
CHECK_DEADLOCK FALSE
INVARIANTS
  OneActiveRuntime
  RolledBackLeavesNothing
  LaunchedIsRecorded
  ExclusiveUnlessRobbed
  PortsAreNotShared
  ConsumersFollow
