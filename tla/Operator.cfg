CONSTANTS
  Call = {c1, c2}
  Key = {k1, k2}
  Confirmation = {f1, f2}
  Process = {p1, p2}
  Adapter = {"http", "mcp"}
  MaxConfirmations = 1
  MaxFaults = 1
  Archive = {1, 2, 3}
  TagOf <- TagOfArchive
  MaxTroubles = 1
  Run = {c1, c2, c3}
  Action = {"backup", "doctor"}
  Skips = {"backup"}
  Needs = {"doctor"}
  KeptRuns = 2
  MaxDeaths = 1
SPECIFICATION Spec
SYMMETRY Symmetry
CHECK_DEADLOCK FALSE
INVARIANTS
  OncePerKey
  OncePerConfirmation
  ReportsAreTrue
  FilesAreThoseRecorded
  RunsAreAccountedFor
PROPERTIES
  SettledStays
