CONSTANTS
  Stage = {s1, s2}
  Key = {k1, k2}
  Call = {c1, c2}
  None = None
  Quota = 2
  MaxTroubles = 1
  Proc = {p1, p2, p3}
  MaxCrashes = 2
  MaxPauses = 1
  Record = {s1, s2}
  Asker = {c1, c2}
  Command = {"stop"}
  Keep = 1
  MaxDrifts = 1
  MaxWrites = 2
  MaxDocTroubles = 2
  Op = {s1, s2}
  Restarted = {"r"}
  Reloaded = {"l"}
  MaxMishaps = 2
  Appender = {c1, c2}
  Event = {s1, s2}
  LastDay = 2
  MaxUpsets = 2
  Condition = {s1, s2, c3}
  Process = {"runtime", "cli"}
  Limit = 2
  MaxTime = 4
  MaxKills = 1
SPECIFICATION Spec
SYMMETRY Symmetry
CHECK_DEADLOCK FALSE
INVARIANTS
  ImportedOnce
  VerifiedIsComplete
  SettledIsEverywhere
  OneHolder
  RunsOnlyAsConfirmed
  ReadsGoForward
  OwedIsOpen
