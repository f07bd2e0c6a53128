SPECIFICATION Spec
CONSTANTS
  Slots = {s1}
  Apps = {x}
  MaxConnections <- NoLimit
  MaxHttp = 1
  DrainTicks = 5
CHECK_DEADLOCK FALSE
INVARIANTS
  ClosedCleanly
  StatsKeepUp
