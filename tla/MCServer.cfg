SPECIFICATION FairSpec
CONSTANTS
  Slots = {s1, s2}
  Apps = {x, y}
  MaxConnections = 1
  MaxHttp = 1
  DrainTicks = 2
CHECK_DEADLOCK FALSE
INVARIANTS
  CountersMatchRegistry
PROPERTIES
  MemoryRefuses
  ServerStops
