SPECIFICATION Spec
CONSTANTS
  n1 = n1
  n2 = n2
  s1 = s1
  s2 = s2
  r1 = r1
  Nodes = {n1, n2}
  Sockets = {s1, s2}
  Requests = {r1}
  NoSocket = NoSocket
  Absent = Absent
  Failed = Failed
  NodeOf <- Spread
  Batch <- OneBatch
  MaxJoins = 1
  MaxClientEvents <- Talks
  MaxFaults = 1
CHECK_DEADLOCK FALSE
INVARIANTS
  TypeOK
  NoGapAtJoin
  SenderOrder
  TwiceOnlyAfterError
