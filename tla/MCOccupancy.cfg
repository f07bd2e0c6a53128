SPECIFICATION OccupancySpec
CONSTANTS
  n1 = n1
  n2 = n2
  n3 = n3
  s1 = s1
  s2 = s2
  s3 = s3
  Nodes = {n1, n2, n3}
  Sockets = {s1, s2, s3}
  NodeOf <- TwoOnOne
  Presence = FALSE
  MaxErrors = 1
  MaxTimeouts = 1
  MaxCrashes = 1
CHECK_DEADLOCK FALSE
INVARIANTS
  VerifiedVacated
  FlagDeleted
SYMMETRY Symmetry
