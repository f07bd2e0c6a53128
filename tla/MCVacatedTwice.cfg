SPECIFICATION OccupancySpec
CONSTANTS
  n1 = n1
  n2 = n2
  n3 = n3
  s1 = s1
  s2 = s2
  s3 = s3
  Nodes = {n1, n2}
  Sockets = {s1, s2}
  NodeOf <- Pair
  Presence = FALSE
  MaxErrors = 0
  MaxTimeouts = 0
  MaxCrashes = 0
CHECK_DEADLOCK FALSE
PROPERTY VacatedOnce
