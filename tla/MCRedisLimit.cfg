SPECIFICATION Spec
CONSTANTS
  n1 = n1
  n2 = n2
  s1 = s1
  s2 = s2
  s3 = s3
  Nodes = {n1, n2}
  Sockets = {s1, s2, s3}
  Users = {u1, u2}
  NoSocket = NoSocket
  NoUser = NoUser
  NodeOf <- TwoNodes
  MaxMembers = 1
  MaxFaults = 0
CHECK_DEADLOCK FALSE
INVARIANT PresenceLimit
