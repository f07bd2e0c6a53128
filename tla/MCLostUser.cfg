SPECIFICATION Spec
CONSTANTS
  Sockets = {s1, s2}
  Channels = {}
  PresenceChannels = {}
  Users = {u1}
  SigninUsers = {u1}
  NoUser = NoUser
  NoChannel = NoChannel
  MaxConnections <- NoLimit
  MaxMembers = 1
  MaxRequests = 1
SYMMETRY Symmetry
CHECK_DEADLOCK FALSE
INVARIANTS
  SignedInIsFound
