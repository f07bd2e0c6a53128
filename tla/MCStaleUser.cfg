SPECIFICATION Spec
CONSTANTS
  Sockets = {s1}
  Channels = {}
  PresenceChannels = {}
  Users = {u1, u2}
  SigninUsers = {u1, u2}
  NoUser = NoUser
  NoChannel = NoChannel
  MaxConnections <- NoLimit
  MaxMembers = 1
  MaxRequests = 2
SYMMETRY Symmetry
CHECK_DEADLOCK FALSE
INVARIANTS
  UserMappingRemoved
