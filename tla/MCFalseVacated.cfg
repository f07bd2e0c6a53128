SPECIFICATION Spec
CONSTANTS
  Sockets = {s1, s2}
  Channels = {a}
  PresenceChannels = {}
  Users = {}
  SigninUsers = {}
  NoUser = NoUser
  NoChannel = NoChannel
  MaxConnections <- NoLimit
  MaxMembers = 1
  MaxRequests = 2
SYMMETRY Symmetry
CHECK_DEADLOCK FALSE
INVARIANTS
  VacatedIsTrue
