SPECIFICATION Spec
CONSTANTS
  Sockets = {s1, s2, s3}
  Channels = {room}
  PresenceChannels = {room}
  Users = {u1, u2}
  SigninUsers = {}
  NoUser = NoUser
  NoChannel = NoChannel
  MaxConnections <- NoLimit
  MaxMembers = 1
  MaxRequests = 2
SYMMETRY Symmetry
CHECK_DEADLOCK FALSE
INVARIANTS
  NoOverAdmission
