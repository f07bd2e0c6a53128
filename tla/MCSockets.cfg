SPECIFICATION Spec
CONSTANTS
  Sockets = {s1, s2, s3}
  Channels = {a, room}
  PresenceChannels = {room}
  Users = {u1, u2}
  SigninUsers = {}
  NoUser = NoUser
  NoChannel = NoChannel
  MaxConnections = 2
  MaxMembers = 1
  MaxRequests = 2
SYMMETRY Symmetry
CHECK_DEADLOCK FALSE
INVARIANTS
  ConnectionAccounting
  AdmissionLimit
  NoGhostSubscriber
  IndexEmptyAtRemoval
