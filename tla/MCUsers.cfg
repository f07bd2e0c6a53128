SPECIFICATION FairSpec
CONSTANTS
  Sockets = {s1, s2}
  Channels = {a, room}
  PresenceChannels = {room}
  Users = {u1, u2}
  SigninUsers = {u1}
  NoUser = NoUser
  NoChannel = NoChannel
  MaxConnections <- NoLimit
  MaxMembers = 2
  MaxRequests = 2
CHECK_DEADLOCK FALSE
INVARIANTS
  EmptyEntryIsTransient
PROPERTIES
  CloseCompletes
