SPECIFICATION RosterSpec
CONSTANTS
  Sockets = {s1, s2}
  Channels = {a, room}
  PresenceChannels = {room}
  Users = {u1, u2}
  SigninUsers = {}
  NoUser = NoUser
  NoChannel = NoChannel
  MaxConnections <- NoLimit
  MaxMembers = 2
  MaxRequests = 3
CHECK_DEADLOCK FALSE
INVARIANTS
  TypeOK
  NoGhostMember
  MemberRemovedAfterAdded
  RosterAccurate
