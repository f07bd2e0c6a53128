SPECIFICATION FairDiscovery
CONSTANTS
  MaxAttempts = 2
  Peers = {p}
CHECK_DEADLOCK FALSE
INVARIANTS
  TypeOK
  MatchMeansConnected
  NobodyMissed
PROPERTIES
  ReadinessRecovers
  PeersMeet
