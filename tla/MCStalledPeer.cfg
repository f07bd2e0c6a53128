SPECIFICATION StalledPeerSpec
CONSTANTS
  QueueCapacity = 2
  PingInterval = 2
  PongTimeout = 1
  ActivityTimeout = 4
  MaxOffered = 4
  MaxFrames = 2
  MaxInbox = 2
CHECK_DEADLOCK FALSE
PROPERTIES
  SlowConsumerCloses
