SPECIFICATION FairSpec
CONSTANTS
  Attempts = 3
  MaxEvents = 3
CHECK_DEADLOCK FALSE
INVARIANTS
  NoSilentLoss
PROPERTIES
  EventuallySettled
  ImplementsContract
