SPECIFICATION Spec
CONSTANTS
  Peers = {p1, p2}
  StatsInterval = 1
  StatsTtl = 3
  BeatInterval = 2
  RequestTimeout = 1
CHECK_DEADLOCK FALSE
PROPERTY AnswersReported
