SPECIFICATION Spec
CONSTANT MaxAttempts = 2
CHECK_DEADLOCK FALSE
INVARIANT ReadyMeansDiscovered
PROPERTY StaleTaskNeverFlips
