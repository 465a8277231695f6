SPECIFICATION FairSpec
CONSTANTS
  Limit = 5
  StreamTimeout = 3
  HandshakeTimeout = 2
  Slow = 2
  MaxTime = 17
INVARIANTS
  OverrunIsBounded
  AttemptsArePaced
PROPERTIES
  RecoveryEnds
CHECK_DEADLOCK FALSE
