SPECIFICATION Spec
CONSTANTS
  MaxUint = 3
  Sample <- Samples
  MaxRequests = 1
  MaxSessions = 1
  MaxOdd = 0
INVARIANTS
  SentArrives
CHECK_DEADLOCK FALSE
