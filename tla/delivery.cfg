SPECIFICATION FairSpec
CONSTANTS
  Kind = {server, group}
  BufferSize = 1
  MaxSent = 4
  MaxSessions = 2
INVARIANTS
  DeliveredInOrder
  AckedIsSafe
  LockIsHeldByRunner
CHECK_DEADLOCK FALSE
PROPERTIES
  AcksGrow
  SentIsDelivered
