SPECIFICATION ReachableSpec
CONSTANTS
  c1 = c1
  c2 = c2
  c3 = c3
  o1 = o1
  o2 = o2
  Caller = {c1, c2}
  Op = {o1}
  Choices <- Persistent
  Garbage = {0}
  Calls = {"start", "stop", "cancel"}
  Faults = {"connect", "close", "system", "other"}
  MaxSessions = 2
PROPERTIES
  StopReturnsOrStarves
  ReconnectCompletes
CHECK_DEADLOCK FALSE
