SPECIFICATION Spec
CONSTANTS
  c1 = c1
  c2 = c2
  c3 = c3
  o1 = o1
  o2 = o2
  Caller = {c1}
  Op = {o1}
  Choices <- Persistent
  Garbage = {0}
  Calls = {"start"}
  Faults = {"other"}
  MaxSessions = 1
PROPERTIES
  RecoveryIsTried
CHECK_DEADLOCK FALSE
