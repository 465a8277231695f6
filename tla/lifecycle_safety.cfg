SPECIFICATION Spec
CONSTANTS
  c1 = c1
  c2 = c2
  c3 = c3
  o1 = o1
  o2 = o2
  Caller = {c1, c2, c3}
  Op = {o1, o2}
  Choices <- AnyChoice
  Garbage = {0}
  Calls = {"start", "stop", "cancel"}
  Faults = {"connect", "close", "system", "other"}
  MaxSessions = 2
SYMMETRY Interchangeable
INVARIANTS
  TypeOK
  HandlerOwnsState
  OneCoroutinePerLoop
  SocketIsQuiet
  OneRecovery
  StoppedIsQuiet
  LockExcludes
PROPERTIES
  StopIsNotInterrupted
  FollowsDiagram
CHECK_DEADLOCK FALSE
