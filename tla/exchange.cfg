SPECIFICATION FairSpec
CONSTANTS
  MaxUint = 3
  Sample <- Requests
  MaxRequests = 2
  MaxSessions = 2
  MaxOdd = 1
INVARIANTS
  NumberedAreDelivered
  ObjectsArriveWhole
  LoopToleratesTheUnknown
  UrlNamesThisConnection
PROPERTIES
  AnswersEndTheirOwn
  WrittenRequestsReturn
CHECK_DEADLOCK FALSE
