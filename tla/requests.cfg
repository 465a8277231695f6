SPECIFICATION FairSpec
CONSTANTS
  Request = {r1, r2}
  Rejoiner = rejoiner
  Group = {g1}
  NoGroup = none
  MaxId = 3
  MaxSessions = 2
INVARIANTS
  NoLostWakeup
  CacheIsTidy
  RejoinBlocksLoop
PROPERTIES
  SendsHaveOutcomes
  RequestReturnsOrStranded
