SPECIFICATION FairSpec
CONSTANTS
  Request = {r1}
  Rejoiner = rejoiner
  Group = {g1}
  NoGroup = none
  MaxId = 2
  MaxSessions = 2
PROPERTIES
  RejoinEnds
