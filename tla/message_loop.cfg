SPECIFICATION MCSpec
CONSTANTS
  Request = {r1}
  Rejoiner = rejoiner
  Group = {g1}
  NoGroup = none
  MaxId = 2
  Kind = {data}
  BufferSize = 1
  MaxSent = 2
  MaxSessions = 2
INVARIANTS
  LoopsAgree
  EndIsSeen
PROPERTIES
  
  AnswersGetThrough
CHECK_DEADLOCK FALSE
