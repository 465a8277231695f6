SPECIFICATION Spec
CONSTANTS
  Garbage = {0, 7, 9}
  Choices <- SmallChoices
INVARIANTS
  SendsBounded
  DelayBounded
  GarbageIsDropped
CHECK_DEADLOCK FALSE
