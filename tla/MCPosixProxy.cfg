SPECIFICATION FairSpec
CONSTANTS
  NData = 2
  MaxCalls = 3
  FailsAt = {0}
  NKids = 1
INVARIANTS TaskletAlive NothingLeft ChildAnswer
PROPERTIES CallsAnswered ProxyEnds
CHECK_DEADLOCK FALSE
