SPECIFICATION StreamFairSpec
CONSTANTS
  Data = 3
  Reply = 2
  Pings = 1
INVARIANT Carried
PROPERTIES DataArrives BothEnd
CHECK_DEADLOCK FALSE
