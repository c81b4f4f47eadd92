CONSTANTS
  w1 = w1
  w2 = w2
  None = None
  NumOrders = 2
  Workers = {w1, w2}
  Settings <- MCSettings
  DefaultLadder <- MCDefault
  Lookback = 2
  TakeOrders = 1
  TakeOpen = 2
  MaxTime = 3
  MaxFaults = 1
SPECIFICATION Spec
INVARIANTS TypeOK LadderIsClimbed OnePassCatchesUp
PROPERTY BannersAreTrue
CHECK_DEADLOCK FALSE
