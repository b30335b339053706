SPECIFICATION ProcessSpec
CONSTANTS
  mq = mq
  c1 = c1
  c2 = c2
  noCall = noCall
  Slot = {c1, c2}
  Others = {mq}
  MaxOutages = 2
  MaxLosses = 1
  MaxWipes = 1
INVARIANTS PingLoopLives NodeIsKept IsUnlisted
PROPERTIES StopsPinging GateFollowsDatabase StaysListed
CHECK_DEADLOCK FALSE
