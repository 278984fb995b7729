CONSTANTS
  w1 = w1
  w2 = w2
  Workers <- MCWorkers
  EventLoop = EventLoop
  PoolSizes <- MCPoolSizes
  MaxInner = 1
  MaxLost = 1
SPECIFICATION FairSpec
INVARIANTS
  TypeOK
  NoLostWakeup
  NoHoldAndWait
PROPERTIES
  LeaseSpec
  CheckoutsGoOn
CHECK_DEADLOCK FALSE
