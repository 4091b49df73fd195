CONSTANTS
  Waiter = {w1}
  MaxAcks = 4
  StopCalled = TRUE
SPECIFICATION FairSpec
INVARIANTS
  PoolTracksGoroutines
  EndsOnlyIfAcked
  SendsHaveRoom
PROPERTIES
  LoopNeverStuck
  StopEnds
CHECK_DEADLOCK FALSE
