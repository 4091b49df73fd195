CONSTANTS
  Waiter = {w1}
  MaxAcks = 1
  StopCalled = TRUE
SPECIFICATION FairSpec
PROPERTY StopEndsGoroutines
CHECK_DEADLOCK FALSE
