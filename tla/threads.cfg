SPECIFICATION FairSpec
CONSTANTS
  MaxArrived = 1
  Friends = {1}
  Contents = {10}
  AckNums = {0, 1}
  AckSize = 2
  Calls = 2
  Sends = 1
  Arrivals = 1
INVARIANTS AloneSendsItsOwn  OneHeartbeat
PROPERTIES BusyReleased
CONSTRAINT Bounds
