\* More streams than the controller channel holds.
CONSTANTS
  s1 = s1
  Direction = "ClientToServer"
  Parallel = 3
  ChanCap = 2
  Strangers <- NoStrangers
  Faults <- NoFaults
SPECIFICATION FairSpec
PROPERTIES TimeUpEndsTest
\* A test ends, and a controller may wait for ever on a peer that has gone.
CHECK_DEADLOCK FALSE
