\* A stranger connects and says nothing.
CONSTANTS
  s1 = s1
  Direction = "ClientToServer"
  Parallel = 1
  ChanCap = 3
  Strangers <- OneStranger
  Faults <- NoFaults
SPECIFICATION FairSpec
PROPERTIES StreamsAnswered
\* A test ends, and a controller may wait for ever on a peer that has gone.
CHECK_DEADLOCK FALSE
