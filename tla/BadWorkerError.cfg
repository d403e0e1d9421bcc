\* Writers fail when the client dies.
CONSTANTS
  s1 = s1
  Direction = "ServerToClient"
  Parallel = 2
  ChanCap = 3
  Strangers <- NoStrangers
  Faults <- ClientCrash
SPECIFICATION FairSpec
PROPERTIES WorkerErrorReported
\* A test ends, and a controller may wait for ever on a peer that has gone.
CHECK_DEADLOCK FALSE
