\* The answer to CreateStreams races the store of the state.
CONSTANTS
  s1 = s1
  Direction = "ClientToServer"
  Parallel = 1
  ChanCap = 3
  Strangers <- NoStrangers
  Faults <- NoFaults
SPECIFICATION Spec
INVARIANTS AskedStreamsNotRefused
\* A test ends, and a controller may wait for ever on a peer that has gone.
CHECK_DEADLOCK FALSE
