\* A stranger at the listener and Ctrl-C in the server.
CONSTANTS
  s1 = s1
  Direction = "Bidirectional"
  Parallel = 1
  ChanCap = 4
  Strangers <- OneStranger
  Faults <- ServerCtrlC
SPECIFICATION Spec
INVARIANTS IndInv ArrivalInv LoadStartsWhole StreamsPaired NoStreamLost
PROPERTIES WelcomedInPhase
\* A test ends, and a controller may wait for ever on a peer that has gone.
CHECK_DEADLOCK FALSE
