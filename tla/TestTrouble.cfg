\* Ctrl-C, crashes, reset connections and stalled statistics.
CONSTANTS
  s1 = s1
  Direction = "ServerToClient"
  Parallel = 2
  ChanCap = 3
  Strangers <- NoStrangers
  Faults <- Trouble
SPECIFICATION FairSpec
INVARIANTS OrderInv ExchangeInv ExchangeComplete ResultsAgree ClientFollows SignalsInOrder
           EndsReported
PROPERTIES PhasesAdvance LivesAsPromised ClientStops
\* A test ends, and a controller may wait for ever on a peer that has gone.
CHECK_DEADLOCK FALSE
