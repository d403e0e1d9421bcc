\* Ctrl-C in the server, or a client that dies while it sends.
CONSTANTS
  s1 = s1
  Direction = "ClientToServer"
  Parallel = 2
  ChanCap = 3
  Strangers <- NoStrangers
  Faults <- ServerTrouble
SPECIFICATION FairSpec
PROPERTIES TestCompletes ServerStops ServerSurvivesClient
\* A test ends, and a controller may wait for ever on a peer that has gone.
CHECK_DEADLOCK FALSE
