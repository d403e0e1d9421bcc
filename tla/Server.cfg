\* Two clients, one after the other or at once, that may leave at any moment.
CONSTANTS
  c1 = c1
  c2 = c2
  Clients = {c1, c2}
  PortCap = 1
SPECIFICATION FairSpec
INVARIANTS ServerInv OneTest StreamsOfTheirTest CleanExit
PROPERTIES ServesInTurn EveryoneAnswered TestsEnd AllShown ServerExits
\* A client that left keeps its test, and the server, waiting for streams.
CHECK_DEADLOCK FALSE
