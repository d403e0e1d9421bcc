\* The reads of the client in select!.
CONSTANTS
  Header = 2
  MaxSize = 3
  Payloads <- Sizes
  MaxMessages = 3
  CancelsInFrame = TRUE
SPECIFICATION Spec
INVARIANTS NextReadFindsLength
\* All messages are read, or the reader has failed.
CHECK_DEADLOCK FALSE
