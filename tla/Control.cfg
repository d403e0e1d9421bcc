\* Reads that are not dropped, or before they have taken a byte.
CONSTANTS
  Header = 2
  MaxSize = 3
  Payloads <- Sizes
  MaxMessages = 3
  CancelsInFrame = FALSE
SPECIFICATION FairSpec
INVARIANTS TypeOK NextReadFindsLength FailsOnlyAtTheEnd
PROPERTIES InOrder AllDelivered
\* All messages are read, or the reader has failed.
CHECK_DEADLOCK FALSE
