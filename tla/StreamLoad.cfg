\* Both workers of one stream, with a reset at any moment.
CONSTANTS
  Block = 2
  MaxLength = 1
  PipeCap = 2
  PortCap = 1
  MaxReports = 1
SPECIFICATION FairSpec
INVARIANTS TypeOK NothingLost LimitHeld ReportsInOrder SenderNotFailed
PROPERTIES WorkersEnd Measures
\* Both workers have returned and the reports are shown.
CHECK_DEADLOCK FALSE
