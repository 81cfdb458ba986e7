SPECIFICATION CmdSpec
CONSTANTS
  Keys = {1, 2}
  Values = {v1}
  NONE = NONE
  Patterns <- AllOrSecond
  Stream = TRUE
  Calls <- InfoCalls
  InCallback <- InfoCallbacks
  ReadInTx = FALSE
  Faults = {"drop"}
  MaxSent = 8
  MaxPending = 3
  MaxSubscriberSent = 1
  CommandLines <- Lines
  EXITMOD = 2
INVARIANTS StatusCounts Cleared
PROPERTIES ReadvCoherent CallReturns CbCloseEnds CommandEnds
CHECK_DEADLOCK FALSE
