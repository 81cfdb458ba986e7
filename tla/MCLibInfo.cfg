SPECIFICATION Spec
CONSTANTS
  Keys = {1, 2}
  Values = {v1}
  NONE = NONE
  Patterns <- AllOnly
  Stream = TRUE
  Calls <- ReadsAndWrites
  InCallback <- SendsOnly
  ReadInTx = FALSE
  Faults = {"connect", "send", "buffer", "drop"}
  MaxSent = 3
  MaxPending = 3
INVARIANTS TxMatches NothingLeft
PROPERTIES ReadCurrent
