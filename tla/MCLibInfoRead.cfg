SPECIFICATION Spec
CONSTANTS
  Keys = {1, 2}
  Values = {v1}
  NONE = NONE
  Patterns <- AllOnly
  Stream = FALSE
  Calls = {"info_tx_begin", "info_tx_SUB", "info_tx_commit", "info_close", "info_read"}
  InCallback = {}
  ReadInTx = FALSE
  Faults = {}
  MaxSent = 2
  MaxPending = 3
PROPERTIES ReadCurrent
