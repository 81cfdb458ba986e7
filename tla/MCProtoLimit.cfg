CONSTANTS
  OUTBUFSZ = 12
  SIZEOFSIZE = 3
  UINT = 64
  RXLIMIT = 12
  SIZECHUNK = 4
  CMDSZ = 4
  Sends <- Messages
  Typed <- Lines
  MaxSent = 2
SPECIFICATION Spec
INVARIANT AllowedIsAccepted
CHECK_DEADLOCK FALSE
