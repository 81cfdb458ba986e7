CONSTANTS
  p1 = p1
  p2 = p2
  p3 = p3
  tcp = tcp
  unix = unix
  NULL = NULL
  Peers = {p1, p2, p3}
  Listeners = {tcp, unix}
  ListenerOf <- ListenTwo
  StdinPeers = {p1}
  max_sockets = 4
  INCREMENT = 2
  Faults = {"accept", "realloc", "malloc", "pipe"}
  Signals = TRUE
  MaxSends = 2
SPECIFICATION Spec
INVARIANTS TableMatches Gated
PROPERTIES NoneMissed EndedIsClosed InputIsRead
CHECK_DEADLOCK FALSE
