CONSTANTS
  c1 = c1
  c2 = c2
  k = k
  e = e
  all = all
  eph = eph
  NONE = NONE
  UNKNOWN = UNKNOWN
  Clients = {c1, c2}
  TextClients = {c1}
  Keys = {k}
  Ephemeral = {e}
  Values = {1}
  Patterns = {all, eph}
  Match <- MatchKeys
  MAX_SUBS = 0
  MAX_BUFCMDS = 2
  Faults = {"send", "short", "store", "malloc", "hangup"}
  MaxBegins = 2
  MaxRecorded = 2
  TxCmds <- Recordable
SPECIFICATION Spec
INVARIANTS SubscribersCurrent ListsSound
PROPERTIES OpenIsRecorded Exclusive OnlySubscribers PlaybackEnds
CHECK_DEADLOCK FALSE
