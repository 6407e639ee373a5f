SPECIFICATION FairSpec
CONSTANTS
  Conn = {c1}
  Loopback = self
  Kinds = {"low", "fast"}
  Limit = 9
  Lossy = {}
  MaxMsgs = 1
  MaxLocal = 2
  Shutdown = TRUE
PROPERTIES ShutdownEnds LocalDelivered
CHECK_DEADLOCK FALSE
