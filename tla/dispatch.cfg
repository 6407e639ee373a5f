SPECIFICATION FairSpec
CONSTANTS
  Conn = {c1, c2}
  Loopback = self
  Kinds = {"low"}
  Limit = 2
  Lossy = {c1}
  MaxMsgs = 2
  MaxLocal = 0
  Shutdown = FALSE
INVARIANTS InOrder AcceptFirst NothingAfterFault ThrottleAccounted
PROPERTIES ThrottleWaitEnds ResetsDelivered
CHECK_DEADLOCK FALSE
