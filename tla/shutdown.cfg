SPECIFICATION Spec
CONSTANTS
  Conn = {c1, c2}
  Loopback = self
  Kinds = {"low"}
  Limit = 2
  Lossy = {c1}
  MaxMsgs = 1
  MaxLocal = 0
  Shutdown = TRUE
INVARIANTS TypeOK WaitIsFinal CodeAsserts OneReset
