SPECIFICATION FairSpec
CONSTANTS
  NumPipes = 3
  NumConns = 5
  Policy <- LosslessPeer
  MaxSubmit <- ClientTwo
  Urgent = {}
  FastDispatch = FALSE
  StartSeqs = {0}
  MaxFaults = 1
  MaxMarkDowns = 0
  MaxRestarts = 0
  MaxRejects = 0
  MaxKeepalives = 0
  MaxGlobalSeq = 8
  MaxConnectSeq = 8
INVARIANTS ResumesExactly
PROPERTIES ImplementsChannel EventuallyDelivered
CHECK_DEADLOCK FALSE
