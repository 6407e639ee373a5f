SPECIFICATION FairSpec
CONSTANTS
  NumPipes = 3
  NumConns = 5
  Policy <- LossyClient
  MaxSubmit <- ClientOne
  Urgent = {}
  FastDispatch = FALSE
  StartSeqs = {0}
  MaxFaults = 1
  MaxMarkDowns = 0
  MaxRestarts = 0
  MaxRejects = 2
  MaxKeepalives = 1
  MaxGlobalSeq = 6
  MaxConnectSeq = 6
PROPERTY EventuallyDelivered
CHECK_DEADLOCK FALSE
