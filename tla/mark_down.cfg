SPECIFICATION Spec
CONSTANTS
  NumPipes = 2
  NumConns = 5
  Policy <- StatefulServer
  MaxSubmit <- ClientMore
  Urgent = {1}
  FastDispatch = TRUE
  StartSeqs = {0}
  MaxFaults = 0
  MaxMarkDowns = 1
  MaxRestarts = 1
  MaxRejects = 0
  MaxKeepalives = 0
  MaxGlobalSeq = 3
  MaxConnectSeq = 6
INVARIANTS TypeOK OutQueuesNumbered NoSilentLoss LivePipeRegistered CodeAsserts
CHECK_DEADLOCK FALSE
