SPECIFICATION Spec
CONSTANTS
  NumPipes = 2
  NumConns = 5
  Policy <- LosslessPeer
  MaxSubmit <- OneEach
  Urgent = {}
  FastDispatch = FALSE
  StartSeqs = {0}
  MaxFaults = 1
  MaxMarkDowns = 0
  MaxRestarts = 0
  MaxRejects = 0
  MaxKeepalives = 0
  MaxGlobalSeq = 2
  MaxConnectSeq = 3
INVARIANTS NoSilentLoss SessionsAgree
CHECK_DEADLOCK FALSE
