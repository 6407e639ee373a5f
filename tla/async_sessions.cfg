SPECIFICATION Spec
CONSTANTS
  NumConns = 3
  NumLinks = 4
  Scenarios <- SessionScenarios
  MaxSubmit <- TwoEach
  MaxGlobalSeq = 6
  ReapDeadConnectionThreshold = 2
INVARIANTS TypeOK OneSession NoSilentLoss NoHandlerDangles OnlyWindowAsserts
CHECK_DEADLOCK FALSE
