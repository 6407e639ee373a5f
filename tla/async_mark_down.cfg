SPECIFICATION Spec
CONSTANTS
  NumConns = 3
  NumLinks = 4
  Scenarios <- MarkDownScenarios
  MaxSubmit <- TwoEach
  MaxGlobalSeq = 6
  ReapDeadConnectionThreshold = 2
INVARIANT ClosedCanBeReplaced
CHECK_DEADLOCK FALSE
