SPECIFICATION FairSpec
CONSTANTS
  NumConns = 3
  NumLinks = 4
  Scenarios <- DeliveryScenarios
  MaxSubmit <- TwoEach
  MaxGlobalSeq = 8
  ReapDeadConnectionThreshold = 2
PROPERTIES ImplementsChannel EventuallyDelivered
CHECK_DEADLOCK FALSE
