SPECIFICATION FairSpec
CONSTANTS
  Threads = {t1, t2, t3}
  Messages = {m1, m2, m3}
  None = none
INVARIANTS NoneSleepsInNeed
PROPERTIES NothingLeftBehind WaitReturns
CHECK_DEADLOCK FALSE
