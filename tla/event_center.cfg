SPECIFICATION FairSpec
CONSTANTS
  Workers = {0, 1}
  Conns = {c1}
  Local = local
  Listener = listener
  ListenFd = 1
  NotifyFd = notifyfd
  Threads = {t1}
  Admin = admin
  Fds = {2}
  InitEvents = 2
  LocalListen = FALSE
  MaxCalls = 1
  MaxFaults = 1
  None = None
INVARIANTS TypeOK NoLostWakeup NothingDangles CodeAsserts
PROPERTIES EventsKeepOrder ClosedIsFreed ShutdownEnds
