\* A server dies while a call waits for it.
SPECIFICATION FairSpec
CONSTANTS
  Threads = {t1}
  SeekThreads = {}
  Requests = {r1}
  NoRequest = NoRequest
  Failed = Failed
  Global = Global
  Progress = Progress
  Free = Free
  ServersMayDie = TRUE
PROPERTIES
  ServiceContinues
CHECK_DEADLOCK FALSE
