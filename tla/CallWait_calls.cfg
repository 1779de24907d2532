\* One thread opens and reads while another seeks, and the server may die.
SPECIFICATION FairSpec
CONSTANTS
  Threads = {t1, t2}
  SeekThreads = {t2}
  Requests = {r1, r2}
  NoRequest = NoRequest
  Failed = Failed
  Global = Global
  Progress = Progress
  Free = Free
  ServersMayDie = TRUE
INVARIANTS
  TypeOK
  FramesOutliveCallbacks
  OwnAnswers
PROPERTIES
  ImplementsCalls
CHECK_DEADLOCK FALSE
