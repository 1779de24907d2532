\* Two threads seek at the same time.
SPECIFICATION Spec
CONSTANTS
  Threads = {t1, t2}
  SeekThreads = {t1, t2}
  Requests = {r1, r2, r3}
  NoRequest = NoRequest
  Failed = Failed
  Global = Global
  Progress = Progress
  Free = Free
  ServersMayDie = FALSE
INVARIANTS
  OwnAnswers
CHECK_DEADLOCK FALSE
