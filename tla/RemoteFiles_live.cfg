\* Liveness; opens and reads may fail at the server, and the file is longer
\* than an int can count, so that a seek to its end is refused.
SPECIFICATION FairSpec
CONSTANTS
  p1 = p1
  p2 = p2
  s1 = s1
  s2 = s2
  NoPath = NoPath
  Failed = Failed
  Absent = Absent
  Pending = Pending
  Clients = {c1}
  Servers = {s1}
  Paths = {p1}
  DataDir = {p1}
  Fds = {fd1}
  RemoteFds = {r1, r2}
  ModHost <- OneHost
  RingHost <- OneHost
  FileSize = 2
  MaxPosition = 3
  IntBound = 2
  Seeks <- LongSeeks
  FarSeeks = FALSE
  MaxQueued = 1
  MaxClosing = 1
  PassThrough = FALSE
  Faults = {"open", "read", "pread"}
INVARIANTS
  AnswersRight
PROPERTIES
  ClosedFilesCached
  CallsReturn
  Transparent
CHECK_DEADLOCK FALSE
