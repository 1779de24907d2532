\* open and read by std::hash, pread, lseek and close by the ring.
SPECIFICATION Spec
CONSTANTS
  p1 = p1
  p2 = p2
  s1 = s1
  s2 = s2
  NoPath = NoPath
  Failed = Failed
  Absent = Absent
  Pending = Pending
  Clients = {c1}
  Servers = {s1, s2}
  Paths = {p1, p2}
  DataDir = {p1, p2}
  Fds = {fd1, fd2}
  RemoteFds = {r1, r2}
  ModHost <- SplitHost
  RingHost <- CrossHost
  FileSize = 1
  MaxPosition = 1
  IntBound = 2
  Seeks <- NoSeeks
  FarSeeks = FALSE
  MaxQueued = 1
  MaxClosing = 1
  PassThrough = FALSE
  Faults = {}
SYMMETRY Symmetry
INVARIANTS
  AvoidsCollision
CHECK_DEADLOCK FALSE
