\* An open that fails on the server.
SPECIFICATION Spec
CONSTANTS
  p1 = p1
  p2 = p2
  s1 = s1
  s2 = s2
  NoPath = NoPath
  Failed = Failed
  Absent = Absent
  Pending = Pending
  Clients = {c1}
  Servers = {s1}
  Paths = {p1, p2}
  DataDir = {p1, p2}
  Fds = {fd1}
  RemoteFds = {r1, r2}
  ModHost <- OneHost
  RingHost <- OneHost
  FileSize = 1
  MaxPosition = 1
  IntBound = 2
  Seeks <- NoSeeks
  FarSeeks = FALSE
  MaxQueued = 1
  MaxClosing = 2
  PassThrough = FALSE
  Faults = {"open"}
SYMMETRY Symmetry
INVARIANTS
  TransferAccepted
CHECK_DEADLOCK FALSE
