\* Everything that may fail fails, and descriptors are also closed behind the
\* wrappers' back.  Positions play no part in who owns a descriptor: the files
\* are empty.
SPECIFICATION Spec
CONSTANTS
  p1 = p1
  p2 = p2
  s1 = s1
  s2 = s2
  NoPath = NoPath
  Failed = Failed
  Absent = Absent
  Pending = Pending
  Clients = {c1}
  Servers = {s1}
  Paths = {p1, p2}
  DataDir = {p1, p2}
  Fds = {fd1, fd2}
  RemoteFds = {r1, r2}
  ModHost <- OneHost
  RingHost <- OneHost
  FileSize = 0
  MaxPosition = 0
  IntBound = 1
  Seeks <- WildSeeks
  FarSeeks = TRUE
  MaxQueued = 1
  MaxClosing = 1
  PassThrough = TRUE
  Faults = {"open", "read", "pread", "copy", "hgi", "transfer"}
SYMMETRY OneHostSymmetry
INVARIANTS
  Ownership
CHECK_DEADLOCK FALSE
