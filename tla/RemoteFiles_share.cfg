\* Two clients with one descriptor each share two servers, every route the same.
SPECIFICATION Spec
CONSTANTS
  p1 = p1
  p2 = p2
  s1 = s1
  s2 = s2
  NoPath = NoPath
  Failed = Failed
  Absent = Absent
  Pending = Pending
  Clients = {c1, c2}
  Servers = {s1, s2}
  Paths = {p1, p2}
  DataDir = {p1, p2}
  Fds = {fd1}
  RemoteFds = {r1, r2}
  ModHost <- SplitHost
  RingHost <- SplitHost
  FileSize = 1
  MaxPosition = 1
  IntBound = 2
  Seeks <- ShareSeeks
  FarSeeks = FALSE
  MaxQueued = 1
  MaxClosing = 1
  PassThrough = FALSE
  Faults = {}
SYMMETRY Symmetry
INVARIANTS
  TypeOK
  HeldFilesOpen
  OneHolder
  ClosesReleased
  RecordedPaths
  TranslationKnown
PROPERTIES
  ClosesOnlyUnheld
  ServersCache
  Transparent
CHECK_DEADLOCK FALSE
