\* Two files share a descriptor; files are overwritten and copies fail.
SPECIFICATION FairSpec
CONSTANTS
  Paths = {p1, p2}
  NoPath = NoPath
  Fds = {f1}
  NoFd = NoFd
  Copies = {d1, d2}
  NoCopy = NoCopy
  MaxQueue = 2
  MaxVersion = 1
  CopyFails = TRUE
  Free = Free
INVARIANTS
  TypeOK
  NoLostWakeup
  NoCircularWait
  CopiesWhole
PROPERTIES
  CopiesFrozen
  CachedSettled
  ImplementsCache
