CONSTANTS
    ServerCount = 2
    ReplicaCount = 3
    p1 = p1
    EmptyPath = EmptyPath
    OtherPath = OtherPath
    NoPath = NoPath
    NoThread = NoThread
    Threads = {t1, t2, t3}
    Fds = {f1, f2}
    DataDir = {p1}
    Keys = {p1, EmptyPath}
    Hash <- TwoServers
    KeyHash <- PathHash
    ModHost <- OpenHost
    TimeoutLimit = 1
    Faulty = {0}
    Streams = {f2}
    Watched = {t1}
SPECIFICATION FairSpec
CHECK_DEADLOCK FALSE
INVARIANTS
    TypeOK
    CountersCountExits
    RemovedAtLimit
    FlagsMatchRing
    RoutesKept
    PathsKept
PROPERTIES
    NoNewCallsToRemoved
    SharedRing
    CallsEnd
