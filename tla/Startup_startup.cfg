\* Two threads of a client open files at one of two servers, which may be
\* started twice.
SPECIFICATION FairSpec
CONSTANTS
    ServerCount = 2
    Threads = {t1, t2}
    NoThread = NoThread
    NoAddress = NoAddress
    NoContext = NoContext
    Targets = {0}
    MaxStarts <- OneRestart
INVARIANTS
    TypeOK
    FirstListed
    SetUpBeforeUse
    OrderlyStart
    RingComplete
PROPERTIES
    OpensEnd
CHECK_DEADLOCK FALSE
