SPECIFICATION FairScopeSpec
CONSTANTS
    a = a
    b = b
    c = c
    Threads = {a, b, c}
    ExclusiveThreads = {a}
    MaxWriters = 1
    MaxDepth = 3
    LeaseFirst = {a}
    FlushFirst = {b}
    NoThread = NoThread
INVARIANTS
    PermitAccounting
    LockReleased
    MutualExclusion
    WritersSerialised
PROPERTIES
    PromiseSpec
    ScopesEnd
