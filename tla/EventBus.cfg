SPECIFICATION FairSpec
CONSTANTS
    Publishers = {"p1"}
    Stoppers = {"s1", "s2"}
    Handlers = {"h1"}
    MaxDispatchers = 3
    MaxPublished = 2
    MaxSubscribed = 1
INVARIANTS
    BusTypeOK
    RunningIsServed
    OnceInFull
PROPERTIES
    Drained
CHECK_DEADLOCK FALSE
