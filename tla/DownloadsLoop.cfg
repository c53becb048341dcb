SPECIFICATION FairSpec
CONSTANTS
    Tracks = {"t1", "t2"}
    Cands = {"c1", "c2", "c3"}
    Offers <- LoopOffers
    Drivers = {"loop"}
    Daemon = {"loop"}
    Callers = {"k1"}
    Earlier <- Interrupted
    Transfers <- C3Transfer
    ProviderStates = {TRUE}
    UserOps = {}
    PageSize = 25
    MaxId = 2
    MaxEvents = 2
    MaxRetries = 1
INVARIANTS
    DQTypeOK
    SearchOwned
    DownloadingTraced
    OneWaterfall
    RejectedNotStarted
PROPERTIES
    RejectedKept
    LifecycleSpec
    Settles
CHECK_DEADLOCK FALSE
