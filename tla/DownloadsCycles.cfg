SPECIFICATION FairSpec
CONSTANTS
    Tracks = {"t1"}
    Cands = {"c1", "c2"}
    Offers <- OneOffer
    Drivers = {"d1"}
    Daemon = {}
    Callers = {"k1"}
    Earlier <- Restarted
    Transfers <- C1Transfer
    ProviderStates = {TRUE, FALSE}
    UserOps = {"hook", "QUEUED", "PAUSED", "CANCELLED", "requeue", "delete", "start", "import"}
    PageSize = 25
    MaxId = 1
    MaxEvents = 2
    MaxRetries = 1
PROPERTIES
    Unstuck
CHECK_DEADLOCK FALSE
