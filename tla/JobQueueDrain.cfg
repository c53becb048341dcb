SPECIFICATION DrainSpec
CONSTANTS
    sync = sync
    import = import
    chore = chore
    report = report
    upkeep = upkeep
    o1 = o1
    o2 = o2
    o3 = o3
    o4 = o4
    t1 = t1
    t2 = t2
    t3 = t3
    l1 = l1
    l2 = l2
    plex = plex
    worker1 = worker1
    helper = helper
    Names = {sync, chore, report}
    SyncNames = {}
    ImportNames = {}
    Registrations <- DrainRegistrations
    WithParams = {FALSE}
    Pausable = {}
    Cooperative = {}
    Plugins = {}
    NoPlugin = NoPlugin
    Objs = {o1, o2, o3}
    NoJob = NoJob
    Threads = {t1}
    Loops = {l1}
    Helpers = {}
    Leasers = {}
    LeaseName <- NoLeaseName
    CoreSlots = 1
    GeneralSlots = 1
    WalPressure = {FALSE}
    MaxWriters = 1
    MaxPending = 3
PROPERTIES
    Drains
CHECK_DEADLOCK FALSE
