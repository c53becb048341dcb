SPECIFICATION Spec
CONSTANTS
    sync = sync
    import = import
    chore = chore
    report = report
    upkeep = upkeep
    o1 = o1
    o2 = o2
    o3 = o3
    o4 = o4
    t1 = t1
    t2 = t2
    t3 = t3
    l1 = l1
    l2 = l2
    plex = plex
    worker1 = worker1
    helper = helper
    Names = {sync, chore}
    SyncNames = {}
    ImportNames = {}
    Registrations <- WriterRegistrations
    WithParams = {FALSE}
    Pausable = {}
    Cooperative = {}
    Plugins = {}
    NoPlugin = NoPlugin
    Objs = {o1, o2, o3}
    NoJob = NoJob
    Threads = {t1, t2}
    Loops = {l1}
    Helpers = {}
    Leasers = {}
    LeaseName <- NoLeaseName
    CoreSlots = 2
    GeneralSlots = 2
    WalPressure = {FALSE}
    MaxWriters = 1
    MaxPending = 3
SYMMETRY Symmetry
VIEW View
INVARIANTS
    WriteExclusion
CHECK_DEADLOCK FALSE
