SPECIFICATION UndisturbedSpec
CONSTANTS
    sync = sync
    import = import
    chore = chore
    report = report
    upkeep = upkeep
    o1 = o1
    o2 = o2
    o3 = o3
    o4 = o4
    t1 = t1
    t2 = t2
    t3 = t3
    l1 = l1
    l2 = l2
    plex = plex
    worker1 = worker1
    helper = helper
    Names = {sync, import, chore, upkeep}
    SyncNames = {sync}
    ImportNames = {import}
    Registrations <- GateRegistrations
    WithParams = {FALSE}
    Pausable = {upkeep}
    Cooperative = {upkeep}
    Plugins = {plex}
    NoPlugin = NoPlugin
    Objs = {o1, o2, o3, o4}
    NoJob = NoJob
    Threads = {t1, t2}
    Loops = {l1}
    Helpers = {}
    Leasers = {worker1}
    LeaseName <- OneLeaser
    CoreSlots = 2
    GeneralSlots = 2
    WalPressure = {FALSE}
    MaxWriters = 1
    MaxPending = 4
SYMMETRY Symmetry
VIEW View
INVARIANTS
    SingleExecution
    WriteExclusion
    SyncImportExclusion
PROPERTIES
    LeaseGatesWriters
CHECK_DEADLOCK FALSE
