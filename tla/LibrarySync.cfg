SPECIFICATION FairSpec
CONSTANTS
    f1 = f1
    f2 = f2
    Files = {f1, f2}
    Unnamed = {f2}
    Untagged = {3}
    ChunkSize = 1
    MaxEvents = 4
INVARIANTS
    SyncTypeOK
    NeverBehind
PROPERTIES
    PresentKept
    Converges
