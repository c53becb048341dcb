SPECIFICATION FairSpec
CONSTANTS
    d1 = d1
    d2 = d2
    watch = watch
    scan = scan
    reviewer = reviewer
    none = none
    InPlace = {d1}
    Renamed = {d2}
    Watchers = {watch}
    Scanner = scan
    Reviewers = {}
    NoOne = none
    MaxCopies = 2
    MaxFaults = 1
    AutoImport = TRUE
INVARIANTS
    ImportTypeOK
    ProcessingAccounted
PROPERTIES
    KeepsBoth
    OnlyWholeImported
    Handled
CHECK_DEADLOCK FALSE
