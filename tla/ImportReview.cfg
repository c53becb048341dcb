SPECIFICATION Spec
CONSTANTS
    d1 = d1
    d2 = d2
    watch = watch
    scan = scan
    reviewer = reviewer
    none = none
    InPlace = {}
    Renamed = {d1, d2}
    Watchers = {watch}
    Scanner = scan
    Reviewers = {reviewer}
    NoOne = none
    MaxCopies = 2
    MaxFaults = 0
    AutoImport = TRUE
PROPERTIES
    BatchesKeepBoth
CHECK_DEADLOCK FALSE
