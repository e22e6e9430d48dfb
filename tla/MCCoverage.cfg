CONSTANTS
    NumCommits = 2
    NumFiles = 2
    WorkDirs = {"home", "repo"}
    MaxRuns = 2
SPECIFICATION Spec
INVARIANTS
    TypeOK
    MergedIsLatest
    OneFailureMayHide
CHECK_DEADLOCK FALSE
